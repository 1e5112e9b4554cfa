--------------------------- MODULE GatewayProofs ---------------------------
(***************************************************************************)
(* Proofs about the parts of the gateway that share no state with the      *)
(* rest: access list sources, client certificates, deliveries, discovery   *)
(* and the way of a request through the data plane.                        *)
(***************************************************************************)
EXTENDS AccessSync, ClientCerts, Delivery, Discovery, RequestPath, FiniteSetTheorems,
        WellFoundedInduction, TLAPS

\* A set of naturals has a least element.
LEMMA Least ==
    ASSUME NEW S \in SUBSET Nat, S # {}
    PROVE  \E x \in S : \A y \in S : x <= y
<1> DEFINE R == OpToRel(<, Nat)
<1>1. IsWellFoundedOn(R, Nat)
  BY NatLessThanWellFounded
<1>2. \A x, y \in Nat : y < x => <<y, x>> \in R
  BY DEF OpToRel
<1> HIDE DEF R
<1>3. PICK x \in S : \A y \in S : ~ (<<y, x>> \in R)
  BY <1>1, WFMin
<1>4. \A y \in S : ~(y < x)
  BY <1>2, <1>3
<1> QED
  BY <1>4

----------------------------------------------------------------------------
(* Access list sources.                                                    *)

SourceMap == [Feed -> URL \cup {Absent}]
SourceEntry == [url : URL, at : Nat, set : Bodies]
SourceLedger == [Feed -> SourceEntry \cup {Absent}]
Starter == {"poll", "now", "drain"}

\* A pass that has read the ledger, and a pass that may still commit.
Read == pass.pc \in {"fetch", "reload"}
Unsaved == pass.pc \in {"config", "ledger", "fetch"}

CommitsType ==
    /\ commits \in Seq([src : SourceMap, led : SourceLedger])
    /\ Len(commits) >= 1
    /\ published \in [URL -> Bodies]
    /\ clock \in Nat
    /\ withdrawn \subseteq Feed \X (SourceEntry \cup {Absent})
PassType ==
    \/ pass = NoPass
    \/ pass \in [pc : {"config"}, by : Starter]
    \/ pass \in [pc : {"ledger"}, by : Starter, src : SourceMap]
    \/ /\ pass \in [pc : {"fetch", "reload"}, by : Starter, src : SourceMap, led : SourceLedger,
                    rev : Nat, next : SourceLedger, todo : SUBSET Feed]
       /\ pass.rev \in 1..Len(commits)
       /\ commits[pass.rev].led = pass.led
       /\ \A k \in pass.todo : pass.src[k] # Absent

\* What a feed published under its URL, and no more of it than is allowed.
Whole(e) ==
    e # Absent => /\ <<e.url, e.set>> \in everPublished
                  /\ Cardinality(e.set) <= MaxEntries
EntriesWhole ==
    /\ \A u \in URL : <<u, published[u]>> \in everPublished
    /\ \A i \in 1..Len(commits) : \A k \in Feed : Whole(commits[i].led[k])
    /\ Read => \A k \in Feed : Whole(pass.next[k])

\* No entry is from the future; while a pass may still commit, none is from
\* that pass.
Dated(e) == e # Absent => e.at <= clock /\ (Unsaved => e.at < clock)
EntriesDated ==
    /\ \A i \in 1..Len(commits) : \A k \in Feed : Dated(commits[i].led[k])
    /\ \A w \in withdrawn : Dated(w[2])

\* What a pass is about to save: entries of the URLs it read, each the one it
\* found or one it fetched itself.
NextEarned ==
    Read => \A k \in Feed : pass.next[k] # Absent =>
                /\ pass.next[k].url = pass.src[k]
                /\ pass.next[k] = pass.led[k] \/ pass.next[k].at = clock

\* What the data plane serves, and what settled means while a pass runs.
FollowsTip ==
    /\ pass.pc # "reload" => serving = CompiledSources(Tip)
    /\ settled => \A k \in Feed : Tip.led[k] # Absent => Tip.led[k].url = Tip.src[k]
    /\ settled /\ pass.pc \in {"ledger", "fetch", "reload"} => pass.src = Tip.src

SourcesInv ==
    /\ CommitsType /\ PassType /\ EntriesWhole /\ EntriesDated /\ NextEarned
    /\ FollowsTip /\ NotReestablished

Commit == [src : SourceMap, led : SourceLedger]

\* HEAD is a commit.
LEMMA TipTyped ==
    ASSUME CommitsType
    PROVE  /\ Tip \in Commit
           /\ Tip = commits[Len(commits)] /\ Len(commits) \in 1..Len(commits)
           /\ \A i \in 1..Len(commits) : commits[i] \in Commit
<1>1. commits \in Seq(Commit) /\ Len(commits) \in Nat /\ Len(commits) >= 1
  BY DEF CommitsType, Commit
<1> QED
  BY <1>1 DEF Tip

\* A commit is the new HEAD and leaves the history before it as it was.
LEMMA Committed ==
    ASSUME CommitsType, NEW c \in Commit, commits' = Append(commits, c)
    PROVE  /\ commits' \in Seq(Commit)
           /\ Len(commits') = Len(commits) + 1
           /\ \A i \in 1..Len(commits) : commits'[i] = commits[i]
           /\ \A i \in 1..Len(commits') : i \in 1..Len(commits) \/ commits'[i] = c
           /\ commits'[Len(commits')] = c
           /\ Tip' = c
<1>1. commits \in Seq(Commit) /\ Len(commits) \in Nat
  BY DEF CommitsType, Commit
<1> QED
  BY <1>1 DEF Tip

\* The first of the sources still to visit is one of them.
LEMMA FirstToVisit ==
    ASSUME PassType, pass.pc = "fetch", pass.todo # {}
    PROVE  Min(pass.todo) \in pass.todo /\ pass.todo \subseteq Feed
<1>1. pass.todo \subseteq Feed
  BY DEF PassType, NoPass
<1>2. pass.todo \subseteq Nat
  BY <1>1, AccessAssumption DEF AccessAssumption
<1>3. \E z \in pass.todo : \A y \in pass.todo : z <= y
  BY <1>2, Least
<1> QED
  BY <1>1, <1>3 DEF Min

\* A pass starts at a time of its own.
LEMMA StartStep ==
    ASSUME SourcesInv, NEW by \in Starter, StartPass(by),
           UNCHANGED <<commits, published, attempts, running, queued, serving, changes,
                       everPublished, withdrawn, settled>>
    PROVE  SourcesInv'
<1>1. CommitsType' /\ PassType'
  BY DEF SourcesInv, CommitsType, PassType, StartPass
<1>2. EntriesWhole' /\ NextEarned'
  BY DEF SourcesInv, EntriesWhole, NextEarned, Whole, Read, StartPass
<1>3. Tip' = Tip
  BY DEF Tip
<1>4. FollowsTip' /\ NotReestablished'
  BY <1>3 DEF SourcesInv, FollowsTip, NotReestablished, CompiledSources, StartPass, NoPass
<1>5. EntriesDated'
  <2>1. \A i \in 1..Len(commits) : \A k \in Feed :
            commits[i].led[k] # Absent => commits[i].led[k] \in SourceEntry
    BY TipTyped DEF SourcesInv, Commit, SourceLedger
  <2>2. \A w \in withdrawn : w[2] # Absent => w[2] \in SourceEntry
    BY DEF SourcesInv, CommitsType
  <2>3. clock \in Nat /\ clock' = clock + 1
    BY DEF SourcesInv, CommitsType, StartPass
  <2>4. \A e \in SourceEntry : Dated(e) => Dated(e)'
    BY <2>3 DEF Dated, Unsaved, SourceEntry
  <2>5. \A e : e = Absent => Dated(e)'
    BY DEF Dated
  <2> QED
    BY <2>1, <2>2, <2>4, <2>5 DEF SourcesInv, EntriesDated
<1> QED
  BY <1>1, <1>2, <1>4, <1>5 DEF SourcesInv

\* A pass that ends without a commit leaves what is stored alone.
LEMMA EndStep ==
    ASSUME SourcesInv, pass' = NoPass, serving' = CompiledSources(Tip),
           settled' => \A k \in Feed : Tip.led[k] # Absent => Tip.led[k].url = Tip.src[k],
           UNCHANGED <<commits, published, clock, everPublished, withdrawn>>
    PROVE  SourcesInv'
<1>1. CommitsType' /\ PassType'
  BY DEF SourcesInv, CommitsType, PassType
<1>2. EntriesWhole' /\ NextEarned' /\ EntriesDated'
  BY DEF SourcesInv, EntriesWhole, NextEarned, EntriesDated, Dated, Whole, Read, Unsaved, NoPass
<1>3. Tip' = Tip
  BY DEF Tip
<1>4. FollowsTip' /\ NotReestablished'
  BY <1>3 DEF SourcesInv, FollowsTip, NotReestablished, CompiledSources, NoPass
<1> QED
  BY <1>1, <1>2, <1>4 DEF SourcesInv

\* load.
LEMMA LoadSourcesStep ==
    ASSUME SourcesInv, NEW ok \in BOOLEAN, LoadSources(ok)
    PROVE  SourcesInv'
<1>1. CASE ~ok
  <2>1. pass' = NoPass /\ pass.pc = "config"
    BY <1>1 DEF LoadSources, EndPass
  <2>2. /\ serving' = CompiledSources(Tip)
        /\ settled' => \A k \in Feed : Tip.led[k] # Absent => Tip.led[k].url = Tip.src[k]
    BY <2>1 DEF LoadSources, SourcesInv, FollowsTip
  <2> QED
    BY <2>1, <2>2, EndStep DEF LoadSources
<1>2. CASE ok
  <2>1. /\ pass.pc = "config" /\ pass.by \in Starter
        /\ pass' = [pc |-> "ledger", by |-> pass.by, src |-> Tip.src]
    BY <1>2 DEF LoadSources, SourcesInv, PassType, NoPass
  <2>2. Tip' = Tip /\ Tip.src \in SourceMap
    BY TipTyped DEF Tip, LoadSources, SourcesInv, Commit
  <2>3. CommitsType' /\ PassType'
    BY <2>1, <2>2 DEF SourcesInv, CommitsType, PassType, LoadSources
  <2>4. EntriesWhole' /\ NextEarned' /\ EntriesDated'
    BY <2>1 DEF SourcesInv, EntriesWhole, NextEarned, EntriesDated, Dated, Whole, Read, Unsaved,
                LoadSources
  <2>5. FollowsTip' /\ NotReestablished'
    BY <2>1, <2>2 DEF SourcesInv, FollowsTip, NotReestablished, CompiledSources, LoadSources
  <2> QED
    BY <2>3, <2>4, <2>5 DEF SourcesInv
<1> QED
  BY <1>1, <1>2

\* LoadAccessListSourceLedger.
LEMMA LoadLedgerStep ==
    ASSUME SourcesInv, LoadLedger
    PROVE  SourcesInv'
<1>1. /\ pass.pc = "ledger" /\ pass.by \in Starter /\ pass.src \in SourceMap
      /\ pass' = [pc |-> "fetch", by |-> pass.by, src |-> pass.src, led |-> Tip.led,
                  rev |-> Len(commits), next |-> [k \in Feed |-> Absent],
                  todo |-> {k \in Feed : pass.src[k] # Absent}]
  BY DEF LoadLedger, SourcesInv, PassType, NoPass
<1>2. /\ Tip' = Tip /\ Tip.led \in SourceLedger /\ Len(commits) \in 1..Len(commits)
      /\ commits[Len(commits)].led = Tip.led
  BY TipTyped DEF Tip, LoadLedger, SourcesInv, Commit
<1>3. [k \in Feed |-> Absent] \in SourceLedger
  BY DEF SourceLedger
<1>4. pass' \in [pc : {"fetch", "reload"}, by : Starter, src : SourceMap, led : SourceLedger,
                 rev : Nat, next : SourceLedger, todo : SUBSET Feed]
  BY <1>1, <1>2, <1>3
<1>5. CommitsType' /\ PassType'
  BY <1>1, <1>2, <1>4 DEF SourcesInv, CommitsType, PassType, LoadLedger
<1>6. EntriesWhole' /\ NextEarned' /\ EntriesDated'
  BY <1>1 DEF SourcesInv, EntriesWhole, NextEarned, EntriesDated, Dated, Whole, Read, Unsaved,
              LoadLedger
<1>7. FollowsTip' /\ NotReestablished'
  BY <1>1, <1>2 DEF SourcesInv, FollowsTip, NotReestablished, CompiledSources, LoadLedger
<1> QED
  BY <1>5, <1>6, <1>7 DEF SourcesInv

\* One source: what a pass saves for it is the entry it found under the same
\* URL, or the body that URL answers with now, whole.
LEMMA VisitStep ==
    ASSUME SourcesInv, NEW answer \in Bodies \cup {{}}, Visit(answer)
    PROVE  SourcesInv'
<1> DEFINE k == Min(pass.todo)
<1>1. /\ pass.pc = "fetch" /\ k \in Feed /\ pass.src[k] \in URL
      /\ pass \in [pc : {"fetch", "reload"}, by : Starter, src : SourceMap, led : SourceLedger,
                   rev : Nat, next : SourceLedger, todo : SUBSET Feed]
      /\ pass.rev \in 1..Len(commits) /\ commits[pass.rev].led = pass.led
      /\ \A f \in pass.todo : pass.src[f] # Absent
  <2>1. PassType /\ pass.pc = "fetch" /\ pass.todo # {}
    BY DEF SourcesInv, Visit
  <2>2. k \in pass.todo /\ pass.todo \subseteq Feed
    BY <2>1, FirstToVisit
  <2> QED
    BY <2>1, <2>2 DEF PassType, NoPass, SourceMap
<1>2. PICK e : /\ pass' = [pass EXCEPT !.todo = @ \ {k}, !.next[k] = e]
               /\ \/ e = Kept(k)
                  \/ /\ ParseEntries(answer) # {} /\ answer \in {{}, published[pass.src[k]]}
                     /\ e = [url |-> pass.src[k], at |-> clock, set |-> ParseEntries(answer)]
  BY DEF Visit
<1>3. UNCHANGED <<commits, published, clock, serving, everPublished, withdrawn, settled>>
  BY DEF Visit
<1>4. Kept(k) # Absent => Kept(k) = pass.led[k] /\ pass.led[k].url = pass.src[k]
  BY DEF Kept
<1>5. e # Absent => /\ e \in SourceEntry /\ e.url = pass.src[k] /\ Whole(e)
                    /\ e = pass.led[k] \/ e.at = clock
  <2>1. CASE e = Kept(k) /\ e # Absent
    <3>1. e = pass.led[k] /\ e.url = pass.src[k] /\ e = commits[pass.rev].led[k]
      BY <2>1, <1>1, <1>4
    <3>2. Whole(e)
      BY <3>1, <1>1 DEF SourcesInv, EntriesWhole
    <3> QED
      BY <3>1, <3>2, <2>1, <1>1 DEF SourceLedger
  <2>2. CASE /\ ParseEntries(answer) # {} /\ answer \in {{}, published[pass.src[k]]}
             /\ e = [url |-> pass.src[k], at |-> clock, set |-> ParseEntries(answer)]
    <3>1. /\ ParseEntries(answer) = published[pass.src[k]]
          /\ ~(Cardinality(published[pass.src[k]]) > MaxEntries)
      BY <2>2 DEF ParseEntries
    <3>2. /\ published[pass.src[k]] \in Bodies /\ clock \in Nat
          /\ <<pass.src[k], published[pass.src[k]]>> \in everPublished
      BY <1>1 DEF SourcesInv, CommitsType, EntriesWhole
    <3>3. Cardinality(published[pass.src[k]]) \in Nat /\ MaxEntries \in Nat
      BY <3>2, AccessAssumption, FS_CardinalityType DEF AccessAssumption
    <3> QED
      BY <2>2, <3>1, <3>2, <3>3, <1>1 DEF SourceEntry, Whole
  <2> QED
    BY <1>2, <2>1, <2>2
<1>6. /\ pass' \in [pc : {"fetch", "reload"}, by : Starter, src : SourceMap, led : SourceLedger,
                    rev : Nat, next : SourceLedger, todo : SUBSET Feed]
      /\ pass'.pc = "fetch" /\ pass'.src = pass.src /\ pass'.led = pass.led
      /\ pass'.rev = pass.rev /\ pass'.todo \subseteq pass.todo
      /\ \A f \in Feed : pass'.next[f] = IF f = k THEN e ELSE pass.next[f]
  BY <1>1, <1>2, <1>5 DEF SourceLedger
<1> HIDE DEF k
<1>7. CommitsType'
  BY <1>3 DEF SourcesInv, CommitsType
<1>8. PassType'
  BY <1>1, <1>3, <1>6 DEF SourcesInv, PassType
<1>9. EntriesWhole'
  BY <1>1, <1>3, <1>5, <1>6 DEF SourcesInv, EntriesWhole, Whole, Read
<1>10. EntriesDated'
  BY <1>1, <1>3, <1>6 DEF SourcesInv, EntriesDated, Dated, Unsaved
<1>11. NextEarned'
  BY <1>1, <1>3, <1>5, <1>6 DEF SourcesInv, NextEarned, Read
<1>12. Tip' = Tip
  BY <1>3 DEF Tip
<1>13. FollowsTip' /\ NotReestablished'
  BY <1>1, <1>3, <1>6, <1>12 DEF SourcesInv, FollowsTip, NotReestablished, CompiledSources
<1> QED
  BY <1>7, <1>8, <1>9, <1>10, <1>11, <1>13 DEF SourcesInv

\* An operator's commit whose ledger is one of the history.
LEMMA OperatorCommit ==
    ASSUME SourcesInv, NEW c \in Commit, NEW i \in 1..Len(commits), c.led = commits[i].led,
           commits' = Append(commits, c), serving' = CompiledSources(c), settled' = FALSE,
           withdrawn' \subseteq withdrawn \cup {<<k, Tip.led[k]>> : k \in Feed},
           NotReestablished',
           UNCHANGED <<published, pass, clock, everPublished>>
    PROVE  SourcesInv'
<1>1. /\ CommitsType /\ Tip' = c
      /\ commits' \in Seq(Commit) /\ Len(commits') = Len(commits) + 1
      /\ \A j \in 1..Len(commits) : commits'[j] = commits[j]
      /\ \A j \in 1..Len(commits') : j \in 1..Len(commits) \/ commits'[j] = c
      /\ Len(commits) \in Nat
  BY Committed, TipTyped DEF SourcesInv
<1>2. \A k \in Feed : <<k, Tip.led[k]>> \in Feed \X (SourceEntry \cup {Absent})
  BY <1>1, TipTyped DEF Commit, SourceLedger
<1>3. CommitsType'
  BY <1>1, <1>2 DEF CommitsType, Commit
<1>4. PassType'
  <2>1. 1..Len(commits) \subseteq 1..Len(commits')
    BY <1>1
  <2> QED
    BY <2>1, <1>1 DEF SourcesInv, PassType
<1>5. EntriesWhole' /\ NextEarned'
  BY <1>1 DEF SourcesInv, EntriesWhole, NextEarned, Whole, Read
<1>6. EntriesDated'
  <2>1. Unsaved' <=> Unsaved
    BY DEF Unsaved
  <2>2. \A k \in Feed : Dated(Tip.led[k])
    BY TipTyped, <1>1 DEF SourcesInv, EntriesDated
  <2>3. \A w \in withdrawn' : Dated(w[2])
    BY <2>2 DEF SourcesInv, EntriesDated
  <2>4. \A j \in 1..Len(commits') : \A k \in Feed : Dated(commits'[j].led[k])
    BY <1>1 DEF SourcesInv, EntriesDated
  <2> QED
    BY <2>1, <2>3, <2>4 DEF EntriesDated, Dated
<1>7. FollowsTip'
  BY <1>1 DEF FollowsTip, CompiledSources
<1> QED
  BY <1>3, <1>4, <1>5, <1>6, <1>7 DEF SourcesInv

\* A list is saved.
LEMMA SaveListStep ==
    ASSUME SourcesInv, NEW k \in Feed, NEW u \in URL \cup {Absent}, SaveList(k, u)
    PROVE  SourcesInv'
<1> DEFINE c == [Tip EXCEPT !.src[k] = u]
<1>1. /\ Tip \in Commit /\ Len(commits) \in 1..Len(commits)
      /\ Tip = commits[Len(commits)] /\ CommitsType
  BY TipTyped DEF SourcesInv
<1>2. c \in Commit /\ c.led = Tip.led
  BY <1>1 DEF Commit, SourceMap
<1>3. commits' = Append(commits, c)
  BY DEF SaveList
<1>4. Tip' = c /\ commits'[Len(commits')] = c
  BY <1>1, <1>2, <1>3, Committed
<1>5. NotReestablished'
  BY <1>2, <1>4 DEF SaveList, SourcesInv, NotReestablished
<1>6. serving' = CompiledSources(c) /\ settled' = FALSE
  BY <1>4 DEF SaveList
<1> HIDE DEF c
<1> QED
  BY <1>1, <1>2, <1>3, <1>5, <1>6, OperatorCommit DEF SaveList

\* Revert.
LEMMA RevertToStep ==
    ASSUME SourcesInv, NEW i \in DOMAIN commits, RevertTo(i)
    PROVE  SourcesInv'
<1>1. /\ CommitsType /\ Len(commits) \in Nat /\ i \in 1..Len(commits) /\ commits[i] \in Commit
      /\ commits' = Append(commits, commits[i]) /\ serving' = CompiledSources(commits[i])
      /\ settled' = FALSE
      /\ withdrawn' = (withdrawn \cup {<<k, Tip.led[k]>> : k \in Feed})
                          \ {<<k, commits[i].led[k]>> : k \in Feed}
  BY TipTyped DEF RevertTo, SourcesInv, CommitsType
<1>2. Tip' = commits[i]
  BY <1>1, Committed
<1>3. NotReestablished'
  BY <1>1, <1>2 DEF NotReestablished
<1> QED
  BY <1>1, <1>3, OperatorCommit DEF RevertTo

\* SaveAccessListSourceLedger: HEAD has not moved since the ledger was read, so
\* an entry the pass kept is HEAD's own and one it fetched is younger than any
\* that was withdrawn.
LEMMA SaveLedgerStep ==
    ASSUME SourcesInv, SaveLedger
    PROVE  SourcesInv'
<1>1. CASE pass.rev # Len(commits)
  <2>1. pass' = NoPass /\ UNCHANGED commits /\ pass.pc = "fetch"
    BY <1>1 DEF SaveLedger, EndPass
  <2>2. /\ serving' = CompiledSources(Tip)
        /\ settled' => \A k \in Feed : Tip.led[k] # Absent => Tip.led[k].url = Tip.src[k]
    BY <2>1 DEF SaveLedger, SourcesInv, FollowsTip
  <2> QED
    BY <2>1, <2>2, EndStep DEF SaveLedger
<1>2. CASE pass.rev = Len(commits)
  <2> DEFINE c == [Tip EXCEPT !.led = pass.next]
  <2>1. /\ pass.pc = "fetch"
        /\ pass \in [pc : {"fetch", "reload"}, by : Starter, src : SourceMap, led : SourceLedger,
                     rev : Nat, next : SourceLedger, todo : SUBSET Feed]
        /\ pass.rev \in 1..Len(commits) /\ pass.led = Tip.led
        /\ \A k \in pass.todo : pass.src[k] # Absent
    BY <1>2 DEF SaveLedger, SourcesInv, PassType, NoPass, Tip
  <2>2. CommitsType /\ Tip \in Commit /\ Len(commits) \in Nat
    BY TipTyped DEF SourcesInv
  <2>3. c \in Commit /\ c.led = pass.next /\ c.src = Tip.src
    BY <2>1, <2>2 DEF Commit
  <2>4. /\ commits' = Append(commits, c) /\ pass' = [pass EXCEPT !.pc = "reload"]
        /\ UNCHANGED <<published, clock, serving, everPublished, withdrawn, settled>>
    BY <1>2 DEF SaveLedger
  <2> HIDE DEF c
  <2>5. /\ commits' \in Seq(Commit) /\ Len(commits') = Len(commits) + 1
        /\ \A j \in 1..Len(commits) : commits'[j] = commits[j]
        /\ \A j \in 1..Len(commits') : j \in 1..Len(commits) \/ commits'[j] = c
        /\ Tip' = c
    BY <2>2, <2>3, <2>4, Committed
  <2>6. /\ pass' \in [pc : {"fetch", "reload"}, by : Starter, src : SourceMap, led : SourceLedger,
                      rev : Nat, next : SourceLedger, todo : SUBSET Feed]
        /\ pass'.pc = "reload" /\ pass'.src = pass.src /\ pass'.led = pass.led
        /\ pass'.next = pass.next /\ pass'.rev = pass.rev /\ pass'.todo = pass.todo
    BY <2>1, <2>4
  <2>7. CommitsType'
    BY <2>2, <2>4, <2>5 DEF CommitsType, Commit
  <2>8. PassType'
    <3>1. pass'.rev \in 1..Len(commits') /\ commits'[pass'.rev] = commits[pass.rev]
      BY <2>1, <2>2, <2>5, <2>6
    <3>2. commits[pass.rev].led = pass.led
      BY <2>1, <1>2 DEF Tip
    <3> QED
      BY <3>1, <3>2, <2>1, <2>6 DEF PassType
  <2>9. EntriesWhole' /\ NextEarned'
    BY <2>1, <2>3, <2>4, <2>5, <2>6 DEF SourcesInv, EntriesWhole, NextEarned, Whole, Read
  <2>10. \A k \in Feed : pass.next[k] # Absent => pass.next[k] = Tip.led[k] \/ pass.next[k].at = clock
    BY <2>1 DEF SourcesInv, NextEarned, Read
  <2>11. EntriesDated'
    <3>1. \A j \in 1..Len(commits) : \A k \in Feed :
              commits[j].led[k] # Absent => commits[j].led[k].at <= clock
      BY DEF SourcesInv, EntriesDated, Dated
    <3>2. \A k \in Feed : pass.next[k] # Absent => pass.next[k].at <= clock
      BY <2>10, <3>1, <2>2, TipTyped DEF CommitsType
    <3>3. \A j \in 1..Len(commits') : \A k \in Feed :
              commits'[j].led[k] # Absent => commits'[j].led[k].at <= clock
      BY <3>1, <3>2, <2>3, <2>5
    <3> QED
      BY <3>3, <2>4, <2>6 DEF SourcesInv, EntriesDated, Dated, Unsaved
  <2>12. NotReestablished'
    <3> SUFFICES ASSUME NEW k \in Feed, <<k, pass.next[k]>> \in withdrawn, pass.next[k] # Absent
                 PROVE  FALSE
      BY <2>3, <2>4, <2>5 DEF NotReestablished
    <3>1. CASE pass.next[k] = Tip.led[k]
      BY <3>1 DEF SourcesInv, NotReestablished
    <3>2. CASE pass.next[k].at = clock
      <4>1. Dated(pass.next[k])
        BY DEF SourcesInv, EntriesDated
      <4> QED
        BY <4>1, <3>2, <2>1, <2>2 DEF Dated, Unsaved, CommitsType
    <3> QED
      BY <3>1, <3>2, <2>10
  <2>13. FollowsTip'
    <3>1. settled => pass.src = Tip.src
      BY <2>1 DEF SourcesInv, FollowsTip
    <3>2. \A k \in Feed : pass.next[k] # Absent => pass.next[k].url = pass.src[k]
      BY <2>1 DEF SourcesInv, NextEarned, Read
    <3> QED
      BY <3>1, <3>2, <2>3, <2>4, <2>5, <2>6 DEF FollowsTip
  <2> QED
    BY <2>7, <2>8, <2>9, <2>11, <2>12, <2>13 DEF SourcesInv
<1> QED
  BY <1>1, <1>2

\* onChange.
LEMMA ReloadSourcesStep ==
    ASSUME SourcesInv, ReloadSources
    PROVE  SourcesInv'
<1>1. pass' = NoPass /\ serving' = CompiledSources(Tip) /\ pass.pc = "reload"
  BY DEF ReloadSources, EndPass
<1>2. settled' => Tip = [src |-> pass.src, led |-> pass.next]
  BY DEF ReloadSources
<1>3. settled' => \A k \in Feed : Tip.led[k] # Absent => Tip.led[k].url = Tip.src[k]
  BY <1>1, <1>2 DEF SourcesInv, NextEarned, Read
<1> QED
  BY <1>1, <1>3, EndStep DEF ReloadSources

\* A pass that found nothing new.
LEMMA NothingNewStep ==
    ASSUME SourcesInv, NothingNew
    PROVE  SourcesInv'
<1>1. /\ pass' = NoPass /\ pass.pc = "fetch" /\ pass.next = pass.led
      /\ settled' => pass.rev = Len(commits) /\ Tip.src = pass.src
  BY DEF NothingNew, EndPass
<1>2. serving' = CompiledSources(Tip)
  BY <1>1 DEF NothingNew, SourcesInv, FollowsTip
<1>3. commits[pass.rev].led = pass.led
  BY <1>1 DEF SourcesInv, PassType, NoPass
<1>4. settled' => \A k \in Feed : Tip.led[k] # Absent => Tip.led[k].url = Tip.src[k]
  BY <1>1, <1>3 DEF SourcesInv, NextEarned, Read, Tip
<1> QED
  BY <1>1, <1>2, <1>4, EndStep DEF NothingNew

\* A feed changes: what it published before stays on record.
LEMMA PublishStep ==
    ASSUME SourcesInv, NEW u \in URL, NEW b \in Bodies, Publish(u, b)
    PROVE  SourcesInv'
<1>1. /\ published' = [published EXCEPT ![u] = b]
      /\ everPublished' = everPublished \cup {<<u, b>>}
      /\ UNCHANGED <<commits, pass, clock, serving, withdrawn, settled>>
  BY DEF Publish
<1>2. CommitsType' /\ PassType'
  BY <1>1 DEF SourcesInv, CommitsType, PassType
<1>3. \A v \in URL : <<v, published'[v]>> \in everPublished'
  BY <1>1 DEF SourcesInv, CommitsType, EntriesWhole
<1>4. \A e : Whole(e) => Whole(e)'
  BY <1>1 DEF Whole
<1>5. EntriesWhole'
  BY <1>1, <1>3, <1>4 DEF SourcesInv, EntriesWhole, Read
<1>6. NextEarned' /\ EntriesDated'
  BY <1>1 DEF SourcesInv, NextEarned, EntriesDated, Dated, Unsaved, Read
<1>7. Tip' = Tip
  BY <1>1 DEF Tip
<1>8. FollowsTip' /\ NotReestablished'
  BY <1>1, <1>7 DEF SourcesInv, FollowsTip, NotReestablished, CompiledSources
<1> QED
  BY <1>2, <1>5, <1>6, <1>8 DEF SourcesInv

\* A fresh repository.
LEMMA SourcesBegin == AccessInit => SourcesInv
<1> SUFFICES ASSUME AccessInit PROVE SourcesInv
  OBVIOUS
<1> DEFINE c == [src |-> [k \in Feed |-> Absent], led |-> [k \in Feed |-> Absent]]
<1>1. c \in Commit /\ \A k \in Feed : c.led[k] = Absent /\ c.src[k] = Absent
  BY DEF Commit, SourceMap, SourceLedger
<1>2. commits = <<c>>
  BY DEF AccessInit
<1> HIDE DEF c
<1>3. /\ commits \in Seq(Commit) /\ Len(commits) = 1 /\ Tip = c
      /\ \A i \in 1..Len(commits) : commits[i] = c
  BY <1>1, <1>2 DEF Tip
<1>4. CommitsType /\ PassType
  BY <1>3 DEF AccessInit, CommitsType, PassType, Commit
<1>5. EntriesWhole /\ NextEarned /\ EntriesDated
  BY <1>1, <1>3 DEF AccessInit, EntriesWhole, NextEarned, EntriesDated, Whole, Dated, Read, NoPass
<1>6. serving = CompiledSources(Tip)
  BY <1>1, <1>3 DEF AccessInit, CompiledSources
<1>7. FollowsTip /\ NotReestablished
  BY <1>1, <1>3, <1>6 DEF AccessInit, FollowsTip, NotReestablished
<1> QED
  BY <1>4, <1>5, <1>7 DEF SourcesInv

\* Every step of a pass, an operator, a feed or a restart.
LEMMA SourcesKept == SourcesInv /\ [AccessNext]_accessVars => SourcesInv'
<1> SUFFICES ASSUME SourcesInv, [AccessNext]_accessVars PROVE SourcesInv'
  OBVIOUS
<1>1. CASE PollSources \/ ReconcileNow \/ Drain
  BY <1>1, StartStep DEF PollSources, ReconcileNow, Drain, Starter
<1>2. CASE \E ok \in BOOLEAN : LoadSources(ok)
  BY <1>2, LoadSourcesStep
<1>3. CASE LoadLedger
  BY <1>3, LoadLedgerStep
<1>4. CASE \E answer \in Bodies \cup {{}} : Visit(answer)
  BY <1>4, VisitStep
<1>5. CASE SaveLedger
  BY <1>5, SaveLedgerStep
<1>6. CASE ReloadSources
  BY <1>6, ReloadSourcesStep
<1>7. CASE NothingNew
  BY <1>7, NothingNewStep
<1>8. CASE \E k \in Feed, u \in URL \cup {Absent} : SaveList(k, u)
  BY <1>8, SaveListStep
<1>9. CASE \E i \in DOMAIN commits : RevertTo(i)
  BY <1>9, RevertToStep
<1>10. CASE \E u \in URL, b \in Bodies : Publish(u, b)
  BY <1>10, PublishStep
<1>11. CASE Restart
  <2>1. settled' => \A k \in Feed : Tip.led[k] # Absent => Tip.led[k].url = Tip.src[k]
    BY <1>11 DEF Restart, SourcesInv, FollowsTip
  <2> QED
    BY <1>11, <2>1, EndStep DEF Restart
<1>12. CASE UNCHANGED accessVars
  BY <1>12 DEF accessVars, SourcesInv, CommitsType, PassType, EntriesWhole, EntriesDated,
       NextEarned, FollowsTip, NotReestablished, Whole, Dated, Read, Unsaved, Tip, CompiledSources
<1> QED
  BY <1>1, <1>2, <1>3, <1>4, <1>5, <1>6, <1>7, <1>8, <1>9, <1>10, <1>11, <1>12 DEF AccessNext

\* For any sources, URLs, bodies, limits and interleaving of passes with
\* commits, reverts, changing feeds and restarts, the sets the access lists
\* use are whole, none is one a revert withdrew, and after a pass that ended
\* well they follow the configured sources (accesssync.go: reconcile,
\* parseEntries, and the ledger's compare and swap).
THEOREM SourcesStayExact == AccessSpec => []SourcesExact
<1>1. SourcesInv => SourcesExact
  <2> SUFFICES ASSUME SourcesInv PROVE SourcesExact
    OBVIOUS
  <2>1. SetsWhole
    BY TipTyped DEF SourcesInv, EntriesWhole, SetsWhole, Whole
  <2>2. SettledExact
    BY DEF SourcesInv, FollowsTip, SettledExact, NoPass
  <2> QED
    BY <2>1, <2>2 DEF SourcesInv, SourcesExact
<1> QED
  BY <1>1, SourcesBegin, SourcesKept, PTL DEF AccessSpec

----------------------------------------------------------------------------
(* Client certificates: generating a CA.                                   *)

CAObject == [cert : Nat, file : CA]
CAConfig == [CA -> CAObject \cup {Nil}]
Looking == [pc : {"stat", "reclaim", "key"}, name : CA, cfg : CAConfig]
Saving == [pc : {"save"}, name : CA, key : Nat]

MakeType ==
    /\ cas \in CAConfig /\ keyFile \in [CA -> Nat \cup {Nil}]
    /\ keys \in Nat /\ raced \subseteq CA
    /\ maker \in [Maker -> Looking \cup Saving \cup {Rest}]

\* Two requests for one name have met, and that is on record.
OneMaker ==
    \A g, h \in Maker :
        g # h /\ maker[g] # Rest /\ maker[h] # Rest /\ maker[g].name = maker[h].name
            => maker[g].name \in raced

\* What a request that met no other knows: before its stat, no CA uses the file
\* that did not when it loaded the configuration; after it none does, and the
\* file is as the request left it.
MakerKnows(g) ==
    LET n == maker[g].name IN
    maker[g] # Rest /\ n \notin raced =>
        /\ maker[g].pc = "stat" => Referencing(cas, n) \subseteq Referencing(maker[g].cfg, n)
        /\ maker[g].pc \in {"reclaim", "key", "save"} => Referencing(cas, n) = {}
        /\ maker[g].pc = "key" => keyFile[n] = Nil
        /\ maker[g].pc = "save" => keyFile[n] = maker[g].key

KeysInv == MakeType /\ OneMaker /\ (\A g \in Maker : MakerKnows(g)) /\ KeysKept

----------------------------------------------------------------------------
(* Client certificates: the issuance ledger.                               *)

Signing == [pc : {"record"}, serial : Nat, till : Nat, renews : Nat]
SignType ==
    /\ records \subseteq [serial : Nat, till : Nat, by : Nat]
    /\ handed \subseteq [serial : Nat, till : Nat, renews : Nat]
    /\ signer \in [Signer -> Signing \cup {Rest}]
    /\ serials \in Nat /\ year \in Nat

\* A serial is given out once, and one that is not recorded yet is unknown to
\* everybody else.
SerialsFresh ==
    /\ \A r \in records : r.serial \in 1..serials
    /\ \A b \in handed : b.serial \in 1..serials /\ b.renews \in 0..serials
    /\ \A q \in Signer : signer[q] # Rest =>
          /\ signer[q].serial \in 1..serials /\ signer[q].renews \in 0..serials
          /\ \A r \in records : r.serial # signer[q].serial
          /\ \A b \in handed : b.serial # signer[q].serial /\ b.renews # signer[q].serial
          /\ \A p \in Signer : signer[p] # Rest =>
                /\ signer[p].renews # signer[q].serial
                /\ p # q => signer[p].serial # signer[q].serial

\* A bundle that left has a record that expires when it does, and what it
\* renewed is marked.
LedgerKeeps ==
    \A b \in handed :
        /\ b.till >= year - Retention => \E r \in records : r.serial = b.serial /\ r.till = b.till
        /\ \A r \in records : r.serial = b.renews => r.by # 0

SignInv == SignType /\ SerialsFresh /\ LedgerKeeps

----------------------------------------------------------------------------
(* Client certificates: revocation lists.                                  *)

Built == {c \in 1..MaxBuilds : anchor[c] # Nil}
ListType ==
    /\ list \in [ver : Nat, good : BOOLEAN]
    /\ anchor \in [1..MaxBuilds -> Anchor \cup {Nil}]
    /\ live \in Built /\ watched \in Built /\ building \in Built \cup {Nil}
    /\ slipped \in BOOLEAN

\* Builds come one after the other, no anchor is ahead of the file, and what
\* the current router refused its anchor still lists.
BuiltInOrder == \E k \in 1..MaxBuilds : Built = 1..k
AnchorsBehind == \A b \in Built : anchor[b].list # Nil => anchor[b].list <= list.ver
RefusedListed == refused \subseteq Revoked(anchor[live].list)

ListInv == ListType /\ BuiltInOrder /\ AnchorsBehind /\ RefusedListed /\ ~slipped

----------------------------------------------------------------------------
(* Generating a CA keeps the keys in use.                                  *)

\* A request that is under way has a name and, until it has a key, the
\* configuration it loaded.
LEMMA MakerTyped ==
    ASSUME MakeType, NEW g \in Maker
    PROVE  /\ maker[g].pc \in {"stat", "reclaim", "key"} => maker[g] \in Looking /\ maker[g] # Rest
           /\ maker[g].pc = "save" => maker[g] \in Saving /\ maker[g] # Rest
           /\ maker[g] # Rest => maker[g] \in Looking \cup Saving /\ maker[g].name \in CA
BY DEF MakeType, Looking, Saving, Rest

\* A request that goes on or ends meets nobody new.
LEMMA MakerAdvances ==
    ASSUME KeysInv, NEW g \in Maker, NEW m \in Looking \cup Saving \cup {Rest},
           maker' = [maker EXCEPT ![g] = m], raced' = raced,
           m # Rest => maker[g] # Rest /\ m.name = maker[g].name
    PROVE  /\ maker' \in [Maker -> Looking \cup Saving \cup {Rest}]
           /\ OneMaker'
BY DEF KeysInv, MakeType, OneMaker

\* A request for another name, or one that met it, knows what it knew as long
\* as the steps of others leave its file and its users alone.
LEMMA OthersKnow ==
    ASSUME KeysInv, NEW h \in Maker, MakerKnows(h), maker'[h] = maker[h], raced \subseteq raced',
           maker[h] # Rest /\ maker[h].name \notin raced' =>
               /\ Referencing(cas', maker[h].name) \subseteq Referencing(cas, maker[h].name)
               /\ keyFile'[maker[h].name] = keyFile[maker[h].name]
    PROVE  MakerKnows(h)'
BY DEF MakerKnows, Referencing

\* A request is loaded.
LEMMA MakeLoadStep ==
    ASSUME KeysInv, NEW g \in Maker, NEW n \in CA, MakeLoad(g, n)
    PROVE  KeysInv'
<1>1. PICK m \in Looking \cup {Rest} :
          /\ maker' = [maker EXCEPT ![g] = m]
          /\ m # Rest => m = [pc |-> "stat", name |-> n, cfg |-> cas]
  <2>1. [pc |-> "stat", name |-> n, cfg |-> cas] \in Looking
    BY DEF KeysInv, MakeType, Looking
  <2>2. CASE cas[n] # Nil
    BY <2>2 DEF MakeLoad
  <2>3. CASE cas[n] = Nil
    BY <2>1, <2>3 DEF MakeLoad
  <2> QED
    BY <2>2, <2>3
<1>2. /\ maker[g] = Rest /\ UNCHANGED <<cas, keyFile, keys>>
      /\ raced' = IF \E h \in Maker \ {g} : maker[h] # Rest /\ maker[h].name = n
                  THEN raced \cup {n} ELSE raced
  BY DEF MakeLoad
<1>3. raced \subseteq raced' /\ raced' \subseteq CA
  BY <1>2 DEF KeysInv, MakeType
<1>4. MakeType'
  BY <1>1, <1>2, <1>3 DEF KeysInv, MakeType
<1>5. OneMaker'
  BY <1>1, <1>2, <1>3 DEF KeysInv, MakeType, OneMaker
<1>6. ASSUME NEW h \in Maker PROVE MakerKnows(h)'
  <2>1. CASE h = g
    BY <2>1, <1>1, <1>2 DEF KeysInv, MakeType, MakerKnows, Referencing
  <2>2. CASE h # g
    <3>1. maker'[h] = maker[h]
      BY <2>2, <1>1 DEF KeysInv, MakeType
    <3> QED
      BY <3>1, <1>2, <1>3, OthersKnow DEF KeysInv
  <2> QED
    BY <2>1, <2>2
<1>7. KeysKept'
  BY <1>2, <1>3 DEF KeysInv, KeysKept
<1> QED
  BY <1>4, <1>5, <1>6, <1>7 DEF KeysInv

\* KeyFileExists: a missing file has no user, for its users would need its key.
LEMMA MakeStatStep ==
    ASSUME KeysInv, NEW g \in Maker, MakeStat(g)
    PROVE  KeysInv'
<1> DEFINE n == maker[g].name
<1>1. /\ maker[g].pc = "stat" /\ maker[g] \in Looking /\ maker[g] # Rest /\ n \in CA
      /\ UNCHANGED <<cas, keyFile, keys, raced>>
  BY MakerTyped DEF KeysInv, MakeStat
<1>2. PICK m \in Looking \cup {Rest} :
          /\ maker' = [maker EXCEPT ![g] = m]
          /\ m # Rest => /\ m.name = n /\ m.pc \in {"key", "reclaim"}
                         /\ m.pc = "key" => keyFile[n] = Nil
                         /\ m.pc = "reclaim" => Referencing(maker[g].cfg, n) = {}
  <2> DEFINE toKey == [maker[g] EXCEPT !.pc = "key"]
             reclaim == [maker[g] EXCEPT !.pc = "reclaim"]
  <2>1. /\ toKey \in Looking /\ toKey.name = n /\ toKey.pc = "key"
        /\ reclaim \in Looking /\ reclaim.name = n /\ reclaim.pc = "reclaim"
    BY <1>1 DEF Looking
  <2>2. CASE keyFile[n] = Nil
    <3>1. maker' = [maker EXCEPT ![g] = toKey]
      BY <2>2 DEF MakeStat
    <3> QED
      BY <2>1, <2>2, <3>1
  <2>3. CASE keyFile[n] # Nil /\ Referencing(maker[g].cfg, n) # {}
    <3>1. maker' = [maker EXCEPT ![g] = Rest]
      BY <2>3 DEF MakeStat
    <3> QED
      BY <3>1
  <2>4. CASE keyFile[n] # Nil /\ Referencing(maker[g].cfg, n) = {}
    <3>1. maker' = [maker EXCEPT ![g] = reclaim]
      BY <2>4 DEF MakeStat
    <3> QED
      BY <2>1, <2>4, <3>1
  <2> QED
    BY <2>2, <2>3, <2>4
<1>3. MakeType' /\ OneMaker'
  BY <1>1, <1>2, MakerAdvances DEF KeysInv, MakeType
<1>4. n \notin raced /\ keyFile[n] = Nil => Referencing(cas, n) = {}
  <2>1. ASSUME n \notin raced, keyFile[n] = Nil, NEW c \in Referencing(cas, n) PROVE FALSE
    <3>1. c \in CA /\ cas[c] # Nil /\ cas[c].file = n /\ cas[c].cert \in Nat
      BY <2>1 DEF Referencing, KeysInv, MakeType, CAConfig, CAObject
    <3>2. keyFile[n] = cas[c].cert
      BY <2>1, <3>1 DEF KeysInv, KeysKept
    <3> QED
      BY <2>1, <3>1, <3>2, ClientCertsAssumption DEF ClientCertsAssumption
  <2> QED
    BY <2>1
<1>5. n \notin raced => Referencing(cas, n) \subseteq Referencing(maker[g].cfg, n)
  BY <1>1 DEF KeysInv, MakerKnows
<1>6. ASSUME NEW h \in Maker PROVE MakerKnows(h)'
  <2>1. CASE h = g
    <3>1. maker'[g] = m
      BY <1>2 DEF KeysInv, MakeType
    <3> QED
      BY <2>1, <3>1, <1>1, <1>2, <1>4, <1>5 DEF MakerKnows
  <2>2. CASE h # g
    <3>1. maker'[h] = maker[h]
      BY <2>2, <1>2 DEF KeysInv, MakeType
    <3> QED
      BY <3>1, <1>1, OthersKnow DEF KeysInv
  <2> QED
    BY <2>1, <2>2
<1>7. KeysKept'
  BY <1>1 DEF KeysInv, KeysKept
<1> QED
  BY <1>3, <1>6, <1>7 DEF KeysInv

\* A request that touches its own key file alone disturbs no other request.
LEMMA OwnFileOnly ==
    ASSUME KeysInv, NEW g \in Maker, maker[g] # Rest, NEW f \in Nat \cup {Nil},
           keyFile' = [keyFile EXCEPT ![maker[g].name] = f], raced' = raced,
           NEW h \in Maker \ {g}, maker'[h] = maker[h],
           maker[h] # Rest /\ maker[h].name # maker[g].name =>
               Referencing(cas', maker[h].name) \subseteq Referencing(cas, maker[h].name)
    PROVE  MakerKnows(h)'
<1>1. maker[h] # Rest /\ maker[h].name \notin raced => maker[h].name # maker[g].name
  BY DEF KeysInv, OneMaker
<1>2. maker[h] # Rest => maker[h].name \in CA
  BY MakerTyped DEF KeysInv
<1>3. maker[h] # Rest /\ maker[h].name \notin raced' =>
          /\ Referencing(cas', maker[h].name) \subseteq Referencing(cas, maker[h].name)
          /\ keyFile'[maker[h].name] = keyFile[maker[h].name]
  BY <1>1, <1>2 DEF KeysInv, MakeType
<1> QED
  BY <1>3, OthersKnow DEF KeysInv

\* RemoveGeneratedKey of an orphan.
LEMMA MakeReclaimStep ==
    ASSUME KeysInv, NEW g \in Maker, NEW ok \in BOOLEAN, MakeReclaim(g, ok)
    PROVE  KeysInv'
<1> DEFINE n == maker[g].name
<1>1. /\ maker[g].pc = "reclaim" /\ maker[g] \in Looking /\ maker[g] # Rest /\ n \in CA
      /\ UNCHANGED <<cas, keys, raced>>
  BY MakerTyped DEF KeysInv, MakeReclaim
<1>2. PICK m \in Looking \cup {Rest} :
          /\ maker' = [maker EXCEPT ![g] = m]
          /\ m # Rest => m.name = n /\ m.pc = "key" /\ ok
  <2> DEFINE toKey == [maker[g] EXCEPT !.pc = "key"]
  <2>1. toKey \in Looking /\ toKey.name = n /\ toKey.pc = "key"
    BY <1>1 DEF Looking
  <2>2. CASE ok
    <3>1. maker' = [maker EXCEPT ![g] = toKey]
      BY <2>2 DEF MakeReclaim
    <3> QED
      BY <2>1, <2>2, <3>1
  <2>3. CASE ~ok
    <3>1. maker' = [maker EXCEPT ![g] = Rest]
      BY <2>3 DEF MakeReclaim
    <3> QED
      BY <3>1
  <2> QED
    BY <2>2, <2>3
<1>3. PICK f \in Nat \cup {Nil} : /\ keyFile' = [keyFile EXCEPT ![n] = f]
                                  /\ ok => f = Nil
                                  /\ ~ok => f = keyFile[n]
  BY <1>1 DEF MakeReclaim, KeysInv, MakeType
<1>4. MakeType' /\ OneMaker'
  BY <1>1, <1>2, <1>3, MakerAdvances DEF KeysInv, MakeType
<1>5. n \notin raced => Referencing(cas, n) = {}
  BY <1>1 DEF KeysInv, MakerKnows
<1>6. ASSUME NEW h \in Maker PROVE MakerKnows(h)'
  <2>1. CASE h = g
    <3>1. maker'[g] = m /\ keyFile'[n] = f
      BY <1>1, <1>2, <1>3 DEF KeysInv, MakeType
    <3> QED
      BY <2>1, <3>1, <1>1, <1>2, <1>3, <1>5 DEF MakerKnows
  <2>2. CASE h # g
    <3>1. maker'[h] = maker[h]
      BY <2>2, <1>2 DEF KeysInv, MakeType
    <3> QED
      BY <2>2, <3>1, <1>1, <1>3, OwnFileOnly
  <2> QED
    BY <2>1, <2>2
<1>7. KeysKept'
  BY <1>1, <1>3, <1>5 DEF KeysInv, MakeType, CAConfig, CAObject, KeysKept, Referencing
<1> QED
  BY <1>4, <1>6, <1>7 DEF KeysInv

\* GenerateCA.
LEMMA MakeKeyStep ==
    ASSUME KeysInv, NEW g \in Maker, MakeKey(g)
    PROVE  KeysInv'
<1> DEFINE n == maker[g].name
<1>1. /\ maker[g].pc = "key" /\ maker[g] # Rest /\ n \in CA
      /\ UNCHANGED <<cas, raced>> /\ keys' = keys + 1 /\ keys' \in Nat
  BY MakerTyped DEF KeysInv, MakeType, MakeKey
<1>2. n \notin raced => Referencing(cas, n) = {} /\ keyFile[n] = Nil
  BY <1>1 DEF KeysInv, MakerKnows
<1>3. PICK m \in Saving \cup {Rest}, f \in Nat \cup {Nil} :
          /\ maker' = [maker EXCEPT ![g] = m] /\ keyFile' = [keyFile EXCEPT ![n] = f]
          /\ m # Rest => m.name = n /\ m.pc = "save" /\ m.key = f
  <2> DEFINE toSave == [pc |-> "save", name |-> n, key |-> keys']
  <2>1. /\ toSave \in Saving /\ keys' \in Nat \cup {Nil}
        /\ toSave.name = n /\ toSave.pc = "save" /\ toSave.key = keys'
    BY <1>1 DEF Saving
  <2>2. CASE keyFile[n] = Nil
    <3>1. maker' = [maker EXCEPT ![g] = toSave] /\ keyFile' = [keyFile EXCEPT ![n] = keys']
      BY <2>2 DEF MakeKey
    <3> QED
      BY <2>1, <3>1, Zenon
  <2>3. CASE keyFile[n] # Nil
    <3>1. maker' = [maker EXCEPT ![g] = Rest] /\ keyFile' = [keyFile EXCEPT ![n] = keyFile[n]]
      BY <2>3 DEF MakeKey, KeysInv, MakeType
    <3>2. keyFile[n] \in Nat \cup {Nil}
      BY <1>1 DEF KeysInv, MakeType
    <3> QED
      BY <3>1, <3>2
  <2> QED
    BY <2>2, <2>3
<1>4. MakeType' /\ OneMaker'
  BY <1>1, <1>3, MakerAdvances DEF KeysInv, MakeType
<1>5. ASSUME NEW h \in Maker PROVE MakerKnows(h)'
  <2>1. CASE h = g
    <3>1. maker'[g] = m /\ keyFile'[n] = f
      BY <1>1, <1>3 DEF KeysInv, MakeType
    <3> QED
      BY <2>1, <3>1, <1>1, <1>2, <1>3 DEF MakerKnows
  <2>2. CASE h # g
    <3>1. maker'[h] = maker[h]
      BY <2>2, <1>3 DEF KeysInv, MakeType
    <3> QED
      BY <2>2, <3>1, <1>1, <1>3, OwnFileOnly
  <2> QED
    BY <2>1, <2>2
<1>6. KeysKept'
  BY <1>1, <1>2, <1>3 DEF KeysInv, MakeType, CAConfig, CAObject, KeysKept, Referencing
<1> QED
  BY <1>4, <1>5, <1>6 DEF KeysInv

\* The object is saved, or its key removed.
LEMMA MakeSaveStep ==
    ASSUME KeysInv, NEW g \in Maker, NEW ok \in BOOLEAN, MakeSave(g, ok)
    PROVE  KeysInv'
<1> DEFINE n == maker[g].name
           obj == [cert |-> maker[g].key, file |-> n]
<1>1. /\ maker[g].pc = "save" /\ maker[g] # Rest /\ n \in CA /\ maker[g].key \in Nat
      /\ UNCHANGED <<keys, raced>> /\ maker' = [maker EXCEPT ![g] = Rest]
  BY MakerTyped DEF KeysInv, MakeType, MakeSave, Saving
<1>2. n \notin raced => Referencing(cas, n) = {} /\ keyFile[n] = maker[g].key
  BY <1>1 DEF KeysInv, MakerKnows
<1>3. obj \in CAObject /\ obj.file = n /\ obj.cert = maker[g].key
  BY <1>1 DEF CAObject
<1>4. PICK f \in Nat \cup {Nil}, o \in CAObject \cup {Nil} :
          /\ keyFile' = [keyFile EXCEPT ![n] = f] /\ cas' = [cas EXCEPT ![n] = o]
          /\ ok => f = keyFile[n] /\ o = obj
          /\ ~ok => f = Nil /\ o = cas[n]
  <2>1. keyFile[n] \in Nat \cup {Nil} /\ cas[n] \in CAObject \cup {Nil}
    BY <1>1 DEF KeysInv, MakeType, CAConfig
  <2>2. keyFile = [keyFile EXCEPT ![n] = keyFile[n]] /\ cas = [cas EXCEPT ![n] = cas[n]]
    BY DEF KeysInv, MakeType, CAConfig
  <2>3. CASE ok
    BY <1>3, <2>1, <2>2, <2>3 DEF MakeSave
  <2>4. CASE ~ok
    BY <2>1, <2>2, <2>4 DEF MakeSave
  <2> QED
    BY <2>3, <2>4
<1> HIDE DEF obj
<1>5. MakeType' /\ OneMaker'
  BY <1>1, <1>4, MakerAdvances DEF KeysInv, MakeType, CAConfig
<1>6. ASSUME NEW h \in Maker PROVE MakerKnows(h)'
  <2>1. CASE h = g
    <3>1. maker'[g] = Rest
      BY <1>1 DEF KeysInv, MakeType
    <3> QED
      BY <2>1, <3>1 DEF MakerKnows
  <2>2. CASE h # g
    <3>1. maker'[h] = maker[h]
      BY <2>2, <1>1 DEF KeysInv, MakeType
    <3>2. maker[h].name # n => Referencing(cas', maker[h].name) \subseteq Referencing(cas, maker[h].name)
      BY <1>1, <1>3, <1>4 DEF KeysInv, MakeType, CAConfig, Referencing
    <3> QED
      BY <2>2, <3>1, <3>2, <1>1, <1>4, OwnFileOnly
  <2> QED
    BY <2>1, <2>2
<1>7. KeysKept'
  <2> SUFFICES ASSUME NEW c \in CA, cas'[c] # Nil, cas'[c].file \notin raced
               PROVE  keyFile'[cas'[c].file] = cas'[c].cert
    BY <1>1 DEF KeysKept
  <2>1. CASE c = n /\ ok
    <3>1. cas'[c] = obj /\ keyFile' = keyFile
      BY <2>1, <1>1, <1>4 DEF KeysInv, MakeType, CAConfig
    <3> QED
      BY <3>1, <1>2, <1>3
  <2>2. CASE c # n \/ ~ok
    <3>1. cas'[c] = cas[c]
      BY <2>2, <1>1, <1>4 DEF KeysInv, MakeType, CAConfig
    <3>2. cas[c].file \in CA /\ keyFile[cas[c].file] = cas[c].cert
      BY <3>1 DEF KeysInv, MakeType, CAConfig, CAObject, KeysKept
    <3>3. cas[c].file # n
      BY <3>1, <1>2 DEF Referencing
    <3> QED
      BY <3>1, <3>2, <3>3, <1>4 DEF KeysInv, MakeType
  <2> QED
    BY <2>1, <2>2
<1> QED
  BY <1>5, <1>6, <1>7 DEF KeysInv

\* An operator stores a CA with an existing key file.
LEMMA PutCAStep ==
    ASSUME KeysInv, NEW n \in CA, NEW f \in CA, PutCA(n, f)
    PROVE  KeysInv'
<1> DEFINE obj == [cert |-> keyFile[f], file |-> f]
<1>1. obj \in CAObject /\ obj.file = f /\ obj.cert = keyFile[f]
  BY DEF PutCA, KeysInv, MakeType, CAObject
<1>2. /\ cas' = [cas EXCEPT ![n] = obj] /\ UNCHANGED <<keyFile, maker, keys>>
      /\ raced' = IF \E g \in Maker : maker[g] # Rest /\ maker[g].name = f
                  THEN raced \cup {f} ELSE raced
  BY DEF PutCA
<1> HIDE DEF obj
<1>3. raced \subseteq raced' /\ raced' \subseteq CA
  BY <1>2 DEF KeysInv, MakeType
<1>4. MakeType' /\ OneMaker'
  BY <1>1, <1>2, <1>3 DEF KeysInv, MakeType, CAConfig, OneMaker
<1>5. ASSUME NEW h \in Maker PROVE MakerKnows(h)'
  <2>1. maker[h] # Rest /\ maker[h].name \notin raced' => maker[h].name # f
    BY <1>2
  <2>2. maker[h] # Rest /\ maker[h].name \notin raced' =>
            /\ Referencing(cas', maker[h].name) \subseteq Referencing(cas, maker[h].name)
            /\ keyFile'[maker[h].name] = keyFile[maker[h].name]
    BY <2>1, <1>1, <1>2 DEF KeysInv, MakeType, CAConfig, Referencing
  <2> QED
    BY <2>2, <1>2, <1>3, OthersKnow DEF KeysInv
<1>6. KeysKept'
  BY <1>1, <1>2, <1>3 DEF KeysInv, MakeType, CAConfig, KeysKept
<1> QED
  BY <1>4, <1>5, <1>6 DEF KeysInv

\* A CA is deleted; its key file stays.
LEMMA DeleteCAStep ==
    ASSUME KeysInv, NEW n \in CA, DeleteCA(n)
    PROVE  KeysInv'
<1>1. cas' = [cas EXCEPT ![n] = Nil] /\ UNCHANGED <<keyFile, maker, keys, raced>>
  BY DEF DeleteCA
<1>2. MakeType' /\ OneMaker'
  BY <1>1 DEF KeysInv, MakeType, CAConfig, OneMaker
<1>3. ASSUME NEW h \in Maker PROVE MakerKnows(h)'
  <2>1. Referencing(cas', maker[h].name) \subseteq Referencing(cas, maker[h].name)
    BY <1>1 DEF KeysInv, MakeType, CAConfig, Referencing
  <2> QED
    BY <2>1, <1>1, OthersKnow DEF KeysInv
<1>4. KeysKept'
  BY <1>1 DEF KeysInv, MakeType, CAConfig, KeysKept
<1> QED
  BY <1>2, <1>3, <1>4 DEF KeysInv

\* Whatever a request, an operator or a crash does.
LEMMA MakeStep ==
    ASSUME KeysInv, Make
    PROVE  KeysInv'
<1>1. CASE \E g \in Maker :
              \/ \E n \in CA : MakeLoad(g, n)
              \/ MakeStat(g) \/ MakeKey(g)
              \/ \E ok \in BOOLEAN : MakeReclaim(g, ok) \/ MakeSave(g, ok)
  BY <1>1, MakeLoadStep, MakeStatStep, MakeKeyStep, MakeReclaimStep, MakeSaveStep
<1>2. CASE \E n, f \in CA : PutCA(n, f)
  BY <1>2, PutCAStep
<1>3. CASE \E n \in CA : DeleteCA(n)
  BY <1>3, DeleteCAStep
<1>4. CASE MakeCrash
  BY <1>4 DEF MakeCrash, KeysInv, MakeType, OneMaker, MakerKnows, KeysKept
<1> QED
  BY <1>1, <1>2, <1>3, <1>4 DEF Make

----------------------------------------------------------------------------
(* The ledger remembers.                                                   *)

\* A certificate is signed under a serial nobody has seen.
LEMMA Signed ==
    ASSUME SignInv, NEW q \in Signer, NEW till \in Nat, NEW old \in 0..serials,
           \A p \in Signer : signer[p] # Rest => signer[p].serial # old,
           signer[q] = Rest, serials' = serials + 1,
           signer' = [signer EXCEPT ![q] = [pc |-> "record", serial |-> serials',
                                            till |-> till, renews |-> old]],
           UNCHANGED <<records, year, handed>>
    PROVE  SignInv'
<1> DEFINE s == [pc |-> "record", serial |-> serials', till |-> till, renews |-> old]
<1>1. /\ s \in Signing /\ s.serial = serials + 1 /\ s.renews = old
      /\ serials \in Nat /\ serials' = serials + 1
  BY DEF SignInv, SignType, Signing
<1>2. signer' = [signer EXCEPT ![q] = s]
  OBVIOUS
<1> HIDE DEF s
<1>3. \A p \in Signer : signer'[p] = IF p = q THEN s ELSE signer[p]
  BY <1>2 DEF SignInv, SignType
<1>4. SignType'
  BY <1>1, <1>2 DEF SignInv, SignType
<1>5. LedgerKeeps'
  BY DEF SignInv, LedgerKeeps
<1>6. /\ \A r \in records : r.serial \in 1..serials'
      /\ \A b \in handed : b.serial \in 1..serials' /\ b.renews \in 0..serials'
  BY <1>1 DEF SignInv, SignType, SerialsFresh
<1>7. ASSUME NEW p \in Signer, signer'[p] # Rest
      PROVE  /\ signer'[p].serial \in 1..serials' /\ signer'[p].renews \in 0..serials'
             /\ \A r \in records : r.serial # signer'[p].serial
             /\ \A b \in handed : b.serial # signer'[p].serial /\ b.renews # signer'[p].serial
  BY <1>1, <1>3, <1>7 DEF SignInv, SignType, SerialsFresh
<1>8. ASSUME NEW p \in Signer, signer'[p] # Rest, NEW o \in Signer, signer'[o] # Rest
      PROVE  signer'[o].renews # signer'[p].serial /\ (o # p => signer'[o].serial # signer'[p].serial)
  <2>1. \A i \in 0..serials : i # serials + 1
    BY <1>1
  <2>2. \A i \in Signer : signer[i] # Rest => signer[i].serial \in 0..serials /\ signer[i].renews \in 0..serials
    BY <1>1 DEF SignInv, SerialsFresh
  <2>3. CASE p = q
    BY <2>1, <2>2, <2>3, <1>1, <1>3, <1>8
  <2>4. CASE p # q /\ o = q
    <3>1. signer[p] # Rest /\ signer'[p] = signer[p] /\ signer'[o] = s
      BY <2>4, <1>3, <1>8
    <3> QED
      BY <3>1, <2>1, <2>2, <1>1
  <2>5. CASE p # q /\ o # q
    BY <2>5, <1>3, <1>8 DEF SignInv, SerialsFresh
  <2> QED
    BY <2>3, <2>4, <2>5
<1> QED
  BY <1>4, <1>5, <1>6, <1>7, <1>8 DEF SignInv, SerialsFresh

\* handleIssueClientCert and handleRenewClientCert up to the signature.
LEMMA SignStep ==
    ASSUME SignInv, NEW q \in Signer, NEW years \in {1, 2},
           Issue(q, years) \/ \E r \in records : Renew(q, r, years)
    PROVE  SignInv'
<1>1. year + years \in Nat /\ serials \in Nat
  BY DEF SignInv, SignType
<1>2. CASE Issue(q, years)
  <2>1. 0 \in 0..serials /\ \A p \in Signer : signer[p] # Rest => signer[p].serial # 0
    BY <1>1 DEF SignInv, SerialsFresh
  <2> QED
    BY <1>1, <1>2, <2>1, Signed DEF Issue
<1>3. CASE \E r \in records : Renew(q, r, years)
  <2>1. PICK r \in records : Renew(q, r, years)
    BY <1>3
  <2>2. r.serial \in 0..serials /\ \A p \in Signer : signer[p] # Rest => signer[p].serial # r.serial
    BY <1>1 DEF SignInv, SerialsFresh
  <2> QED
    BY <1>1, <2>1, <2>2, Signed DEF Renew
<1> QED
  BY <1>2, <1>3

\* A request that gives up takes its serial with it.
LEMMA GivesUp ==
    ASSUME SignInv, NEW q \in Signer, signer' = [signer EXCEPT ![q] = Rest],
           UNCHANGED <<records, handed, serials, year>>
    PROVE  SignInv'
<1>1. \A p \in Signer : signer'[p] # Rest => signer'[p] = signer[p]
  BY DEF SignInv, SignType
<1>2. SignType' /\ LedgerKeeps'
  BY DEF SignInv, SignType, LedgerKeeps
<1>3. SerialsFresh'
  BY <1>1 DEF SignInv, SerialsFresh
<1> QED
  BY <1>2, <1>3 DEF SignInv

\* Append and AppendSuperseding: what stays on record stays with its serial and
\* its date, and what was renewed is marked.
LEMMA RecordStep ==
    ASSUME SignInv, NEW q \in Signer, NEW ok \in BOOLEAN, Record(q, ok)
    PROVE  SignInv'
<1> DEFINE s == signer[q]
           new == [serial |-> s.serial, till |-> s.till, by |-> 0]
           old == {r \in records : r.serial = s.renews}
           bundle == [serial |-> s.serial, till |-> s.till, renews |-> s.renews]
           marked == {[r EXCEPT !.by = s.serial] : r \in old}
<1>1. CASE ~(ok /\ (s.renews = 0 \/ old # {}))
  BY <1>1, GivesUp DEF Record
<1>2. CASE ok /\ (s.renews = 0 \/ old # {})
  <2>1. /\ records' = Pruned(s.renews) \cup {new} \cup marked
        /\ handed' = handed \cup {bundle}
        /\ signer' = [signer EXCEPT ![q] = Rest] /\ UNCHANGED <<serials, year>>
    BY <1>2 DEF Record
  <2>2. s \in Signing /\ s # Rest
    BY DEF SignInv, SignType, Record, Rest
  <2>3. /\ s.serial \in 1..serials /\ s.renews \in 0..serials /\ s.serial # s.renews
        /\ s.serial \in Nat /\ s.till \in Nat /\ s.renews \in Nat
        /\ serials \in Nat /\ year \in Nat
    BY <2>2 DEF SignInv, SignType, SerialsFresh, Signing
  <2>4. /\ new \in [serial : Nat, till : Nat, by : Nat] /\ new.serial = s.serial
        /\ new.till = s.till /\ new.by = 0
        /\ bundle \in [serial : Nat, till : Nat, renews : Nat] /\ bundle.serial = s.serial
        /\ bundle.till = s.till /\ bundle.renews = s.renews
    BY <2>3
  <2>5. \A m \in marked : \E r \in records :
            /\ r.serial = s.renews /\ m.serial = r.serial /\ m.till = r.till /\ m.by = s.serial
            /\ m \in [serial : Nat, till : Nat, by : Nat]
    BY <2>3 DEF SignInv, SignType
  <2>6. \A r \in records : r.serial = s.renews =>
            \E m \in marked : m.serial = r.serial /\ m.till = r.till
    <3> SUFFICES ASSUME NEW r \in records, r.serial = s.renews
                 PROVE  \E m \in marked : m.serial = r.serial /\ m.till = r.till
      OBVIOUS
    <3>1. [r EXCEPT !.by = s.serial] \in marked
      OBVIOUS
    <3>2. [r EXCEPT !.by = s.serial].serial = r.serial /\ [r EXCEPT !.by = s.serial].till = r.till
      BY DEF SignInv, SignType
    <3> QED
      BY <3>1, <3>2
  <2>7. \A x \in Pruned(s.renews) : x \in records /\ x.serial # s.renews
    BY DEF Pruned
  <2> HIDE DEF new, bundle, marked, old
  <2>8. \A x \in records' : \/ x \in records /\ x.serial # s.renews
                            \/ x = new
                            \/ x.serial = s.renews /\ x.by = s.serial /\ \E r \in records : x.serial = r.serial
    BY <2>1, <2>5, <2>7
  <2> HIDE DEF s
  <2>9. \A p \in Signer : signer'[p] # Rest => p # q /\ signer'[p] = signer[p]
    BY <2>1 DEF SignInv, SignType
  <2>10. SignType'
    <3>1. records' \subseteq [serial : Nat, till : Nat, by : Nat]
      BY <2>1, <2>4, <2>5, <2>7 DEF SignInv, SignType
    <3> QED
      BY <3>1, <2>1, <2>4 DEF SignInv, SignType
  <2>11. \A x \in records' : x.serial = s.serial \/ \E r \in records : x.serial = r.serial
    BY <2>8, <2>4
  <2>12. SerialsFresh'
    <3>1. /\ \A x \in records' : x.serial \in 1..serials
          /\ \A b \in handed' : b.serial \in 1..serials /\ b.renews \in 0..serials
      BY <2>1, <2>3, <2>4, <2>11 DEF SignInv, SerialsFresh
    <3>2. ASSUME NEW p \in Signer, signer'[p] # Rest
          PROVE  /\ \A x \in records' : x.serial # signer'[p].serial
                 /\ \A b \in handed' : b.serial # signer'[p].serial /\ b.renews # signer'[p].serial
      <4>1. p # q /\ signer'[p] = signer[p] /\ signer[p] # Rest /\ signer[q] # Rest
        BY <3>2, <2>2, <2>9 DEF s
      <4>2. s.serial # signer[p].serial /\ s.renews # signer[p].serial
        BY <4>1 DEF SignInv, SerialsFresh, s
      <4>3. /\ \A r \in records : r.serial # signer[p].serial
            /\ \A b \in handed : b.serial # signer[p].serial /\ b.renews # signer[p].serial
        BY <4>1 DEF SignInv, SerialsFresh
      <4> QED
        BY <4>1, <4>2, <4>3, <2>1, <2>4, <2>11
    <3>3. \A p \in Signer : signer'[p] # Rest =>
              /\ signer'[p].serial \in 1..serials' /\ signer'[p].renews \in 0..serials'
              /\ \A o \in Signer : signer'[o] # Rest =>
                    /\ signer'[o].renews # signer'[p].serial
                    /\ o # p => signer'[o].serial # signer'[p].serial
      BY <2>1, <2>9 DEF SignInv, SerialsFresh
    <3> QED
      BY <3>1, <3>2, <3>3, <2>1 DEF SerialsFresh
  <2>13. ASSUME NEW b \in handed', b.till >= year - Retention
         PROVE  \E x \in records' : x.serial = b.serial /\ x.till = b.till
    <3>1. CASE b = bundle
      BY <3>1, <2>1, <2>4
    <3>2. CASE b \in handed
      <4>1. PICK r \in records : r.serial = b.serial /\ r.till = b.till
        BY <2>13, <3>2 DEF SignInv, LedgerKeeps
      <4>2. CASE r.serial = s.renews
        BY <4>1, <4>2, <2>1, <2>6
      <4>3. CASE r.serial # s.renews
        <5>1. r \in Pruned(s.renews)
          BY <4>1, <4>3, <2>13 DEF Pruned
        <5> QED
          BY <5>1, <4>1, <2>1
      <4> QED
        BY <4>2, <4>3
    <3> QED
      BY <3>1, <3>2, <2>1
  <2>14. ASSUME NEW b \in handed', NEW x \in records', x.serial = b.renews
         PROVE  x.by # 0
    <3>1. CASE x \in records /\ x.serial # s.renews
      <4>1. b \in handed
        BY <3>1, <2>1, <2>4, <2>14
      <4> QED
        BY <4>1, <3>1, <2>14 DEF SignInv, LedgerKeeps
    <3>2. CASE x = new
      <4>1. b.renews = s.serial
        BY <3>2, <2>4, <2>14
      <4>2. b \in handed => b.renews # s.serial
        BY <2>2 DEF SignInv, SerialsFresh, s
      <4> QED
        BY <4>1, <4>2, <2>1, <2>3, <2>4
    <3>3. CASE x.by = s.serial
      BY <3>3, <2>3
    <3> QED
      BY <3>1, <3>2, <3>3, <2>8
  <2>15. LedgerKeeps'
    BY <2>13, <2>14, <2>1 DEF LedgerKeeps
  <2> QED
    BY <2>10, <2>12, <2>15 DEF SignInv
<1> QED
  BY <1>1, <1>2

\* Whatever is signed, recorded or forgotten.
LEMMA SignCertsStep ==
    ASSUME SignInv, SignCerts
    PROVE  SignInv'
<1>1. CASE NewYear
  <2>1. UNCHANGED <<records, signer, serials, handed>> /\ year' = year + 1 /\ year \in Nat
    BY <1>1 DEF NewYear, SignInv, SignType
  <2>2. SignType' /\ SerialsFresh'
    BY <2>1 DEF SignInv, SignType, SerialsFresh
  <2>3. \A b \in handed : b.till >= year' - Retention => b.till >= year - Retention
    BY <2>1, ClientCertsAssumption DEF ClientCertsAssumption, SignInv, SignType
  <2>4. LedgerKeeps'
    BY <2>1, <2>3 DEF SignInv, LedgerKeeps
  <2> QED
    BY <2>2, <2>4 DEF SignInv
<1> QED
  BY <1>1, SignStep, RecordStep DEF SignCerts

----------------------------------------------------------------------------
(* What a router refused it keeps refusing.                                *)

\* An anchor that exists keeps existing and its list only grows: then the
\* current router forgets nothing.
LEMMA AnchorMoves ==
    ASSUME ListInv, NEW b \in Built, NEW a \in Anchor, anchor' = [anchor EXCEPT ![b] = a],
           \/ a.list = anchor[b].list
           \/ a.list = list.ver,
           watched' \in Built, UNCHANGED <<list, live, building, refused, slipped>>
    PROVE  ListInv'
<1>1. /\ b \in 1..MaxBuilds /\ anchor[b] \in Anchor /\ list.ver \in Nat /\ Nil \notin Nat
      /\ \A c \in 1..MaxBuilds : anchor'[c] = IF c = b THEN a ELSE anchor[c]
      /\ a # Nil
  BY ClientCertsAssumption DEF ClientCertsAssumption, ListInv, ListType, Built
<1>2. Built' = Built
  BY <1>1 DEF Built
<1>3. ListType' /\ BuiltInOrder'
  BY <1>1, <1>2 DEF ListInv, ListType, BuiltInOrder
<1>4. AnchorsBehind'
  BY <1>1, <1>2 DEF ListInv, AnchorsBehind, Built
<1>5. \A c \in Built : Revoked(anchor[c].list) \subseteq Revoked(anchor'[c].list)
  <2>1. CASE a.list = anchor[b].list
    BY <2>1, <1>1 DEF Built
  <2>2. CASE a.list = list.ver
    <3>1. anchor[b].list # Nil => anchor[b].list \in Nat /\ anchor[b].list <= list.ver
      BY <1>1 DEF ListInv, AnchorsBehind, Anchor
    <3>2. Revoked(anchor[b].list) \subseteq Revoked(a.list)
      BY <2>2, <3>1, <1>1 DEF Revoked
    <3> QED
      BY <3>2, <1>1 DEF Built
  <2> QED
    BY <2>1, <2>2
<1>6. RefusedListed'
  BY <1>5 DEF ListInv, ListType, RefusedListed
<1> QED
  BY <1>3, <1>4, <1>6 DEF ListInv

\* Build: a new anchor, of a build there was not.
LEMMA BuildStep ==
    ASSUME ListInv, Build
    PROVE  ListInv'
<1>1. PICK k \in 1..MaxBuilds : Built = 1..k
  BY DEF ListInv, BuiltInOrder
<1>2. k \in Nat /\ MaxBuilds \in Nat /\ list.ver \in Nat /\ Nil \notin Nat \cup Anchor
  BY ClientCertsAssumption DEF ClientCertsAssumption, ListInv, ListType
<1>3. 1 + Cardinality({c \in 1..MaxBuilds : anchor[c] # Nil}) = k + 1
  <2>1. Cardinality(1..k) = k
    BY <1>1, <1>2, FS_Interval
  <2>2. Cardinality({c \in 1..MaxBuilds : anchor[c] # Nil}) = k
    BY <1>1, <2>1 DEF Built
  <2> QED
    BY <1>2, <2>2
<1>4. PICK a \in Anchor : /\ anchor' = [anchor EXCEPT ![k + 1] = a]
                          /\ a.list # Nil => a.list = list.ver
  <2> DEFINE a == [list |-> LoadList(Nil), mtime |-> 0,
                   reading |-> IF list.good THEN "build" ELSE "bad"]
  <2>1. a \in Anchor /\ (a.list # Nil => a.list = list.ver)
    BY <1>2 DEF LoadList, Anchor
  <2>2. anchor' = [anchor EXCEPT ![k + 1] = a]
    BY <1>3 DEF Build
  <2> QED
    BY <2>1, <2>2, Zenon
<1>5. /\ building' = k + 1 /\ k + 1 <= MaxBuilds
      /\ UNCHANGED <<list, live, watched, refused, slipped>>
  BY <1>2, <1>3 DEF Build
<1>6. /\ k + 1 \in 1..MaxBuilds /\ k + 1 \notin Built
      /\ \A c \in 1..MaxBuilds : anchor'[c] = IF c = k + 1 THEN a ELSE anchor[c]
  BY <1>1, <1>2, <1>4, <1>5 DEF ListInv, ListType
<1>7. Built' = Built \cup {k + 1} /\ Built' = 1..(k + 1)
  <2>1. Built' = Built \cup {k + 1}
    BY <1>2, <1>6 DEF Built
  <2> QED
    BY <2>1, <1>1, <1>2
<1>8. \A c \in Built : anchor'[c] = anchor[c]
  BY <1>6 DEF Built
<1>9. ListType' /\ BuiltInOrder'
  BY <1>4, <1>5, <1>6, <1>7 DEF ListInv, ListType, BuiltInOrder
<1>10. AnchorsBehind'
  BY <1>2, <1>4, <1>5, <1>6, <1>7, <1>8 DEF ListInv, AnchorsBehind
<1>11. RefusedListed'
  BY <1>5, <1>8 DEF ListInv, ListType, RefusedListed
<1> QED
  BY <1>5, <1>9, <1>10, <1>11 DEF ListInv

\* The watch, registration and stat.
LEMMA AnchorStep ==
    ASSUME ListInv, Register \/ WatchRead \/ \E b \in 1..MaxBuilds : WatchStat(b)
    PROVE  ListInv'
<1>1. /\ list.ver \in Nat /\ Nil \notin Nat /\ watched \in Built
      /\ \A b \in Built : b \in 1..MaxBuilds /\ anchor[b] \in Anchor
  BY ClientCertsAssumption DEF ClientCertsAssumption, ListInv, ListType, Built
<1>2. CASE Register
  <2>1. building \in Built
    BY <1>2 DEF Register, ListInv, ListType
  <2> DEFINE old == anchor[building]
             a == [old EXCEPT
                      !.mtime = IF old.mtime = 0 /\ old.reading = "build" THEN list.ver ELSE old.mtime,
                      !.reading = Nil]
  <2>2. a \in Anchor /\ a.list = anchor[building].list
    BY <1>1, <2>1 DEF Anchor
  <2>3. anchor' = [anchor EXCEPT ![building] = a]
    BY <1>2 DEF Register
  <2>4. watched' = building /\ UNCHANGED <<list, live, building, refused, slipped>>
    BY <1>2 DEF Register
  <2> HIDE DEF a
  <2> QED
    BY <2>1, <2>2, <2>3, <2>4, AnchorMoves
<1>3. CASE WatchRead
  <2> DEFINE a == [anchor[watched] EXCEPT !.list = LoadList(anchor[watched].list),
                                          !.reading = IF list.good THEN "watch" ELSE Nil]
  <2>1. a \in Anchor /\ (a.list = anchor[watched].list \/ a.list = list.ver)
    BY <1>1 DEF Anchor, LoadList
  <2>2. /\ anchor' = [anchor EXCEPT ![watched] = a]
        /\ UNCHANGED <<list, live, watched, building, refused, slipped>>
    BY <1>3 DEF WatchRead
  <2> HIDE DEF a
  <2> QED
    BY <1>1, <2>1, <2>2, AnchorMoves
<1>4. CASE \E b \in 1..MaxBuilds : WatchStat(b)
  <2>1. PICK b \in 1..MaxBuilds : WatchStat(b)
    BY <1>4
  <2>2. b \in Built
    BY <2>1 DEF WatchStat, Built
  <2> DEFINE a == [anchor[b] EXCEPT !.mtime = list.ver, !.reading = Nil]
  <2>3. a \in Anchor /\ a.list = anchor[b].list
    BY <1>1, <2>2 DEF Anchor
  <2>4. /\ anchor' = [anchor EXCEPT ![b] = a]
        /\ UNCHANGED <<list, live, watched, building, refused, slipped>>
    BY <2>1 DEF WatchStat
  <2> HIDE DEF a
  <2> QED
    BY <1>1, <2>2, <2>3, <2>4, AnchorMoves
<1> QED
  BY <1>2, <1>3, <1>4

\* A request on an open connection: a certificate refused once is listed.
LEMMA RequestStep ==
    ASSUME ListInv, NEW c, NEW gated \in BOOLEAN, Request(c, gated)
    PROVE  ListInv'
<1>1. UNCHANGED <<list, anchor, live, watched, building>>
  BY DEF Request
<1>2. c \in refused => Listed(c, anchor[live])
  BY DEF ListInv, RefusedListed, Listed
<1>3. slipped' \in BOOLEAN /\ ~slipped'
  BY <1>2 DEF Request, ListInv, ListType
<1>4. RefusedListed'
  BY <1>1 DEF Request, ListInv, RefusedListed, Listed
<1>5. ListType'
  BY <1>1, <1>3 DEF ListInv, ListType, Built
<1>6. BuiltInOrder' /\ AnchorsBehind'
  BY <1>1 DEF ListInv, BuiltInOrder, AnchorsBehind, Built
<1> QED
  BY <1>3, <1>4, <1>5, <1>6 DEF ListInv

\* Whatever builds, watches, lists and clients do.
LEMMA RevocationStep ==
    ASSUME ListInv, Revocation
    PROVE  ListInv'
<1>1. CASE Build
  BY <1>1, BuildStep
<1>2. CASE Register \/ WatchRead \/ \E b \in 1..MaxBuilds : WatchStat(b)
  BY <1>2, AnchorStep
<1>3. CASE \E ok \in BOOLEAN : BuildEnds(ok)
  BY <1>3 DEF BuildEnds, ListInv, ListType, BuiltInOrder, AnchorsBehind, RefusedListed, Built
<1>4. CASE \E ok \in BOOLEAN : NewList(ok)
  <2>1. PICK ok \in BOOLEAN : NewList(ok)
    BY <1>4
  <2>2. /\ list' \in [ver : Nat, good : BOOLEAN] /\ list'.ver = list.ver + 1 /\ list.ver \in Nat
        /\ UNCHANGED <<anchor, live, watched, building, refused, slipped>>
    BY <2>1 DEF NewList, ListInv, ListType
  <2>3. \A b \in Built : anchor[b].list # Nil => anchor[b].list \in Nat
    BY DEF ListInv, ListType, Built, Anchor
  <2>4. AnchorsBehind'
    BY <2>2, <2>3 DEF ListInv, AnchorsBehind, Built
  <2> QED
    BY <2>2, <2>4 DEF ListInv, ListType, BuiltInOrder, RefusedListed, Built
<1>5. CASE Expire \/ \E c \in 1..(MaxVersions - 1) : Handshake(c)
  <2>1. UNCHANGED <<list, anchor, live, watched, building, refused, slipped>>
    BY <1>5 DEF Expire, Handshake
  <2> QED
    BY <2>1 DEF ListInv, ListType, BuiltInOrder, AnchorsBehind, RefusedListed, Built
<1>6. CASE \E c \in 1..(MaxVersions - 1) : \E gated \in BOOLEAN : Request(c, gated)
  BY <1>6, RequestStep
<1> QED
  BY <1>1, <1>2, <1>3, <1>4, <1>5, <1>6 DEF Revocation

----------------------------------------------------------------------------
(* The three machines together.                                            *)

\* An empty store, and one router with the first list.
LEMMA CertsBegin == CertsInit => KeysInv /\ SignInv /\ ListInv
<1> SUFFICES ASSUME CertsInit PROVE KeysInv /\ SignInv /\ ListInv
  OBVIOUS
<1>1. KeysInv
  BY DEF CertsInit, KeysInv, MakeType, CAConfig, OneMaker, MakerKnows, KeysKept
<1>2. SignInv
  BY DEF CertsInit, SignInv, SignType, SerialsFresh, LedgerKeeps
<1>3. ListInv
  <2> DEFINE a == [list |-> 1, mtime |-> 1, reading |-> Nil]
  <2>1. a \in Anchor /\ a # Nil /\ a.list = 1 /\ MaxBuilds \in Nat /\ 1 \in 1..MaxBuilds
    BY ClientCertsAssumption DEF ClientCertsAssumption, Anchor
  <2>2. anchor = [b \in 1..MaxBuilds |-> IF b = 1 THEN a ELSE Nil]
    BY DEF CertsInit
  <2> HIDE DEF a
  <2>3. Built = {1} /\ 1..1 = {1}
    BY <2>1, <2>2 DEF Built
  <2>4. ListType /\ BuiltInOrder
    BY <2>1, <2>2, <2>3 DEF CertsInit, ListType, BuiltInOrder
  <2>5. AnchorsBehind
    BY <2>1, <2>2, <2>3 DEF CertsInit, AnchorsBehind
  <2> QED
    BY <2>4, <2>5 DEF CertsInit, ListInv, RefusedListed
<1> QED
  BY <1>1, <1>2, <1>3

\* A step of one of them leaves the state of the others alone.
LEMMA CertsFrame ==
    /\ Make => UNCHANGED <<signVars, listVars>>
    /\ SignCerts => UNCHANGED <<makeVars, listVars>>
    /\ Revocation => UNCHANGED <<makeVars, signVars>>
<1>1. Make => UNCHANGED <<signVars, listVars>>
  BY DEF Make, MakeLoad, MakeStat, MakeReclaim, MakeKey, MakeSave, PutCA, DeleteCA, MakeCrash
<1>2. SignCerts => UNCHANGED <<makeVars, listVars>>
  BY DEF SignCerts, Issue, Renew, Record, NewYear
<1>3. Revocation => UNCHANGED <<makeVars, signVars>>
  BY DEF Revocation, Build, Register, WatchRead, WatchStat, BuildEnds, NewList, Expire,
         Handshake, Request
<1> QED
  BY <1>1, <1>2, <1>3

\* A machine that does not move keeps its invariant.
LEMMA CertsAtRest ==
    /\ KeysInv /\ UNCHANGED makeVars => KeysInv'
    /\ SignInv /\ UNCHANGED signVars => SignInv'
    /\ ListInv /\ UNCHANGED listVars => ListInv'
<1>1. KeysInv /\ UNCHANGED makeVars => KeysInv'
  BY DEF makeVars, KeysInv, MakeType, OneMaker, MakerKnows, KeysKept, Referencing
<1>2. SignInv /\ UNCHANGED signVars => SignInv'
  BY DEF signVars, SignInv, SignType, SerialsFresh, LedgerKeeps
<1>3. ListInv /\ UNCHANGED listVars => ListInv'
  BY DEF listVars, ListInv, ListType, BuiltInOrder, AnchorsBehind, RefusedListed, Built
<1> QED
  BY <1>1, <1>2, <1>3

\* For any number of CAs, of requests that generate, issue and renew, of router
\* builds and versions of the list, and whatever crashes or fails: a stored CA
\* can sign unless two requests wrote its key file at once, every bundle handed
\* out is on record while it works and a retention longer, and a router never
\* serves a certificate it refused as revoked (clientcert.go, ledger.go,
\* crl.go).
THEOREM CertsAreAccounted == CertsSpec => []CertsAccounted
<1> DEFINE Inv == KeysInv /\ SignInv /\ ListInv
<1>1. Inv /\ [CertsNext]_certVars => Inv'
  <2> SUFFICES ASSUME KeysInv, SignInv, ListInv, [CertsNext]_certVars PROVE Inv'
    OBVIOUS
  <2>1. CASE Make
    BY <2>1, MakeStep, CertsFrame, CertsAtRest
  <2>2. CASE SignCerts
    BY <2>2, SignCertsStep, CertsFrame, CertsAtRest
  <2>3. CASE Revocation
    BY <2>3, RevocationStep, CertsFrame, CertsAtRest
  <2>4. CASE UNCHANGED certVars
    BY <2>4, CertsAtRest DEF certVars
  <2> QED
    BY <2>1, <2>2, <2>3, <2>4 DEF CertsNext
<1>2. Inv => CertsAccounted
  <2> SUFFICES ASSUME Inv PROVE CertsAccounted
    OBVIOUS
  <2>1. BundlesRemembered
    BY DEF SignInv, LedgerKeeps, BundlesRemembered
  <2> QED
    BY <2>1 DEF KeysInv, ListInv, CertsAccounted
<1> QED
  BY <1>1, <1>2, CertsBegin, PTL DEF CertsSpec

----------------------------------------------------------------------------
(* Deliveries: the dedup window.                                           *)

Topics == {Topic(ev) : ev \in Event}
Said == [at : Nat, state : {ev.state : ev \in Event}]
StoryType ==
    /\ tick \in Nat
    /\ said \in [Topics -> Seq(Said)]
    /\ heard \in [Topics -> {ev.state : ev \in Event} \cup {"none"}]
    /\ dedup \in [DOMAIN dedup -> Said] /\ DOMAIN dedup \subseteq Topics

\* The window remembers the last event accepted for a topic, for as long as it
\* may suppress another.
WindowExact ==
    \A k \in Topics :
        /\ k \in DOMAIN dedup => said[k] # << >> /\ dedup[k] = said[k][Len(said[k])]
        /\ k \notin DOMAIN dedup /\ said[k] # << >> =>
               tick >= said[k][Len(said[k])].at + DedupWindow

StoriesInv == StoryType /\ WindowExact /\ StoriesTold

----------------------------------------------------------------------------
(* Deliveries: the queue and its workers.                                  *)

Job == [id : Nat, target : {t.name : t \in Targets}]
Emitting ==
    [pc : {"next"}, rest : SUBSET Job]
        \cup [pc : {"push", "full", "again"}, job : Job, rest : SUBSET Job]

\* The job a worker sends.
Sending(w) == IF worker[w].pc = "send" THEN {worker[w].job} ELSE {}

QueueType ==
    /\ queue \in Seq(Job) /\ Len(queue) <= QueueCapacity
    /\ producer \in [Producer -> Emitting \cup {Still}]
    /\ \A p \in Producer : producer[p].pc \in {"push", "full", "again"} =>
          producer[p].job \in producer[p].rest
    /\ worker \in [Sender -> [pc : {"send"}, job : Job] \cup {Still, [pc |-> "gone"]}]
    /\ emits \in Nat /\ open \subseteq Job

\* No job is at two places ...
Apart ==
    /\ \A i, k \in 1..Len(queue) : i # k => queue[i] # queue[k]
    /\ \A v, w \in Sender : v # w => Sending(v) \cap Sending(w) = {}
    /\ \A p, r \in Producer : p # r => Held(p) \cap Held(r) = {}
    /\ \A i \in 1..Len(queue), w \in Sender : queue[i] \notin Sending(w)
    /\ \A i \in 1..Len(queue), p \in Producer : queue[i] \notin Held(p)
    /\ \A w \in Sender, p \in Producer : Sending(w) \cap Held(p) = {}

\* ... every open one is at some place ...
Somewhere ==
    \A j \in open :
        \/ \E i \in 1..Len(queue) : queue[i] = j
        \/ \E w \in Sender : j \in Sending(w)
        \/ \E p \in Producer : j \in Held(p)

\* ... and no other job is, nor one of an event yet to come.
Accepted ==
    /\ \A i \in 1..Len(queue) : queue[i] \in open
    /\ \A w \in Sender : Sending(w) \subseteq open
    /\ \A p \in Producer : Held(p) \subseteq open
    /\ \A j \in open : j.id <= emits

JobsInv == QueueType /\ Apart /\ Somewhere /\ Accepted

----------------------------------------------------------------------------
(* Deliveries: webhooks.                                                   *)

HooksInv ==
    /\ post \in [posting : Nat, leaving : Nat]
    /\ sem \in Nat /\ wg \in Nat /\ posts \in Nat
    /\ hookClose = "closed" => posts = MaxPosts
    /\ HooksDrained

----------------------------------------------------------------------------
(* Webhook slots.                                                          *)

\* A slot is taken with the goroutine and given back before it leaves.
LEMMA HooksStep ==
    ASSUME HooksInv, Hooks
    PROVE  HooksInv'
<1>1. /\ post \in [posting : Nat, leaving : Nat] /\ post.posting \in Nat /\ post.leaving \in Nat
      /\ MaxInFlight \in Nat /\ MaxPosts \in Nat
  BY DeliveryAssumption DEF DeliveryAssumption, HooksInv
<1>2. CASE DispatchHook
  <2>1. /\ hookClose' = hookClose /\ posts < MaxPosts /\ posts' = posts + 1
        /\ hookClose # "closed"
    BY <1>1, <1>2 DEF DispatchHook, HooksInv
  <2>2. CASE sem < MaxInFlight
    <3>1. /\ sem' = sem + 1 /\ wg' = wg + 1 /\ post'.posting = post.posting + 1
          /\ post'.leaving = post.leaving /\ post' \in [posting : Nat, leaving : Nat]
      BY <1>1, <1>2, <2>2 DEF DispatchHook
    <3> QED
      BY <1>1, <2>1, <2>2, <3>1 DEF HooksInv, HooksDrained
  <2>3. CASE ~(sem < MaxInFlight)
    BY <1>1, <1>2, <2>1, <2>3 DEF DispatchHook, HooksInv, HooksDrained
  <2> QED
    BY <2>2, <2>3
<1>3. CASE PostEnds
  BY <1>1, <1>3 DEF PostEnds, HooksInv, HooksDrained
<1>4. CASE PostLeaves
  BY <1>1, <1>4 DEF PostLeaves, HooksInv, HooksDrained
<1>5. CASE CloseHooks
  BY <1>1, <1>5 DEF CloseHooks, HooksInv, HooksDrained
<1> QED
  BY <1>2, <1>3, <1>4, <1>5 DEF Hooks

----------------------------------------------------------------------------
(* Stories.                                                                *)

\* A story is a sequence of dated states.
LEMMA SaidTyped ==
    ASSUME NEW s \in Seq(Said)
    PROVE  /\ Len(s) \in Nat
           /\ s # << >> => Len(s) \in 1..Len(s)
           /\ \A i \in 1..Len(s) : s[i] \in Said /\ s[i].at \in Nat
<1>1. Len(s) \in Nat /\ (s # << >> => Len(s) \in 1..Len(s))
  OBVIOUS
<1>2. \A i \in 1..Len(s) : s[i] \in Said
  OBVIOUS
<1> QED
  BY <1>1, <1>2 DEF Said

\* An event that is suppressed tells nothing new; one that is not is either
\* new or a window later.
LEMMA EmitTells ==
    ASSUME StoriesInv, NEW p \in Producer, NEW ev \in Event, Emit(p, ev)
    PROVE  StoriesInv'
<1> DEFINE k == Topic(ev)
           entry == [at |-> tick, state |-> ev.state]
<1>1. k \in Topics /\ DedupKey(ev) = k /\ entry \in Said /\ entry.at = tick /\ entry.state = ev.state
  BY DEF Topics, DedupKey, Topic, Said, StoriesInv, StoryType
<1>2. tick \in Nat /\ tick' = tick /\ heard' = [heard EXCEPT ![k] = ev.state] /\ DedupWindow \in Nat
  BY DeliveryAssumption DEF DeliveryAssumption, Emit, StoriesInv, StoryType
<1>3. /\ DOMAIN Swept \subseteq DOMAIN dedup /\ DOMAIN dedup \subseteq Topics
      /\ \A x \in DOMAIN Swept : Swept[x] = dedup[x] /\ Swept[x] \in Said
      /\ \A x \in DOMAIN dedup : x \notin DOMAIN Swept => ~(tick < dedup[x].at + DedupWindow)
  BY DEF Swept, StoriesInv, StoryType
<1>4. \A x \in Topics : /\ said[x] \in Seq(Said) /\ Len(said[x]) \in Nat
                        /\ said[x] # << >> => Len(said[x]) \in 1..Len(said[x])
                        /\ \A i \in 1..Len(said[x]) : said[x][i] \in Said /\ said[x][i].at \in Nat
  <2>1. \A x \in Topics : said[x] \in Seq(Said)
    BY DEF StoriesInv, StoryType
  <2> QED
    BY <2>1, SaidTyped
<1>5. \A x \in Topics : x \in DOMAIN Swept => said[x] # << >> /\ Swept[x] = said[x][Len(said[x])]
  BY <1>3 DEF StoriesInv, WindowExact
<1>6. \A x \in Topics : x \notin DOMAIN Swept /\ said[x] # << >> =>
          tick >= said[x][Len(said[x])].at + DedupWindow
  <2> SUFFICES ASSUME NEW x \in Topics, x \notin DOMAIN Swept, said[x] # << >>
               PROVE  tick >= said[x][Len(said[x])].at + DedupWindow
    OBVIOUS
  <2>1. CASE x \in DOMAIN dedup
    <3>1. dedup[x] = said[x][Len(said[x])] /\ ~(tick < dedup[x].at + DedupWindow)
      BY <2>1, <1>3 DEF StoriesInv, WindowExact
    <3> QED
      BY <3>1, <1>2, <1>4
  <2>2. CASE x \notin DOMAIN dedup
    BY <2>2 DEF StoriesInv, WindowExact
  <2> QED
    BY <2>1, <2>2
<1>7. CASE Suppressed(ev)
  <2>1. dedup' = Swept /\ said' = said
    BY <1>7 DEF Emit
  <2>2. k \in DOMAIN Swept /\ Swept[k].state = ev.state
    BY <1>1, <1>7 DEF Suppressed
  <2>3. StoryType'
    <3>1. Swept \in [DOMAIN Swept -> Said]
      BY <1>3 DEF Swept
    <3> QED
      BY <1>1, <1>2, <1>3, <2>1, <3>1 DEF StoriesInv, StoryType
  <2>4. WindowExact'
    BY <1>2, <1>5, <1>6, <2>1 DEF WindowExact
  <2>5. StoriesTold'
    <3>1. said[k] # << >> /\ said[k][Len(said[k])].state = ev.state
      BY <1>1, <1>5, <2>2
    <3> QED
      BY <3>1, <1>1, <1>2, <2>1 DEF StoriesInv, StoryType, StoriesTold, Last
  <2> QED
    BY <2>3, <2>4, <2>5 DEF StoriesInv
<1>8. CASE ~Suppressed(ev)
  <2>1. /\ dedup' = [x \in DOMAIN Swept \cup {k} |-> IF x = k THEN entry ELSE Swept[x]]
        /\ said' = [said EXCEPT ![k] = Append(@, entry)]
    BY <1>1, <1>8 DEF Emit
  <2> HIDE DEF k, entry
  <2>2. /\ DOMAIN dedup' = {k} \cup DOMAIN Swept
        /\ dedup' \in [DOMAIN dedup' -> Said] /\ dedup'[k] = entry
        /\ \A x \in DOMAIN Swept : x # k => dedup'[x] = Swept[x]
    BY <1>1, <1>3, <2>1
  <2>3. /\ said' \in [Topics -> Seq(Said)]
        /\ \A x \in Topics : x # k => said'[x] = said[x]
        /\ said'[k] = Append(said[k], entry)
    BY <1>1, <2>1 DEF StoriesInv, StoryType
  <2>4. /\ Len(said'[k]) = Len(said[k]) + 1 /\ said'[k][Len(said'[k])] = entry /\ said'[k] # << >>
        /\ \A i \in 1..Len(said[k]) : said'[k][i] = said[k][i]
    BY <1>1, <1>4, <2>3
  <2>5. StoryType'
    BY <1>1, <1>2, <1>3, <2>2, <2>3 DEF StoriesInv, StoryType
  <2>6. WindowExact'
    BY <1>2, <1>5, <1>6, <2>2, <2>3, <2>4 DEF WindowExact
  <2>7. said[k] # << >> /\ said[k][Len(said[k])].state = ev.state =>
            tick >= said[k][Len(said[k])].at + DedupWindow
    <3>1. k \in DOMAIN Swept => Swept[k].state # ev.state
      BY <1>1, <1>8 DEF Suppressed
    <3> QED
      BY <3>1, <1>1, <1>5, <1>6
  <2>8. StoriesTold'
    <3> SUFFICES ASSUME NEW x \in Topics
                 PROVE  /\ said'[x] # << >> => Last(said'[x]).state = heard'[x]
                        /\ said'[x] = << >> => heard'[x] = "none"
                        /\ \A i \in 1..Len(said'[x]) - 1 :
                              said'[x][i].state = said'[x][i + 1].state
                                => said'[x][i + 1].at >= said'[x][i].at + DedupWindow
      BY <2>5 DEF StoryType, StoriesTold
    <3>1. CASE x # k
      BY <3>1, <1>1, <1>2, <2>3 DEF StoriesInv, StoryType, StoriesTold
    <3>2. CASE x = k
      <4>1. Last(said'[k]).state = heard'[k]
        BY <1>1, <1>2, <2>4 DEF Last, StoriesInv, StoryType
      <4>2. ASSUME NEW i \in 1..Len(said'[k]) - 1, said'[k][i].state = said'[k][i + 1].state
            PROVE  said'[k][i + 1].at >= said'[k][i].at + DedupWindow
        <5>1. CASE i = Len(said[k])
          <6>1. said'[k][i] = said[k][Len(said[k])] /\ said'[k][i + 1] = entry /\ said[k] # << >>
            BY <5>1, <1>1, <1>4, <2>4
          <6> QED
            BY <6>1, <4>2, <1>1, <2>7
        <5>2. CASE i # Len(said[k])
          <6>1. i \in 1..Len(said[k]) - 1 /\ i + 1 \in 1..Len(said[k]) /\ i \in 1..Len(said[k])
            BY <5>2, <1>1, <1>4, <2>4
          <6>2. said'[k][i] = said[k][i] /\ said'[k][i + 1] = said[k][i + 1]
            BY <6>1, <2>4
          <6> QED
            BY <6>1, <6>2, <4>2, <1>1 DEF StoriesInv, StoryType, StoriesTold
        <5> QED
          BY <5>1, <5>2
      <4> QED
        BY <3>2, <4>1, <4>2, <2>4
    <3> QED
      BY <3>1, <3>2
  <2> QED
    BY <2>5, <2>6, <2>8 DEF StoriesInv
<1> QED
  BY <1>7, <1>8

\* Time passes.
LEMMA ElapseTells ==
    ASSUME StoriesInv, Elapse
    PROVE  StoriesInv'
<1>1. tick' = tick + 1 /\ tick \in Nat /\ UNCHANGED <<dedup, said, heard>> /\ DedupWindow \in Nat
  BY DeliveryAssumption DEF DeliveryAssumption, Elapse, StoriesInv, StoryType
<1>2. \A x \in Topics : said[x] # << >> => said[x][Len(said[x])].at \in Nat
  <2>1. \A x \in Topics : said[x] \in Seq(Said)
    BY DEF StoriesInv, StoryType
  <2> QED
    BY <2>1, SaidTyped
<1>3. WindowExact'
  BY <1>1, <1>2 DEF StoriesInv, WindowExact
<1> QED
  BY <1>1, <1>3 DEF StoriesInv, StoryType, StoriesTold

----------------------------------------------------------------------------
(* Jobs.                                                                   *)

\* What a producer holds, by where it is in enqueue.
LEMMA ProducerTyped ==
    ASSUME QueueType, NEW p \in Producer
    PROVE  /\ Held(p) \subseteq Job
           /\ producer[p] = Still => Held(p) = {}
           /\ producer[p].pc = "next" => Held(p) = producer[p].rest
           /\ producer[p].pc \in {"push", "full", "again"} =>
                 /\ Held(p) = producer[p].rest /\ producer[p].job \in producer[p].rest
                 /\ producer[p].job \in Job
                 /\ producer[p] \in [pc : {"push", "full", "again"}, job : Job, rest : SUBSET Job]
<1>1. producer[p] \in Emitting \cup {Still}
  BY DEF QueueType
<1>2. CASE producer[p] = Still
  BY <1>2 DEF Held, Still
<1>3. CASE producer[p] \in [pc : {"next"}, rest : SUBSET Job]
  BY <1>3 DEF Held, Still
<1>4. CASE producer[p] \in [pc : {"push", "full", "again"}, job : Job, rest : SUBSET Job]
  BY <1>4 DEF Held, Still, QueueType
<1> QED
  BY <1>1, <1>2, <1>3, <1>4 DEF Emitting

\* What a producer holds after a step of it.
LEMMA ProducerMoves ==
    ASSUME QueueType, NEW p \in Producer, NEW x \in Emitting \cup {Still},
           x.pc \in {"push", "full", "again"} => x.job \in x.rest,
           producer' = [producer EXCEPT ![p] = x]
    PROVE  /\ producer' \in [Producer -> Emitting \cup {Still}]
           /\ \A r \in Producer : producer'[r].pc \in {"push", "full", "again"} =>
                 producer'[r].job \in producer'[r].rest
           /\ \A r \in Producer : Held(r)' = IF r # p THEN Held(r)
                                             ELSE IF x = Still THEN {} ELSE x.rest
<1>1. \A r \in Producer : producer'[r] = IF r = p THEN x ELSE producer[r]
  BY DEF QueueType
<1>2. producer' \in [Producer -> Emitting \cup {Still}]
  BY DEF QueueType
<1>3. \A r \in Producer : r # p => Held(r)' = Held(r)
  BY <1>1 DEF Held
<1>4. Held(p)' = IF x = Still THEN {} ELSE x.rest
  <2>1. CASE x = Still
    BY <2>1, <1>1 DEF Held, Still
  <2>2. CASE x \in [pc : {"next"}, rest : SUBSET Job]
    BY <2>2, <1>1 DEF Held, Still
  <2>3. CASE x \in [pc : {"push", "full", "again"}, job : Job, rest : SUBSET Job]
    BY <2>3, <1>1 DEF Held, Still
  <2> QED
    BY <2>1, <2>2, <2>3 DEF Emitting
<1> QED
  BY <1>1, <1>2, <1>3, <1>4 DEF QueueType

\* The producer goes on with the other jobs of its event.
LEMMA Advances ==
    ASSUME QueueType, NEW p \in Producer, producer[p].pc \in {"push", "full", "again"},
           producer' = [producer EXCEPT ![p] = Advance(p)]
    PROVE  /\ producer' \in [Producer -> Emitting \cup {Still}]
           /\ \A r \in Producer : producer'[r].pc \in {"push", "full", "again"} =>
                 producer'[r].job \in producer'[r].rest
           /\ \A r \in Producer : Held(r)' = IF r # p THEN Held(r) ELSE Held(p) \ {producer[p].job}
<1> DEFINE left == producer[p].rest \ {producer[p].job}
<1>1. Held(p) = producer[p].rest /\ Held(p) \subseteq Job
  BY ProducerTyped
<1>2. PICK x \in Emitting \cup {Still} :
          /\ x = Advance(p) /\ ~(x.pc \in {"push", "full", "again"})
          /\ x = Still => left = {}
          /\ x # Still => x.rest = left
  <2>1. CASE left = {}
    BY <2>1 DEF Advance, Still
  <2>2. CASE left # {}
    <3> DEFINE y == [pc |-> "next", rest |-> left]
    <3>1. y \in Emitting /\ y.pc = "next" /\ y.rest = left /\ y = Advance(p) /\ y # Still
      BY <1>1, <2>2 DEF Advance, Emitting, Still
    <3> QED
      BY <3>1, Zenon
  <2> QED
    BY <2>1, <2>2
<1>3. /\ producer' = [producer EXCEPT ![p] = x]
      /\ x.pc \in {"push", "full", "again"} => x.job \in x.rest
  BY <1>2
<1> HIDE DEF left
<1>4. /\ producer' \in [Producer -> Emitting \cup {Still}]
      /\ \A r \in Producer : producer'[r].pc \in {"push", "full", "again"} =>
            producer'[r].job \in producer'[r].rest
      /\ \A r \in Producer : Held(r)' = IF r # p THEN Held(r)
                                        ELSE IF x = Still THEN {} ELSE x.rest
  BY <1>3, ProducerMoves, Zenon
<1>5. (IF x = Still THEN {} ELSE x.rest) = Held(p) \ {producer[p].job}
  BY <1>1, <1>2 DEF left
<1> QED
  BY <1>4, <1>5

\* The first job of the queue, and what is behind it.
LEMMA QueueHead ==
    ASSUME NEW s \in Seq(Job), s # << >>
    PROVE  /\ Head(s) = s[1] /\ Head(s) \in Job /\ 1 \in 1..Len(s) /\ Len(s) \in Nat
           /\ Tail(s) \in Seq(Job) /\ Len(Tail(s)) = Len(s) - 1
           /\ \A i \in 1..Len(Tail(s)) : i + 1 \in 1..Len(s) /\ Tail(s)[i] = s[i + 1]
           /\ \A i \in 1..Len(s) : i # 1 => i - 1 \in 1..Len(Tail(s)) /\ Tail(s)[i - 1] = s[i]
OBVIOUS

\* The end of the queue.
LEMMA QueueEnd ==
    ASSUME NEW s \in Seq(Job), NEW j \in Job
    PROVE  /\ Append(s, j) \in Seq(Job) /\ Len(Append(s, j)) = Len(s) + 1 /\ Len(s) \in Nat
           /\ Append(s, j)[Len(s) + 1] = j
           /\ \A i \in 1..Len(s) : Append(s, j)[i] = s[i] /\ i \in 1..(Len(s) + 1)
           /\ \A i \in 1..(Len(s) + 1) : i \in 1..Len(s) \/ i = Len(s) + 1
OBVIOUS

\* Emit makes jobs of a new event.
LEMMA EmitJobs ==
    ASSUME JobsInv, NEW p \in Producer, NEW ev \in Event, Emit(p, ev)
    PROVE  JobsInv'
<1> DEFINE js == Jobs(ev, emits')
<1>1. /\ QueueType /\ emits \in Nat /\ emits' = emits + 1 /\ producer[p] = Still /\ Held(p) = {}
      /\ UNCHANGED <<queue, worker>>
      /\ \A w \in Sender : Sending(w)' = Sending(w)
  BY ProducerTyped DEF JobsInv, QueueType, Emit, Sending
<1>2. /\ js \subseteq Job /\ \A j \in js : j.id = emits'
      /\ \A j \in open : j.id \in Nat /\ j.id <= emits
  BY <1>1 DEF Jobs, Subscribed, Job, JobsInv, Accepted, QueueType
<1>3. js \cap open = {}
  BY <1>1, <1>2
<1>4. PICK hold \in SUBSET Job :
          /\ hold \cap open = {} /\ open' = open \cup hold /\ \A j \in hold : j.id = emits'
          /\ producer' \in [Producer -> Emitting \cup {Still}]
          /\ \A r \in Producer : producer'[r].pc \in {"push", "full", "again"} =>
                 producer'[r].job \in producer'[r].rest
          /\ \A r \in Producer : Held(r)' = IF r # p THEN Held(r) ELSE hold
  <2>1. CASE Suppressed(ev)
    <3>1. UNCHANGED <<producer, open>>
      BY <2>1 DEF Emit
    <3>2. /\ {} \in SUBSET Job /\ {} \cap open = {} /\ open' = open \cup {}
          /\ \A r \in Producer : Held(r)' = IF r # p THEN Held(r) ELSE {}
          /\ producer' \in [Producer -> Emitting \cup {Still}]
          /\ \A r \in Producer : producer'[r].pc \in {"push", "full", "again"} =>
                 producer'[r].job \in producer'[r].rest
      BY <1>1, <3>1 DEF Held, QueueType
    <3> QED
      BY <3>2, Zenon
  <2>2. CASE ~Suppressed(ev)
    <3> DEFINE x == IF js = {} THEN Still ELSE [pc |-> "next", rest |-> js]
    <3>1. producer' = [producer EXCEPT ![p] = x] /\ open' = open \cup js
      BY <2>2 DEF Emit
    <3>2. /\ x \in Emitting \cup {Still} /\ ~(x.pc \in {"push", "full", "again"})
          /\ js = IF x = Still THEN {} ELSE x.rest
      BY <1>2 DEF Emitting, Still
    <3> HIDE DEF x, js
    <3>3. /\ producer' \in [Producer -> Emitting \cup {Still}]
          /\ \A r \in Producer : producer'[r].pc \in {"push", "full", "again"} =>
                producer'[r].job \in producer'[r].rest
          /\ \A r \in Producer : Held(r)' = IF r # p THEN Held(r)
                                            ELSE IF x = Still THEN {} ELSE x.rest
      BY <1>1, <3>1, <3>2, ProducerMoves
    <3>4. /\ producer' \in [Producer -> Emitting \cup {Still}]
          /\ \A r \in Producer : producer'[r].pc \in {"push", "full", "again"} =>
                 producer'[r].job \in producer'[r].rest
          /\ \A r \in Producer : Held(r)' = IF r # p THEN Held(r) ELSE js
      BY <3>2, <3>3
    <3> QED
      BY <1>2, <1>3, <3>1, <3>4, Zenon
  <2> QED
    BY <2>1, <2>2
<1> HIDE DEF js
<1>5. QueueType'
  BY <1>1, <1>4 DEF JobsInv, QueueType
<1>6. Apart'
  BY <1>1, <1>4 DEF JobsInv, Apart, Accepted
<1>7. Somewhere'
  BY <1>1, <1>4 DEF JobsInv, Somewhere
<1>8. Accepted'
  BY <1>1, <1>2, <1>4 DEF JobsInv, Accepted
<1> QED
  BY <1>5, <1>6, <1>7, <1>8 DEF JobsInv

\* The closed flag is read: the job is pushed next, or refused.
LEMMA CheckClosedStep ==
    ASSUME JobsInv, NEW p \in Producer, CheckClosed(p)
    PROVE  JobsInv'
<1>1. /\ QueueType /\ producer[p].pc = "next" /\ Held(p) = producer[p].rest /\ Held(p) \subseteq Job
      /\ UNCHANGED <<queue, worker, emits>>
      /\ \A w \in Sender : Sending(w)' = Sending(w)
  BY ProducerTyped DEF JobsInv, CheckClosed, Sending
<1>2. PICK j \in producer[p].rest :
          IF closing = "open"
          THEN /\ producer' = [producer EXCEPT ![p] = [pc |-> "push", job |-> j, rest |-> producer[p].rest]]
               /\ open' = open
          ELSE LET left == producer[p].rest \ {j} IN
               /\ producer' = [producer EXCEPT ![p] = IF left = {} THEN Still
                                                      ELSE [producer[p] EXCEPT !.rest = left]]
               /\ open' = open \ {j}
  BY DEF CheckClosed
<1>3. CASE closing = "open"
  <2> DEFINE x == [pc |-> "push", job |-> j, rest |-> producer[p].rest]
  <2>1. /\ x \in Emitting /\ x # Still /\ x.rest = Held(p)
        /\ x.pc \in {"push", "full", "again"} => x.job \in x.rest
    BY <1>1 DEF Emitting, Still
  <2>2. producer' = [producer EXCEPT ![p] = x] /\ open' = open
    BY <1>2, <1>3
  <2> HIDE DEF x
  <2>3. /\ producer' \in [Producer -> Emitting \cup {Still}]
        /\ \A r \in Producer : producer'[r].pc \in {"push", "full", "again"} =>
              producer'[r].job \in producer'[r].rest
        /\ \A r \in Producer : Held(r)' = IF r # p THEN Held(r)
                                          ELSE IF x = Still THEN {} ELSE x.rest
    BY <1>1, <2>1, <2>2, ProducerMoves
  <2>4. \A r \in Producer : Held(r)' = Held(r)
    BY <2>1, <2>3
  <2> QED
    BY <1>1, <2>2, <2>3, <2>4 DEF JobsInv, QueueType, Apart, Somewhere, Accepted
<1>4. CASE closing # "open"
  <2> DEFINE left == producer[p].rest \ {j}
             x == IF left = {} THEN Still ELSE [producer[p] EXCEPT !.rest = left]
  <2>1. producer[p] \in [pc : {"next"}, rest : SUBSET Job]
    BY <1>1 DEF QueueType, Emitting, Still
  <2>2. /\ x \in Emitting \cup {Still} /\ (IF x = Still THEN {} ELSE x.rest) = Held(p) \ {j}
        /\ x.pc \in {"push", "full", "again"} => x.job \in x.rest
    BY <1>1, <2>1 DEF Emitting, Still
  <2>3. producer' = [producer EXCEPT ![p] = x] /\ open' = open \ {j}
    BY <1>2, <1>4
  <2> HIDE DEF x
  <2>4. /\ producer' \in [Producer -> Emitting \cup {Still}]
        /\ \A r \in Producer : producer'[r].pc \in {"push", "full", "again"} =>
              producer'[r].job \in producer'[r].rest
        /\ \A r \in Producer : Held(r)' = IF r # p THEN Held(r)
                                          ELSE IF x = Still THEN {} ELSE x.rest
    BY <1>1, <2>2, <2>3, ProducerMoves
  <2>5. /\ \A r \in Producer : Held(r)' = IF r # p THEN Held(r) ELSE Held(p) \ {j}
        /\ j \in Held(p)
    BY <1>1, <2>2, <2>4
  <2>6. QueueType'
    BY <1>1, <2>3, <2>4 DEF JobsInv, QueueType
  <2>7. Apart'
    BY <1>1, <2>5 DEF JobsInv, Apart
  <2>8. Somewhere'
    BY <1>1, <2>3, <2>5 DEF JobsInv, Somewhere
  <2>9. Accepted'
    BY <1>1, <2>3, <2>5 DEF JobsInv, Accepted, Apart
  <2> QED
    BY <2>6, <2>7, <2>8, <2>9 DEF JobsInv
<1> QED
  BY <1>3, <1>4

\* A job goes from its producer to the end of the queue.
LEMMA Pushed ==
    ASSUME JobsInv, NEW p \in Producer, producer[p].pc \in {"push", "full", "again"},
           Len(queue) < QueueCapacity,
           queue' = Append(queue, producer[p].job),
           producer' = [producer EXCEPT ![p] = Advance(p)],
           UNCHANGED <<worker, emits, open>>
    PROVE  JobsInv'
<1> DEFINE j == producer[p].job
<1>1. /\ QueueType /\ j \in Job /\ j \in Held(p) /\ queue \in Seq(Job)
      /\ \A w \in Sender : Sending(w)' = Sending(w)
      /\ QueueCapacity \in Nat
  BY ProducerTyped, DeliveryAssumption DEF DeliveryAssumption, JobsInv, QueueType, Sending
<1>2. /\ producer' \in [Producer -> Emitting \cup {Still}]
      /\ \A r \in Producer : producer'[r].pc \in {"push", "full", "again"} =>
            producer'[r].job \in producer'[r].rest
      /\ \A r \in Producer : Held(r)' = IF r # p THEN Held(r) ELSE Held(p) \ {j}
  BY <1>1, Advances
<1>3. queue' = Append(queue, j)
  OBVIOUS
<1> HIDE DEF j
<1>4. /\ queue' \in Seq(Job) /\ Len(queue') = Len(queue) + 1 /\ Len(queue) \in Nat
      /\ queue'[Len(queue')] = j /\ Len(queue') \in 1..Len(queue')
      /\ \A i \in 1..Len(queue) : queue'[i] = queue[i] /\ i \in 1..Len(queue')
      /\ \A i \in 1..Len(queue') : i \in 1..Len(queue) \/ i = Len(queue')
  BY <1>1, <1>3, QueueEnd
<1>5. QueueType'
  BY <1>1, <1>2, <1>4 DEF JobsInv, QueueType
<1>6. \A i \in 1..Len(queue) : queue[i] # j
  BY <1>1 DEF JobsInv, Apart
<1>7. Apart'
  <2>1. \A i, k \in 1..Len(queue') : i # k => queue'[i] # queue'[k]
    BY <1>4, <1>6 DEF JobsInv, Apart
  <2>2. \A i \in 1..Len(queue'), w \in Sender : queue'[i] \notin Sending(w)'
    BY <1>1, <1>4 DEF JobsInv, Apart
  <2>3. \A i \in 1..Len(queue'), r \in Producer : queue'[i] \notin Held(r)'
    BY <1>1, <1>2, <1>4 DEF JobsInv, Apart
  <2>4. /\ \A v, w \in Sender : v # w => Sending(v)' \cap Sending(w)' = {}
        /\ \A r, q \in Producer : r # q => Held(r)' \cap Held(q)' = {}
        /\ \A w \in Sender, r \in Producer : Sending(w)' \cap Held(r)' = {}
    BY <1>1, <1>2 DEF JobsInv, Apart
  <2> QED
    BY <2>1, <2>2, <2>3, <2>4 DEF Apart
<1>8. Somewhere'
  <2> SUFFICES ASSUME NEW o \in open
               PROVE  \/ \E i \in 1..Len(queue') : queue'[i] = o
                      \/ \E w \in Sender : o \in Sending(w)'
                      \/ \E r \in Producer : o \in Held(r)'
    BY DEF Somewhere
  <2>1. CASE o = j
    BY <2>1, <1>4
  <2>2. CASE o # j
    <3>1. \/ \E i \in 1..Len(queue) : queue[i] = o
          \/ \E w \in Sender : o \in Sending(w)
          \/ \E r \in Producer : o \in Held(r)
      BY DEF JobsInv, Somewhere
    <3> QED
      BY <2>2, <3>1, <1>1, <1>2, <1>4
  <2> QED
    BY <2>1, <2>2
<1>9. Accepted'
  BY <1>1, <1>2, <1>4 DEF JobsInv, Accepted
<1> QED
  BY <1>5, <1>7, <1>8, <1>9 DEF JobsInv

\* The head of the queue is taken out: by a worker, or to make room.
LEMMA Unqueued ==
    ASSUME JobsInv, queue # << >>, queue' = Tail(queue)
    PROVE  /\ queue \in Seq(Job) /\ queue' \in Seq(Job) /\ Len(queue') <= QueueCapacity
           /\ Head(queue) \in open /\ Head(queue) \in Job
           /\ \A i \in 1..Len(queue') : /\ queue'[i] \in open /\ queue'[i] # Head(queue)
                                        /\ \A w \in Sender : queue'[i] \notin Sending(w)
                                        /\ \A p \in Producer : queue'[i] \notin Held(p)
           /\ \A i, k \in 1..Len(queue') : i # k => queue'[i] # queue'[k]
           /\ \A w \in Sender : Head(queue) \notin Sending(w)
           /\ \A p \in Producer : Head(queue) \notin Held(p)
           /\ \A i \in 1..Len(queue) : queue[i] # Head(queue) =>
                 \E k \in 1..Len(queue') : queue'[k] = queue[i]
<1>1. queue \in Seq(Job) /\ Len(queue) <= QueueCapacity /\ QueueCapacity \in Nat
  BY DeliveryAssumption DEF DeliveryAssumption, JobsInv, QueueType
<1>2. /\ Head(queue) = queue[1] /\ Head(queue) \in Job /\ 1 \in 1..Len(queue) /\ Len(queue) \in Nat
      /\ queue' \in Seq(Job) /\ Len(queue') = Len(queue) - 1
      /\ \A i \in 1..Len(queue') : i + 1 \in 1..Len(queue) /\ queue'[i] = queue[i + 1]
      /\ \A i \in 1..Len(queue) : i # 1 => i - 1 \in 1..Len(queue') /\ queue'[i - 1] = queue[i]
  BY <1>1, QueueHead
<1>3. Len(queue') <= QueueCapacity
  BY <1>1, <1>2
<1>4. \A i \in 1..Len(queue') : i + 1 # 1
  BY <1>2
<1>5. \A i \in 1..Len(queue') : /\ queue'[i] \in open /\ queue'[i] # Head(queue)
                                /\ \A w \in Sender : queue'[i] \notin Sending(w)
                                /\ \A p \in Producer : queue'[i] \notin Held(p)
  BY <1>2, <1>4 DEF JobsInv, Apart, Accepted
<1>6. \A i, k \in 1..Len(queue') : i # k => queue'[i] # queue'[k]
  BY <1>2 DEF JobsInv, Apart
<1>7. /\ Head(queue) \in open /\ \A w \in Sender : Head(queue) \notin Sending(w)
      /\ \A p \in Producer : Head(queue) \notin Held(p)
  BY <1>2 DEF JobsInv, Apart, Accepted
<1>8. \A i \in 1..Len(queue) : queue[i] # Head(queue) =>
          \E k \in 1..Len(queue') : queue'[k] = queue[i]
  BY <1>2
<1> QED
  BY <1>1, <1>2, <1>3, <1>5, <1>6, <1>7, <1>8

\* A producer that only changes where it is keeps what it holds.
LEMMA Repositioned ==
    ASSUME QueueType, NEW p \in Producer, producer[p].pc \in {"push", "full", "again"},
           NEW pc \in {"push", "full", "again"},
           producer' = [producer EXCEPT ![p].pc = pc]
    PROVE  /\ producer' \in [Producer -> Emitting \cup {Still}]
           /\ \A r \in Producer : producer'[r].pc \in {"push", "full", "again"} =>
                 producer'[r].job \in producer'[r].rest
           /\ \A r \in Producer : Held(r)' = Held(r)
<1> DEFINE x == [producer[p] EXCEPT !.pc = pc]
<1>1. /\ producer[p] \in [pc : {"push", "full", "again"}, job : Job, rest : SUBSET Job]
      /\ producer[p].job \in producer[p].rest /\ Held(p) = producer[p].rest
  BY ProducerTyped
<1>2. x \in Emitting /\ x # Still /\ x.job \in x.rest /\ x.rest = Held(p)
  BY <1>1 DEF Emitting, Still
<1>3. producer' = [producer EXCEPT ![p] = x]
  OBVIOUS
<1> HIDE DEF x
<1>4. /\ producer' \in [Producer -> Emitting \cup {Still}]
      /\ \A r \in Producer : producer'[r].pc \in {"push", "full", "again"} =>
            producer'[r].job \in producer'[r].rest
      /\ \A r \in Producer : Held(r)' = IF r # p THEN Held(r)
                                        ELSE IF x = Still THEN {} ELSE x.rest
  BY <1>2, <1>3, ProducerMoves
<1> QED
  BY <1>2, <1>4

\* The first push.
LEMMA PushStep ==
    ASSUME JobsInv, NEW p \in Producer, Push(p)
    PROVE  JobsInv'
<1>1. producer[p].pc = "push" /\ UNCHANGED <<worker, emits, open>>
  BY DEF Push
<1>2. CASE Len(queue) < QueueCapacity
  BY <1>1, <1>2, Pushed DEF Push
<1>3. CASE ~(Len(queue) < QueueCapacity)
  <2>1. producer' = [producer EXCEPT ![p].pc = "full"] /\ queue' = queue
    BY <1>3 DEF Push
  <2>2. /\ producer' \in [Producer -> Emitting \cup {Still}]
        /\ \A r \in Producer : producer'[r].pc \in {"push", "full", "again"} =>
              producer'[r].job \in producer'[r].rest
        /\ \A r \in Producer : Held(r)' = Held(r)
    BY <1>1, <2>1, Repositioned DEF JobsInv
  <2>3. \A w \in Sender : Sending(w)' = Sending(w)
    BY <1>1 DEF Sending
  <2> QED
    BY <1>1, <2>1, <2>2, <2>3 DEF JobsInv, QueueType, Apart, Somewhere, Accepted
<1> QED
  BY <1>2, <1>3

\* The oldest job makes room.
LEMMA DropOldestStep ==
    ASSUME JobsInv, NEW p \in Producer, DropOldest(p)
    PROVE  JobsInv'
<1>1. /\ producer[p].pc = "full" /\ producer' = [producer EXCEPT ![p].pc = "again"]
      /\ UNCHANGED <<worker, emits>>
  BY DEF DropOldest
<1>2. /\ producer' \in [Producer -> Emitting \cup {Still}]
      /\ \A r \in Producer : producer'[r].pc \in {"push", "full", "again"} =>
            producer'[r].job \in producer'[r].rest
      /\ \A r \in Producer : Held(r)' = Held(r)
  BY <1>1, Repositioned DEF JobsInv
<1>3. \A w \in Sender : Sending(w)' = Sending(w)
  BY <1>1 DEF Sending
<1>4. CASE queue = << >>
  <2>1. UNCHANGED <<queue, open>>
    BY <1>4 DEF DropOldest
  <2> QED
    BY <1>1, <1>2, <1>3, <2>1 DEF JobsInv, QueueType, Apart, Somewhere, Accepted
<1>5. CASE queue # << >>
  <2>1. queue' = Tail(queue) /\ open' = open \ {Head(queue)}
    BY <1>5 DEF DropOldest
  <2>2. QueueType'
    BY <1>1, <1>2, <1>5, <2>1, Unqueued DEF JobsInv, QueueType
  <2>3. Apart'
    <3>1. /\ \A i, k \in 1..Len(queue') : i # k => queue'[i] # queue'[k]
          /\ \A i \in 1..Len(queue') : /\ \A w \in Sender : queue'[i] \notin Sending(w)
                                       /\ \A r \in Producer : queue'[i] \notin Held(r)
      BY <1>5, <2>1, Unqueued
    <3>2. /\ \A v, w \in Sender : v # w => Sending(v) \cap Sending(w) = {}
          /\ \A q, r \in Producer : q # r => Held(q) \cap Held(r) = {}
          /\ \A w \in Sender, r \in Producer : Sending(w) \cap Held(r) = {}
      BY DEF JobsInv, Apart
    <3>3. \A r \in Producer : Held(r)' = Held(r)
      BY <1>2
    <3> QED
      BY <1>3, <3>1, <3>2, <3>3 DEF Apart
  <2>4. Somewhere'
    <3> SUFFICES ASSUME NEW o \in open, o # Head(queue)
                 PROVE  \/ \E i \in 1..Len(queue') : queue'[i] = o
                        \/ \E w \in Sender : o \in Sending(w)'
                        \/ \E r \in Producer : o \in Held(r)'
      BY <2>1 DEF Somewhere
    <3>1. \A i \in 1..Len(queue) : queue[i] = o => \E k \in 1..Len(queue') : queue'[k] = o
      BY <1>5, <2>1, Unqueued
    <3> QED
      BY <3>1, <1>2, <1>3 DEF JobsInv, Somewhere
  <2>5. Accepted'
    BY <1>1, <1>2, <1>3, <1>5, <2>1, Unqueued DEF JobsInv, Accepted
  <2> QED
    BY <2>2, <2>3, <2>4, <2>5 DEF JobsInv
<1> QED
  BY <1>4, <1>5

\* The second push: the room may be gone again, and then the job is dropped.
LEMMA PushAgainStep ==
    ASSUME JobsInv, NEW p \in Producer, PushAgain(p)
    PROVE  JobsInv'
<1>1. /\ producer[p].pc = "again" /\ producer' = [producer EXCEPT ![p] = Advance(p)]
      /\ UNCHANGED <<worker, emits>>
  BY DEF PushAgain
<1>2. CASE Len(queue) < QueueCapacity
  BY <1>1, <1>2, Pushed DEF PushAgain
<1>3. CASE ~(Len(queue) < QueueCapacity)
  <2> DEFINE j == producer[p].job
  <2>1. queue' = queue /\ open' = open \ {j}
    BY <1>3 DEF PushAgain
  <2>2. j \in Held(p)
    BY <1>1, ProducerTyped DEF JobsInv
  <2>3. /\ producer' \in [Producer -> Emitting \cup {Still}]
        /\ \A r \in Producer : producer'[r].pc \in {"push", "full", "again"} =>
              producer'[r].job \in producer'[r].rest
        /\ \A r \in Producer : Held(r)' = IF r # p THEN Held(r) ELSE Held(p) \ {j}
    BY <1>1, Advances DEF JobsInv
  <2> HIDE DEF j
  <2>4. \A w \in Sender : Sending(w)' = Sending(w)
    BY <1>1 DEF Sending
  <2>5. QueueType'
    BY <1>1, <2>1, <2>3 DEF JobsInv, QueueType
  <2>6. Apart'
    BY <2>1, <2>3, <2>4 DEF JobsInv, Apart
  <2>7. Somewhere'
    BY <2>1, <2>3, <2>4 DEF JobsInv, Somewhere
  <2>8. Accepted'
    BY <1>1, <2>1, <2>2, <2>3, <2>4 DEF JobsInv, Accepted, Apart
  <2> QED
    BY <2>5, <2>6, <2>7, <2>8 DEF JobsInv
<1> QED
  BY <1>2, <1>3

\* What the workers send after a step of one of them.
LEMMA WorkerMoves ==
    ASSUME QueueType, NEW w \in Sender,
           NEW x \in [pc : {"send"}, job : Job] \cup {Still, [pc |-> "gone"]},
           worker' = [worker EXCEPT ![w] = x]
    PROVE  /\ worker' \in [Sender -> [pc : {"send"}, job : Job] \cup {Still, [pc |-> "gone"]}]
           /\ \A v \in Sender : v # w => Sending(v)' = Sending(v)
           /\ x.pc = "send" => Sending(w)' = {x.job}
           /\ x.pc # "send" => Sending(w)' = {}
BY DEF QueueType, Sending

\* A worker takes the head of the queue.
LEMMA TakeStep ==
    ASSUME JobsInv, NEW w \in Sender, Take(w)
    PROVE  JobsInv'
<1>1. /\ worker[w] = Still /\ queue # << >> /\ queue' = Tail(queue)
      /\ worker' = [worker EXCEPT ![w] = [pc |-> "send", job |-> Head(queue)]]
      /\ UNCHANGED <<producer, emits, open>>
  BY DEF Take, emitVars
<1>2. Sending(w) = {} /\ Head(queue) \in Job
  BY <1>1, Unqueued DEF Sending, Still
<1> DEFINE x == [pc |-> "send", job |-> Head(queue)]
<1>3. x \in [pc : {"send"}, job : Job] /\ x.pc = "send" /\ x.job = Head(queue)
  BY <1>2
<1>4. /\ worker' \in [Sender -> [pc : {"send"}, job : Job] \cup {Still, [pc |-> "gone"]}]
      /\ \A v \in Sender : v # w => Sending(v)' = Sending(v)
      /\ Sending(w)' = {Head(queue)}
  <2>1. worker' = [worker EXCEPT ![w] = x]
    BY <1>1
  <2> HIDE DEF x
  <2> QED
    BY <1>3, <2>1, WorkerMoves DEF JobsInv
<1>5. \A p \in Producer : Held(p)' = Held(p)
  BY <1>1 DEF Held
<1>6. QueueType'
  BY <1>1, <1>4, Unqueued DEF JobsInv, QueueType
<1>7. Apart'
  <2>1. /\ \A i, k \in 1..Len(queue') : i # k => queue'[i] # queue'[k]
        /\ \A i \in 1..Len(queue'), v \in Sender : queue'[i] \notin Sending(v)'
        /\ \A i \in 1..Len(queue'), p \in Producer : queue'[i] \notin Held(p)'
    <3>1. /\ \A i \in 1..Len(queue') : /\ queue'[i] # Head(queue)
                                        /\ \A v \in Sender : queue'[i] \notin Sending(v)
                                        /\ \A p \in Producer : queue'[i] \notin Held(p)
          /\ \A i, k \in 1..Len(queue') : i # k => queue'[i] # queue'[k]
      BY <1>1, Unqueued
    <3> QED
      BY <3>1, <1>4, <1>5
  <2>2. /\ \A u, v \in Sender : u # v => Sending(u)' \cap Sending(v)' = {}
        /\ \A v \in Sender, p \in Producer : Sending(v)' \cap Held(p)' = {}
        /\ \A p, r \in Producer : p # r => Held(p)' \cap Held(r)' = {}
    BY <1>1, <1>4, <1>5, Unqueued DEF JobsInv, Apart
  <2> QED
    BY <2>1, <2>2 DEF Apart
<1>8. Somewhere'
  <2> SUFFICES ASSUME NEW o \in open
               PROVE  \/ \E i \in 1..Len(queue') : queue'[i] = o
                      \/ \E v \in Sender : o \in Sending(v)'
                      \/ \E r \in Producer : o \in Held(r)'
    BY <1>1 DEF Somewhere
  <2>1. CASE o = Head(queue)
    BY <2>1, <1>4
  <2>2. CASE o # Head(queue)
    <3>1. \/ \E i \in 1..Len(queue) : queue[i] = o
          \/ \E v \in Sender : o \in Sending(v)
          \/ \E r \in Producer : o \in Held(r)
      BY DEF JobsInv, Somewhere
    <3>2. \A i \in 1..Len(queue) : queue[i] = o => \E k \in 1..Len(queue') : queue'[k] = o
      BY <2>2, <1>1, Unqueued
    <3> QED
      BY <3>1, <3>2, <1>2, <1>4, <1>5
  <2> QED
    BY <2>1, <2>2
<1>9. Accepted'
  BY <1>1, <1>4, <1>5, Unqueued DEF JobsInv, Accepted
<1> QED
  BY <1>6, <1>7, <1>8, <1>9 DEF JobsInv

\* A worker ends, or its send does.
LEMMA WorkerStep ==
    ASSUME JobsInv, NEW w \in Sender, Leave(w) \/ \E o \in {"ok", "failed"} : Deliver(w, o)
    PROVE  JobsInv'
<1>1. /\ UNCHANGED <<producer, emits, queue>> /\ open' = open \ Sending(w)
      /\ \E x \in {Still, [pc |-> "gone"]} : worker' = [worker EXCEPT ![w] = x]
  BY DEF Leave, Deliver, emitVars, Sending, Still
<1>2. PICK x \in {Still, [pc |-> "gone"]} : worker' = [worker EXCEPT ![w] = x]
  BY <1>1
<1>3. x.pc # "send"
  BY DEF Still
<1>4. /\ worker' \in [Sender -> [pc : {"send"}, job : Job] \cup {Still, [pc |-> "gone"]}]
      /\ \A v \in Sender : v # w => Sending(v)' = Sending(v)
      /\ Sending(w)' = {}
  BY <1>2, <1>3, WorkerMoves DEF JobsInv
<1>5. \A p \in Producer : Held(p)' = Held(p)
  BY <1>1 DEF Held
<1>6. QueueType'
  BY <1>1, <1>4 DEF JobsInv, QueueType
<1>7. Apart'
  BY <1>1, <1>4, <1>5 DEF JobsInv, Apart
<1>8. Somewhere'
  BY <1>1, <1>4, <1>5 DEF JobsInv, Somewhere
<1>9. Accepted'
  BY <1>1, <1>4, <1>5 DEF JobsInv, Accepted, Apart
<1> QED
  BY <1>6, <1>7, <1>8, <1>9 DEF JobsInv

\* The three together: a step of a producer, a worker, Close or the clock.
LEMMA NotifyStep ==
    ASSUME StoriesInv, JobsInv, HooksInv, Notify
    PROVE  StoriesInv' /\ JobsInv' /\ HooksInv'
<1>1. HooksInv'
  <2>1. UNCHANGED hookVars
    BY DEF Notify, Emit, CheckClosed, Push, DropOldest, PushAgain, Take, Leave, Deliver, Close,
           Elapse
  <2> QED
    BY <2>1 DEF hookVars, HooksInv, HooksDrained
<1>2. ASSUME UNCHANGED <<tick, dedup, said, heard>> PROVE StoriesInv'
  BY <1>2 DEF StoriesInv, StoryType, WindowExact, StoriesTold
<1>3. ASSUME UNCHANGED <<producer, emits, queue, worker, open>> PROVE JobsInv'
  BY <1>3 DEF JobsInv, QueueType, Apart, Somewhere, Accepted, Sending, Held
<1>4. CASE \E p \in Producer : \E ev \in Event : Emit(p, ev)
  BY <1>1, <1>4, EmitTells, EmitJobs
<1>5. CASE \E p \in Producer : CheckClosed(p) \/ Push(p) \/ DropOldest(p) \/ PushAgain(p)
  <2>1. UNCHANGED <<tick, dedup, said, heard>>
    BY <1>5 DEF CheckClosed, Push, DropOldest, PushAgain
  <2> QED
    BY <1>1, <1>2, <1>5, <2>1, CheckClosedStep, PushStep, DropOldestStep, PushAgainStep
<1>6. CASE \E w \in Sender : Take(w) \/ Leave(w) \/ \E o \in {"ok", "failed"} : Deliver(w, o)
  <2>1. UNCHANGED <<tick, dedup, said, heard>>
    BY <1>6 DEF Take, Leave, Deliver, emitVars
  <2> QED
    BY <1>1, <1>2, <1>6, <2>1, TakeStep, WorkerStep
<1>7. CASE Close
  BY <1>1, <1>2, <1>3, <1>7 DEF Close, emitVars
<1>8. CASE Elapse
  BY <1>1, <1>3, <1>8, ElapseTells DEF Elapse, poolVars
<1> QED
  BY <1>4, <1>5, <1>6, <1>7, <1>8 DEF Notify

\* Nothing emitted, nobody waiting, no webhook under way.
LEMMA DeliveryBegins == DeliveryInit => StoriesInv /\ JobsInv /\ HooksInv
<1> SUFFICES ASSUME DeliveryInit PROVE StoriesInv /\ JobsInv /\ HooksInv
  OBVIOUS
<1>1. StoriesInv
  <2>1. said = [k \in Topics |-> << >>] /\ heard = [k \in Topics |-> "none"]
    BY DEF DeliveryInit, Topics
  <2>2. dedup = << >> /\ DOMAIN dedup = {} /\ dedup \in [DOMAIN dedup -> Said] /\ tick = 0
    BY DEF DeliveryInit
  <2>3. << >> \in Seq(Said) /\ Len(<< >>) = 0
    OBVIOUS
  <2>4. StoryType
    BY <2>1, <2>2, <2>3 DEF StoryType
  <2> QED
    BY <2>1, <2>2, <2>3, <2>4 DEF StoriesInv, WindowExact, StoriesTold
<1>2. JobsInv
  <2>1. \A p \in Producer : producer[p] = Still /\ Held(p) = {}
    BY DEF DeliveryInit, Held, Still
  <2>2. \A w \in Sender : Sending(w) = {}
    BY DEF DeliveryInit, Sending, Still
  <2>3. queue = << >> /\ Len(queue) = 0 /\ queue \in Seq(Job) /\ QueueCapacity \in Nat
    BY DeliveryAssumption DEF DeliveryAssumption, DeliveryInit
  <2>4. QueueType
    BY <2>3 DEF DeliveryInit, QueueType, Still
  <2> QED
    BY <2>1, <2>2, <2>3, <2>4 DEF DeliveryInit, JobsInv, Apart, Somewhere, Accepted
<1>3. HooksInv
  BY DeliveryAssumption DEF DeliveryAssumption, DeliveryInit, HooksInv, HooksDrained
<1> QED
  BY <1>1, <1>2, <1>3

\* A job that is open is counted once.
LEMMA OnePlace ==
    ASSUME JobsInv, NEW j \in open
    PROVE  Places(j) = 1
<1> DEFINE A == {i \in DOMAIN queue : queue[i] = j}
           B == {w \in Sender : worker[w].pc = "send" /\ worker[w].job = j}
           C == {p \in Producer : j \in Held(p)}
<1>1. DOMAIN queue = 1..Len(queue)
  BY DEF JobsInv, QueueType
<1>2. \A w \in Sender : w \in B <=> j \in Sending(w)
  BY DEF Sending
<1>3. Cardinality({}) = 0 /\ \A x : Cardinality({x}) = 1
  BY FS_EmptySet, FS_Singleton
<1>4. Places(j) = Cardinality(A) + Cardinality(B) + Cardinality(C)
  BY DEF Places
<1>5. CASE \E i \in 1..Len(queue) : queue[i] = j
  <2>1. PICK i \in 1..Len(queue) : queue[i] = j
    BY <1>5
  <2>2. A = {i} /\ B = {} /\ C = {}
    BY <1>1, <1>2, <2>1 DEF JobsInv, Apart
  <2> HIDE DEF A, B, C
  <2>3. Cardinality(A) = 1 /\ Cardinality(B) = 0 /\ Cardinality(C) = 0
    BY <2>2, <1>3
  <2> QED
    BY <2>3, <1>4
<1>6. CASE \E w \in Sender : j \in Sending(w)
  <2>1. PICK w \in Sender : j \in Sending(w)
    BY <1>6
  <2>2. A = {} /\ B = {w} /\ C = {}
    BY <1>1, <1>2, <2>1 DEF JobsInv, Apart
  <2> HIDE DEF A, B, C
  <2>3. Cardinality(A) = 0 /\ Cardinality(B) = 1 /\ Cardinality(C) = 0
    BY <2>2, <1>3
  <2> QED
    BY <2>3, <1>4
<1>7. CASE \E p \in Producer : j \in Held(p)
  <2>1. PICK p \in Producer : j \in Held(p)
    BY <1>7
  <2>2. A = {} /\ B = {} /\ C = {p}
    BY <1>1, <1>2, <2>1 DEF JobsInv, Apart
  <2> HIDE DEF A, B, C
  <2>3. Cardinality(A) = 0 /\ Cardinality(B) = 0 /\ Cardinality(C) = 1
    BY <2>2, <1>3
  <2> QED
    BY <2>3, <1>4
<1> QED
  BY <1>5, <1>6, <1>7 DEF JobsInv, Somewhere

\* For any number of producers and workers, any events, targets, capacity and
\* window: every story is told up to date and none twice within the window, no
\* job is lost unaccounted for or sent twice whatever the selects of enqueue
\* meet, and webhook slots and the wait group agree with the goroutines that
\* run (notify.go: shouldEmit, enqueue, worker, Close; webhook.go: Dispatch,
\* deliver, Close).
THEOREM DeliveriesAreExact == DeliverySpec => []DeliveryExact
<1> DEFINE Inv == StoriesInv /\ JobsInv /\ HooksInv
<1>1. Inv /\ [DeliveryNext]_deliveryVars => Inv'
  <2> SUFFICES ASSUME StoriesInv, JobsInv, HooksInv, [DeliveryNext]_deliveryVars PROVE Inv'
    OBVIOUS
  <2>1. ASSUME UNCHANGED emitVars PROVE StoriesInv'
    BY <2>1 DEF emitVars, StoriesInv, StoryType, WindowExact, StoriesTold
  <2>2. ASSUME UNCHANGED <<producer, emits, queue, worker, open>> PROVE JobsInv'
    BY <2>2 DEF JobsInv, QueueType, Apart, Somewhere, Accepted, Sending, Held
  <2>3. ASSUME UNCHANGED hookVars PROVE HooksInv'
    BY <2>3 DEF hookVars, HooksInv, HooksDrained
  <2>4. CASE Notify
    BY <2>4, NotifyStep
  <2>5. CASE TestTargets
    <3>1. UNCHANGED <<emitVars, queue, worker, open, hookVars>>
      BY <2>5 DEF TestTargets, TestTarget
    <3> QED
      BY <3>1, <2>1, <2>2, <2>3 DEF emitVars
  <2>6. CASE Hooks
    <3>1. UNCHANGED <<emitVars, poolVars>>
      BY <2>6 DEF Hooks, DispatchHook, PostEnds, PostLeaves, CloseHooks
    <3> QED
      BY <3>1, <2>1, <2>2, <2>6, HooksStep DEF emitVars, poolVars
  <2>7. CASE UNCHANGED deliveryVars
    BY <2>7, <2>1, <2>2, <2>3 DEF deliveryVars, emitVars, poolVars
  <2> QED
    BY <2>4, <2>5, <2>6, <2>7 DEF DeliveryNext
<1>2. Inv => DeliveryExact
  <2> SUFFICES ASSUME Inv PROVE DeliveryExact
    OBVIOUS
  <2>1. Range(queue) \subseteq open
    BY DEF JobsInv, QueueType, Accepted, Range
  <2>2. \A w \in Sender : worker[w].pc = "send" => worker[w].job \in open
    BY DEF JobsInv, Accepted, Sending
  <2>3. JobsExact
    BY <2>1, <2>2, OnePlace DEF JobsExact, JobsInv, QueueType, Accepted
  <2> QED
    BY <2>3 DEF StoriesInv, HooksInv, DeliveryExact
<1> QED
  BY <1>1, <1>2, DeliveryBegins, PTL DEF DeliverySpec

----------------------------------------------------------------------------
(* The request path.                                                       *)

\* Every set of positions can be listed in ascending order.
LEMMA Enumerable ==
    ASSUME NEW n \in Nat, NEW I \in SUBSET (1..n)
    PROVE  \E q \in [1..Cardinality(I) -> I] :
              \A i, j \in 1..Cardinality(I) : i < j => q[i] < q[j]
<1> DEFINE Ordered(J) == \E q \in [1..Cardinality(J) -> J] :
              \A i, j \in 1..Cardinality(J) : i < j => q[i] < q[j]
           Bad == {m \in Nat : \E J \in SUBSET (1..m) : ~Ordered(J)}
<1> SUFFICES ASSUME Bad # {} PROVE FALSE
  OBVIOUS
<1> HIDE DEF Ordered
<1>1. PICK m \in Bad : \A k \in Bad : m <= k
  BY Least
<1>2. PICK J \in SUBSET (1..m) : ~Ordered(J)
  BY <1>1
<1>3. m \in Nat /\ IsFiniteSet(J) /\ Cardinality(J) \in Nat
  <2>1. m \in Nat /\ 1 \in Int /\ m \in Int
    BY <1>1
  <2>2. IsFiniteSet(1..m)
    BY <2>1, FS_Interval
  <2>3. IsFiniteSet(J)
    BY <2>2, FS_Subset
  <2> QED
    BY <2>1, <2>3, FS_CardinalityType
<1>4. CASE m = 0
  <2>0. J = {}
    BY <1>4
  <2>1. J = {} /\ Cardinality(J) = 0
    BY <2>0, FS_EmptySet
  <2>2. [x \in 1..0 |-> 0] \in [1..Cardinality(J) -> J]
    BY <2>1
  <2>3. Ordered(J)
    BY <2>1, <2>2 DEF Ordered
  <2> QED
    BY <2>3, <1>2
<1>5. CASE m # 0
  <2> DEFINE K == J \ {m}
  <2>1. m - 1 \in Nat /\ K \in SUBSET (1..(m - 1))
    BY <1>1, <1>3, <1>5
  <2>2. Ordered(K)
    <3>1. m - 1 \notin Bad
      <4> HIDE DEF Bad
      <4>1. m - 1 < m
        BY <1>3
      <4> QED
        BY <4>1, <1>1, <1>3
    <3> QED
      BY <3>1, <2>1
  <2>3. m \in J
    BY <2>2, <1>2
  <2>4. Cardinality(K) = Cardinality(J) - 1 /\ Cardinality(K) \in Nat
    BY <2>3, <1>3, FS_RemoveElement, FS_CardinalityType
  <2>5. PICK q \in [1..Cardinality(K) -> K] :
           \A i, j \in 1..Cardinality(K) : i < j => q[i] < q[j]
    BY <2>2 DEF Ordered
  <2> DEFINE p == [i \in 1..Cardinality(J) |-> IF i = Cardinality(J) THEN m ELSE q[i]]
  <2>6. \A i \in 1..Cardinality(J) :
           i # Cardinality(J) => /\ i \in 1..Cardinality(K)
                                 /\ q[i] \in J /\ q[i] \in Nat /\ q[i] < m
    <3>1. \A i \in 1..Cardinality(J) : i # Cardinality(J) => i \in 1..Cardinality(K)
      BY <2>4, <1>3
    <3>2. \A x \in K : x \in J /\ x \in Nat /\ x < m
      BY <2>1
    <3> HIDE DEF K
    <3> QED
      BY <3>1, <3>2, <2>5
  <2>7. p \in [1..Cardinality(J) -> J]
    BY <2>3, <2>5, <2>6
  <2>8. ASSUME NEW i \in 1..Cardinality(J), NEW j \in 1..Cardinality(J), i < j
        PROVE  p[i] < p[j]
    <3>1. i # Cardinality(J)
      BY <2>8, <1>3
    <3>2. CASE j = Cardinality(J)
      BY <3>1, <3>2, <2>6, <2>1
    <3>3. CASE j # Cardinality(J)
      BY <3>1, <3>3, <2>6, <2>5, <2>8
    <3> QED
      BY <3>2, <3>3
  <2>9. Ordered(J)
    BY <2>7, <2>8 DEF Ordered
  <2> QED
    BY <2>9, <1>2
<1> QED
  BY <1>4, <1>5

\* The positions in order are all of them.
LEMMA InOrderIsAll ==
    ASSUME NEW n \in Nat, NEW I \in SUBSET (1..n)
    PROVE  /\ Cardinality(I) \in Nat
           /\ InOrder(I) \in [1..Cardinality(I) -> I]
           /\ \A x \in I : \E i \in 1..Cardinality(I) : InOrder(I)[i] = x
<1> DEFINE q == InOrder(I)
<1>1. IsFiniteSet(I) /\ Cardinality(I) \in Nat
  <2>1. IsFiniteSet(1..n)
    BY FS_Interval
  <2>2. IsFiniteSet(I)
    BY <2>1, FS_Subset
  <2> QED
    BY <2>2, FS_CardinalityType
<1>2. /\ q \in [1..Cardinality(I) -> I]
      /\ \A i, j \in 1..Cardinality(I) : i < j => q[i] < q[j]
  <2>1. \E p \in [1..Cardinality(I) -> I] : \A i, j \in DOMAIN p : i < j => p[i] < p[j]
    BY Enumerable
  <2> QED
    BY <2>1 DEF InOrder
<1>3. \A i, j \in 1..Cardinality(I) : q[i] = q[j] => i = j
  <2> SUFFICES ASSUME NEW i \in 1..Cardinality(I), NEW j \in 1..Cardinality(I), i # j
               PROVE  q[i] # q[j]
    OBVIOUS
  <2>1. i < j \/ j < i
    BY <1>1
  <2>2. q[i] \in Nat /\ q[j] \in Nat
    <3>1. \A x \in I : x \in Nat
      OBVIOUS
    <3> QED
      BY <3>1, <1>2
  <2> QED
    BY <2>1, <2>2, <1>2
<1>4. q \in Injection(1..Cardinality(I), I)
  BY <1>2, <1>3 DEF Injection, IsInjective
<1>5. Cardinality(1..Cardinality(I)) = Cardinality(I)
  BY <1>1, FS_Interval
<1>6. q \in Surjection(1..Cardinality(I), I)
  BY <1>1, <1>4, <1>5, FS_Injection
<1> QED
  BY <1>1, <1>2, <1>6 DEF Surjection

\* Among positions with a size there is a first one of the largest size.
LEMMA FirstLargest ==
    ASSUME NEW n \in Nat, NEW f \in [1..n -> Nat], NEW I \in SUBSET (1..n), I # {}
    PROVE  \E i \in I : \A j \in I : f[i] > f[j] \/ (f[i] = f[j] /\ i <= j)
<1> DEFINE First(J) == \E i \in J : \A j \in J : f[i] > f[j] \/ (f[i] = f[j] /\ i <= j)
           Bad == {m \in 0..n : \E J \in SUBSET (1..m) : J # {} /\ ~First(J)}
<1> SUFFICES ASSUME Bad # {} PROVE FALSE
  <2>1. n \in 0..n
    OBVIOUS
  <2> QED
    BY <2>1
<1> HIDE DEF First
<1>1. PICK m \in Bad : \A k \in Bad : m <= k
  <2>1. Bad \in SUBSET Nat
    OBVIOUS
  <2> HIDE DEF Bad
  <2> QED
    BY <2>1, Least
<1>2. PICK J \in SUBSET (1..m) : J # {} /\ ~First(J)
  BY <1>1
<1>3. m \in Nat /\ m <= n /\ m # 0
  <2>1. m \in 0..n
    BY <1>1
  <2>2. 1..0 = {}
    OBVIOUS
  <2> HIDE DEF Bad
  <2>3. m # 0
    BY <2>2, <1>2
  <2> QED
    BY <2>1, <2>3
<1>4. \A i \in 1..m : i \in 1..n /\ f[i] \in Nat
  BY <1>3
<1> DEFINE K == J \ {m}
<1>5. m - 1 \in 0..n /\ K \in SUBSET (1..(m - 1))
  BY <1>3
<1>6. K = {} \/ First(K)
  <2>1. m - 1 \notin Bad
    <3> HIDE DEF Bad
    <3>1. m - 1 < m
      BY <1>3
    <3> QED
      BY <3>1, <1>1, <1>3
  <2> QED
    BY <2>1, <1>5
<1>7. m \in J
  BY <1>6, <1>2
<1>8. CASE K = {}
  <2>1. J = {m}
    BY <1>7, <1>8
  <2>2. First(J)
    BY <2>1, <1>3, <1>4 DEF First
  <2> QED
    BY <2>2, <1>2
<1>9. CASE First(K)
  <2>1. PICK b \in K : \A j \in K : f[b] > f[j] \/ (f[b] = f[j] /\ b <= j)
    BY <1>9 DEF First
  <2>2. b \in J /\ b \in Nat /\ b < m /\ f[b] \in Nat /\ f[m] \in Nat
    BY <2>1, <1>3, <1>4, <1>5
  <2>3. \A j \in J : j = m \/ (j \in K /\ f[j] \in Nat)
    BY <1>3, <1>4
  <2> HIDE DEF K
  <2>4. CASE f[b] >= f[m]
    <3>1. \A j \in J : f[b] > f[j] \/ (f[b] = f[j] /\ b <= j)
      BY <2>1, <2>2, <2>3, <2>4
    <3>2. First(J)
      BY <3>1, <2>2 DEF First
    <3> QED
      BY <3>2, <1>2
  <2>5. CASE f[b] < f[m]
    <3>1. \A j \in J : f[m] > f[j] \/ (f[m] = f[j] /\ m <= j)
      BY <2>1, <2>2, <2>3, <2>5, <1>3
    <3>2. First(J)
      BY <3>1, <1>7 DEF First
    <3> QED
      BY <3>2, <1>2
  <2> QED
    BY <2>2, <2>4, <2>5
<1> QED
  BY <1>6, <1>8, <1>9

\* The locations of a host that a path lies in, and the one it is routed to.
Hits(h, p) == {i \in DOMAIN h.locs : IsPrefix(CleanPath(h.locs[i].path), p)}

\* A path in no location has no route; otherwise it is the first of the longest.
LEMMA RouteFound ==
    ASSUME NEW h, NEW p, IsSeq(h.locs),
           \A l \in ToSet(h.locs) : IsSeq(l.path) /\ l.slashes \in Nat
    PROVE  \/ Hits(h, p) = {} /\ Route(h, p) = None
           \/ \E i \in Hits(h, p) :
                /\ Route(h, p) = h.locs[i]
                /\ \A j \in Hits(h, p) :
                     \/ RawLen(h.locs[i]) > RawLen(h.locs[j])
                     \/ RawLen(h.locs[i]) = RawLen(h.locs[j]) /\ i <= j
<1>1. CASE Hits(h, p) = {}
  BY <1>1 DEF Route, Hits
<1>2. CASE Hits(h, p) # {}
  <2> DEFINE n == Len(h.locs)
             f == [i \in 1..n |-> RawLen(h.locs[i])]
             Fits(i) == \A j \in Hits(h, p) :
                           \/ RawLen(h.locs[i]) > RawLen(h.locs[j])
                           \/ RawLen(h.locs[i]) = RawLen(h.locs[j]) /\ i <= j
  <2>1. n \in Nat /\ DOMAIN h.locs = 1..n
    BY DEF IsSeq
  <2>2. Hits(h, p) \in SUBSET (1..n)
    BY <2>1 DEF Hits
  <2>3. ASSUME NEW l \in ToSet(h.locs) PROVE RawLen(l) \in Nat
    <3>1. Len(l.path) \in Nat /\ l.slashes \in Nat
      BY DEF IsSeq
    <3> QED
      BY <3>1 DEF RawLen
  <2>4. f \in [1..n -> Nat]
    BY <2>1, <2>3 DEF ToSet
  <2>5. \E i \in Hits(h, p) : \A j \in Hits(h, p) : f[i] > f[j] \/ (f[i] = f[j] /\ i <= j)
    <3> HIDE DEF f, n
    <3> QED
      BY <2>1, <2>2, <2>4, <1>2, FirstLargest
  <2>6. \A i \in Hits(h, p) : f[i] = RawLen(h.locs[i])
    BY <2>2
  <2>7. \E i \in Hits(h, p) : Fits(i)
    <3> HIDE DEF f
    <3> QED
      BY <2>5, <2>6
  <2>8. Route(h, p) = h.locs[CHOOSE i \in Hits(h, p) : Fits(i)]
    BY <1>2 DEF Route, Hits
  <2> HIDE DEF Fits
  <2>9. /\ (CHOOSE i \in Hits(h, p) : Fits(i)) \in Hits(h, p)
        /\ Fits(CHOOSE i \in Hits(h, p) : Fits(i))
    BY <2>7
  <2> QED
    BY <2>8, <2>9 DEF Fits
<1> QED
  BY <1>1, <1>2

\* Sequences and the sets of their elements.
LEMMA IsSeqOf ==
    ASSUME NEW T, NEW s \in Seq(T)
    PROVE  IsSeq(s) /\ ToSet(s) = {s[i] : i \in 1..Len(s)} /\ ToSet(s) \subseteq T
  BY DEF IsSeq, ToSet

\* A concatenation holds what its parts hold.
LEMMA ConcatSet ==
    ASSUME NEW s, NEW t, IsSeq(s), IsSeq(t)
    PROVE  IsSeq(s \o t) /\ ToSet(s \o t) = ToSet(s) \cup ToSet(t)
<1> DEFINE T == ToSet(s) \cup ToSet(t)
<1>1. s \in Seq(T) /\ t \in Seq(T)
  BY DEF IsSeq
<1>2. s \o t \in Seq(T)
  BY <1>1
<1>3. /\ IsSeq(s \o t) /\ ToSet(s \o t) \subseteq T
      /\ ToSet(s \o t) = {(s \o t)[i] : i \in 1..Len(s \o t)}
  <2> HIDE DEF T
  <2> QED
    BY <1>2, IsSeqOf
<1>4. Len(s \o t) = Len(s) + Len(t) /\ Len(s) \in Nat /\ Len(t) \in Nat
  BY <1>1
<1>5. ASSUME NEW i \in 1..Len(s) PROVE s[i] \in ToSet(s \o t)
  <2>1. i \in 1..Len(s \o t) /\ (s \o t)[i] = s[i]
    BY <1>1, <1>4
  <2> QED
    BY <2>1, <1>3
<1>6. ASSUME NEW i \in 1..Len(t) PROVE t[i] \in ToSet(s \o t)
  <2>1. Len(s) + i \in 1..Len(s \o t) /\ (s \o t)[Len(s) + i] = t[i]
    BY <1>1, <1>4
  <2> QED
    BY <2>1, <1>3
<1>7. ToSet(s) = {s[i] : i \in 1..Len(s)} /\ ToSet(t) = {t[i] : i \in 1..Len(t)}
  BY <1>1, IsSeqOf
<1>8. T \subseteq ToSet(s \o t)
  BY <1>5, <1>6, <1>7
<1> QED
  BY <1>3, <1>8

\* Reversing a sequence keeps what it holds.
LEMMA ReverseSet ==
    ASSUME NEW s, IsSeq(s)
    PROVE  IsSeq(Reverse(s)) /\ ToSet(Reverse(s)) = ToSet(s)
<1> DEFINE T == ToSet(s)
<1>1. s \in Seq(T) /\ Len(s) \in Nat
  BY DEF IsSeq
<1>2. Reverse(s) \in Seq(T) /\ Len(Reverse(s)) = Len(s)
  BY <1>1 DEF Reverse
<1>3. ASSUME NEW i \in 1..Len(s) PROVE s[i] \in ToSet(Reverse(s))
  <2>1. Len(s) - i + 1 \in 1..Len(Reverse(s)) /\ Reverse(s)[Len(s) - i + 1] = s[i]
    BY <1>1, <1>2 DEF Reverse
  <2> QED
    BY <2>1, <1>2, IsSeqOf
<1>4. ToSet(s) = {s[i] : i \in 1..Len(s)}
  BY <1>1, IsSeqOf
<1> QED
  BY <1>2, <1>3, <1>4, IsSeqOf

\* The gates of a tier are those of its specs.
LEMMA GatesSet ==
    ASSUME NEW kind, NEW s, IsSeq(s)
    PROVE  IsSeq(Gates(kind, s)) /\ ToSet(Gates(kind, s)) = {Gate(kind, x) : x \in ToSet(s)}
<1> DEFINE T == {Gate(kind, x) : x \in ToSet(s)}
<1>1. s \in Seq(ToSet(s)) /\ Len(s) \in Nat /\ DOMAIN s = 1..Len(s)
  BY DEF IsSeq
<1>2. Gates(kind, s) = [i \in 1..Len(s) |-> Gate(kind, s[i])]
  BY <1>1 DEF Gates
<1>3. \A i \in 1..Len(s) : Gate(kind, s[i]) \in T
  BY <1>1
<1>4. Gates(kind, s) \in Seq(T)
  BY <1>1, <1>2, <1>3
<1>5. ToSet(Gates(kind, s)) = T
  BY <1>1, <1>2 DEF ToSet
<1> QED
  BY <1>4, <1>5, IsSeqOf

\* The specs of one type, and no others.
LEMMA SpecsSet ==
    ASSUME NEW c, NEW names, NEW type, IsSeq(names)
    PROVE  /\ IsSeq(Specs(c, names, type))
           /\ ToSet(Specs(c, names, type)) =
                {c.mws[n].spec : n \in {m \in ToSet(names) : c.mws[m].type = type}}
<1> DEFINE I == {i \in DOMAIN names : c.mws[names[i]].type = type}
           q == InOrder(I)
           k == Cardinality(I)
           S == Specs(c, names, type)
           T == {c.mws[n].spec : n \in {m \in ToSet(names) : c.mws[m].type = type}}
<1>1. Len(names) \in Nat /\ DOMAIN names = 1..Len(names)
  BY DEF IsSeq
<1>2. I \in SUBSET (1..Len(names))
  BY <1>1
<1>3. /\ k \in Nat
      /\ q \in [1..k -> I]
      /\ \A x \in I : \E i \in 1..k : q[i] = x
  <2> HIDE DEF I
  <2> QED
    BY <1>1, <1>2, InOrderIsAll
<1>4. S = [i \in 1..k |-> c.mws[names[q[i]]].spec]
  <2>1. DOMAIN q = 1..k
    BY <1>3
  <2> QED
    BY <2>1 DEF Specs
<1>5. T = {c.mws[names[i]].spec : i \in I}
  BY DEF ToSet
<1> HIDE DEF I, S, T, k, q
<1>6. S \in Seq(T)
  <2>1. \A i \in 1..k : c.mws[names[q[i]]].spec \in T
    BY <1>3, <1>5
  <2> QED
    BY <2>1, <1>3, <1>4
<1>7. ToSet(S) = T
  <2>1. ToSet(S) = {c.mws[names[q[i]]].spec : i \in 1..k}
    BY <1>4 DEF ToSet
  <2> QED
    BY <2>1, <1>3, <1>5
<1> QED
  BY <1>6, <1>7, IsSeqOf DEF S, T

\* An inline block is a tier of at most one spec.
LEMMA BlockSet ==
    ASSUME NEW b
    PROVE  IsSeq(Block(b)) /\ ToSet(Block(b)) = {b} \ {None}
<1>1. CASE b = None
  <2>1. Block(b) \in Seq({})
    BY <1>1 DEF Block
  <2>2. IsSeq(Block(b)) /\ ToSet(Block(b)) \subseteq {}
    BY <2>1, IsSeqOf
  <2> QED
    BY <2>2, <1>1
<1>2. CASE b # None
  <2>1. Block(b) \in Seq({b}) /\ Len(Block(b)) = 1 /\ Block(b)[1] = b
    BY <1>2 DEF Block
  <2>2. IsSeq(Block(b)) /\ ToSet(Block(b)) = {Block(b)[i] : i \in 1..1}
    BY <2>1, IsSeqOf
  <2>3. 1..1 = {1}
    OBVIOUS
  <2> QED
    BY <2>1, <2>2, <2>3, <1>2
<1> QED
  BY <1>1, <1>2

\* The gates declared for a host and a location of it.
Declaring(c, h, l) == DeclaredBy(c, h) \cup (IF l = None THEN {} ELSE DeclaredBy(c, l))

\* A host and one of its locations, or None, as the configuration has them.
Placed(c, h, l) ==
    /\ ConfShape(c) /\ Validates(c)
    /\ h \in Live(c) /\ h.kind = "proxy"
    /\ l = None \/ l \in ToSet(h.locs)

\* The names of a location follow those of its host.
LEMMA StackSet ==
    ASSUME NEW c, NEW h, NEW l, Placed(c, h, l), NEW field \in {"mws", "lists"}
    PROVE  /\ IsSeq(Stack(h, l, field))
           /\ ToSet(Stack(h, l, field)) =
                ToSet(h[field]) \cup (IF l = None THEN {} ELSE ToSet(l[field]))
<1>1. \A o \in {h} \cup ({l} \ {None}) : IsSeq(o.mws) /\ IsSeq(o.lists)
  BY DEF Placed, ConfShape, Live
<1>2. IsSeq(h[field]) /\ (l # None => IsSeq(l[field]))
  BY <1>1
<1> QED
  BY <1>2, ConcatSet DEF Stack

\* The inline blocks that are there.
LEMMA InlineSet ==
    ASSUME NEW h, NEW l, NEW field
    PROVE  /\ IsSeq(Inline(h, l, field))
           /\ ToSet(Inline(h, l, field)) =
                ({h[field]} \cup (IF l = None THEN {} ELSE {l[field]})) \ {None}
<1>1. CASE l = None
  BY <1>1, BlockSet DEF Inline
<1>2. CASE l # None
  <2>1. IsSeq(Block(h[field])) /\ IsSeq(Block(l[field]))
    BY BlockSet
  <2>2. Inline(h, l, field) = Block(h[field]) \o Block(l[field])
    BY <1>2 DEF Inline
  <2>3. /\ IsSeq(Inline(h, l, field))
        /\ ToSet(Inline(h, l, field)) = ToSet(Block(h[field])) \cup ToSet(Block(l[field]))
    BY <2>1, <2>2, ConcatSet
  <2>4. ToSet(Block(h[field])) = {h[field]} \ {None} /\ ToSet(Block(l[field])) = {l[field]} \ {None}
    BY BlockSet
  <2> QED
    BY <2>3, <2>4, <1>2
<1> QED
  BY <1>1, <1>2

\* What validation says of the references of a host and its location.
LEMMA PlacedRefs ==
    ASSUME NEW c, NEW h, NEW l, Placed(c, h, l), NEW o \in {h} \cup ({l} \ {None})
    PROVE  /\ \A n \in ToSet(o.mws) : n \in DOMAIN c.mws /\ MiddlewareValid(c, c.mws[n])
           /\ \A n \in ToSet(o.lists) : n \in DOMAIN c.lists
           /\ o.auth # None => AuthValid(c, o.auth)
<1>1. \A m \in DOMAIN c.mws : MiddlewareValid(c, c.mws[m])
  BY DEF Placed, Validates
<1>2. HostValid(c, h)
  BY DEF Placed, Validates, Live
<1>3. RefsValid(c, o, h.off)
  BY <1>2 DEF Placed, HostValid, ToSet
<1> QED
  BY <1>1, <1>3 DEF RefsValid, ToSet

\* One tier of referenced middlewares.
LEMMA TierSet ==
    ASSUME NEW c, NEW h, NEW l, Placed(c, h, l), NEW kind
    PROVE  LET mws == Stack(h, l, "mws")
               tier == Reverse(Gates(kind, Specs(c, mws, kind)))
           IN  /\ IsSeq(tier)
               /\ ToSet(tier) = {Gate(kind, c.mws[n].spec) :
                                   n \in {m \in ToSet(mws) : c.mws[m].type = kind}}
<1> DEFINE mws == Stack(h, l, "mws")
           sp == Specs(c, mws, kind)
<1>1. IsSeq(mws)
  BY StackSet
<1>2. /\ IsSeq(sp)
      /\ ToSet(sp) = {c.mws[n].spec : n \in {m \in ToSet(mws) : c.mws[m].type = kind}}
  <2> HIDE DEF mws
  <2> QED
    BY <1>1, SpecsSet
<1> HIDE DEF sp, mws
<1>3. IsSeq(Gates(kind, sp)) /\ ToSet(Gates(kind, sp)) = {Gate(kind, x) : x \in ToSet(sp)}
  BY <1>2, GatesSet
<1>4. IsSeq(Reverse(Gates(kind, sp))) /\ ToSet(Reverse(Gates(kind, sp))) = ToSet(Gates(kind, sp))
  BY <1>3, ReverseSet
<1>5. {Gate(kind, x) : x \in ToSet(sp)} =
        {Gate(kind, c.mws[n].spec) : n \in {m \in ToSet(mws) : c.mws[m].type = kind}}
  BY <1>2
<1> QED
  BY <1>3, <1>4, <1>5 DEF sp, mws

\* The inline blocks of a host and its location.
LEMMA InlineTierSet ==
    ASSUME NEW h, NEW l, NEW kind, NEW field
    PROVE  LET tier == Reverse(Gates(kind, Inline(h, l, field)))
           IN  /\ IsSeq(tier)
               /\ ToSet(tier) = {Gate(kind, x) : x \in
                     ({h[field]} \cup (IF l = None THEN {} ELSE {l[field]})) \ {None}}
<1> DEFINE s == Inline(h, l, field)
<1>1. /\ IsSeq(s)
      /\ ToSet(s) = ({h[field]} \cup (IF l = None THEN {} ELSE {l[field]})) \ {None}
  BY InlineSet
<1> HIDE DEF s
<1>2. IsSeq(Gates(kind, s)) /\ ToSet(Gates(kind, s)) = {Gate(kind, x) : x \in ToSet(s)}
  BY <1>1, GatesSet
<1>3. IsSeq(Reverse(Gates(kind, s))) /\ ToSet(Reverse(Gates(kind, s))) = ToSet(Gates(kind, s))
  BY <1>2, ReverseSet
<1> QED
  BY <1>1, <1>2, <1>3 DEF s

\* The access lists of a host and its location.
LEMMA ListTierSet ==
    ASSUME NEW c, NEW h, NEW l, Placed(c, h, l)
    PROVE  LET names == Stack(h, l, "lists")
               lists == [i \in DOMAIN names |-> c.lists[names[i]]]
               tier == Reverse(Gates("access-list", lists))
           IN  /\ IsSeq(tier)
               /\ ToSet(tier) = {Gate("access-list", c.lists[n]) : n \in ToSet(names)}
<1> DEFINE names == Stack(h, l, "lists")
           lists == [i \in DOMAIN names |-> c.lists[names[i]]]
           T == {c.lists[n] : n \in ToSet(names)}
<1>1. IsSeq(names)
  BY StackSet
<1> HIDE DEF names
<1>2. Len(names) \in Nat /\ DOMAIN names = 1..Len(names)
  BY <1>1 DEF IsSeq
<1>3. lists \in Seq(T)
  <2>1. \A i \in 1..Len(names) : c.lists[names[i]] \in T
    BY <1>2 DEF ToSet
  <2> QED
    BY <2>1, <1>2
<1>4. ToSet(lists) = T
  BY DEF ToSet
<1> HIDE DEF lists, T
<1>5. IsSeq(lists)
  BY <1>3, IsSeqOf
<1>6. /\ IsSeq(Gates("access-list", lists))
      /\ ToSet(Gates("access-list", lists)) = {Gate("access-list", x) : x \in ToSet(lists)}
  BY <1>5, GatesSet
<1>7. /\ IsSeq(Reverse(Gates("access-list", lists)))
      /\ ToSet(Reverse(Gates("access-list", lists))) = ToSet(Gates("access-list", lists))
  BY <1>6, ReverseSet
<1>8. {Gate("access-list", x) : x \in ToSet(lists)} =
        {Gate("access-list", c.lists[n]) : n \in ToSet(names)}
  BY <1>4 DEF T
<1> QED
  BY <1>6, <1>7, <1>8 DEF lists, names

\* A chain holds the declared gates, and no others.
LEMMA ChainSet ==
    ASSUME NEW c, NEW h, NEW l, Placed(c, h, l)
    PROVE  IsSeq(Chain(c, h, l)) /\ ToSet(Chain(c, h, l)) = Declaring(c, h, l)
<1> DEFINE mws == Stack(h, l, "mws")
           names == Stack(h, l, "lists")
           tier(kind) == Reverse(Gates(kind, Specs(c, mws, kind)))
           block(kind, field) == Reverse(Gates(kind, Inline(h, l, field)))
           lists == Reverse(Gates("access-list", [i \in DOMAIN names |-> c.lists[names[i]]]))
           InTier(kind) == {Gate(kind, c.mws[n].spec) :
                              n \in {m \in ToSet(mws) : c.mws[m].type = kind}}
           InBlock(kind, field) == {Gate(kind, x) : x \in
                     ({h[field]} \cup (IF l = None THEN {} ELSE {l[field]})) \ {None}}
           InLists == {Gate("access-list", c.lists[n]) : n \in ToSet(names)}
<1>1. \A kind : IsSeq(tier(kind)) /\ ToSet(tier(kind)) = InTier(kind)
  BY TierSet
<1>2. \A kind, field : IsSeq(block(kind, field)) /\ ToSet(block(kind, field)) = InBlock(kind, field)
  BY InlineTierSet
<1>3. IsSeq(lists) /\ ToSet(lists) = InLists
  BY ListTierSet
<1>4. Chain(c, h, l) = block("rate-limit", "rate") \o tier("rate-limit") \o lists
          \o tier("bouncer") \o block("auth", "auth") \o tier("auth") \o tier("guard")
  BY DEF Chain
<1>5. /\ IsSeq(Chain(c, h, l))
      /\ ToSet(Chain(c, h, l)) = InBlock("rate-limit", "rate") \cup InTier("rate-limit")
            \cup InLists \cup InTier("bouncer") \cup InBlock("auth", "auth")
            \cup InTier("auth") \cup InTier("guard")
  <2> HIDE DEF tier, block, lists, InTier, InBlock, InLists
  <2> DEFINE s1 == block("rate-limit", "rate") \o tier("rate-limit")
             s2 == s1 \o lists
             s3 == s2 \o tier("bouncer")
             s4 == s3 \o block("auth", "auth")
             s5 == s4 \o tier("auth")
             s6 == s5 \o tier("guard")
  <2>1. IsSeq(s1) /\ ToSet(s1) = InBlock("rate-limit", "rate") \cup InTier("rate-limit")
    BY <1>1, <1>2, ConcatSet
  <2> HIDE DEF s1
  <2>2. IsSeq(s2) /\ ToSet(s2) = ToSet(s1) \cup InLists
    BY <2>1, <1>3, ConcatSet
  <2> HIDE DEF s2
  <2>3. IsSeq(s3) /\ ToSet(s3) = ToSet(s2) \cup InTier("bouncer")
    BY <2>2, <1>1, ConcatSet
  <2> HIDE DEF s3
  <2>4. IsSeq(s4) /\ ToSet(s4) = ToSet(s3) \cup InBlock("auth", "auth")
    BY <2>3, <1>2, ConcatSet
  <2> HIDE DEF s4
  <2>5. IsSeq(s5) /\ ToSet(s5) = ToSet(s4) \cup InTier("auth")
    BY <2>4, <1>1, ConcatSet
  <2> HIDE DEF s5
  <2>6. IsSeq(s6) /\ ToSet(s6) = ToSet(s5) \cup InTier("guard")
    BY <2>5, <1>1, ConcatSet
  <2>7. Chain(c, h, l) = s6
    BY <1>4 DEF s1, s2, s3, s4, s5
  <2> HIDE DEF s6
  <2> QED
    BY <2>1, <2>2, <2>3, <2>4, <2>5, <2>6, <2>7
<1>6. \A n \in ToSet(mws) : c.mws[n].type \in {"auth", "rate-limit", "guard", "bouncer"}
  <2>1. ToSet(mws) = ToSet(h.mws) \cup (IF l = None THEN {} ELSE ToSet(l.mws))
    BY StackSet
  <2> HIDE DEF mws
  <2> QED
    BY <2>1, PlacedRefs DEF MiddlewareValid
<1>7. {Gate(c.mws[n].type, c.mws[n].spec) : n \in ToSet(mws)} =
         InTier("auth") \cup InTier("rate-limit") \cup InTier("guard") \cup InTier("bouncer")
  <2> HIDE DEF mws
  <2> QED
    BY <1>6
<1>8. Declaring(c, h, l) =
         {Gate(c.mws[n].type, c.mws[n].spec) : n \in ToSet(mws)} \cup InLists
         \cup InBlock("auth", "auth") \cup InBlock("rate-limit", "rate")
  <2>1. ToSet(mws) = ToSet(h.mws) \cup (IF l = None THEN {} ELSE ToSet(l.mws))
    BY StackSet
  <2>2. ToSet(names) = ToSet(h.lists) \cup (IF l = None THEN {} ELSE ToSet(l.lists))
    BY StackSet
  <2> HIDE DEF mws, names
  <2>3. InBlock("auth", "auth") = {Gate("auth", x) : x \in
                     ({h.auth} \cup (IF l = None THEN {} ELSE {l.auth})) \ {None}}
    OBVIOUS
  <2>4. InBlock("rate-limit", "rate") = {Gate("rate-limit", x) : x \in
                     ({h.rate} \cup (IF l = None THEN {} ELSE {l.rate})) \ {None}}
    OBVIOUS
  <2> HIDE DEF InBlock
  <2>5. CASE l = None
    BY <2>1, <2>2, <2>3, <2>4, <2>5 DEF Declaring, DeclaredBy
  <2>6. CASE l # None
    BY <2>1, <2>2, <2>3, <2>4, <2>6 DEF Declaring, DeclaredBy
  <2> QED
    BY <2>5, <2>6
<1> HIDE DEF mws, InTier, InBlock, InLists
<1> QED
  BY <1>5, <1>7, <1>8

----------------------------------------------------------------------------
(* The invariant of a request under way.                                   *)

Fields == {"res", "c", "h", "l", "s", "k", "ip", "path", "todo", "passed", "hdr"}

Installed == rt \in DOMAIN Confs /\ Validates(Confs[rt])

\* The request r holds the chain of a route of a configuration that was installed;
\* every gate of it was passed or is still to come.
OnItsWay(r) ==
    /\ DOMAIN r = Fields
    /\ r.c \in DOMAIN Confs /\ Placed(Confs[r.c], r.h, r.l)
    /\ r.l = Route(r.h, r.path)
    /\ IsSeq(r.todo) /\ (r.res = "forwarded" => r.todo = <<>>)
    /\ ToSet(r.todo) \subseteq Declaring(Confs[r.c], r.h, r.l)
    /\ Declaring(Confs[r.c], r.h, r.l) \subseteq r.passed \cup ToSet(r.todo)
    /\ DOMAIN r.hdr = Header

\* Who set the identity headers it carries: for the upstream ...
Honest(r) ==
    \A n \in {Base} \cup IdentityHeaders(Confs[r.c], AuthSpecs(Confs[r.c], r.h)) :
        /\ r.hdr[n] = "peer" => r.k.peer \in TrustedNets(Confs[r.c], AuthSpecs(Confs[r.c], r.h))
        /\ r.hdr[n] = "gpm" =>
              \/ r.k.chain # None /\ n = Base
              \/ \E g \in r.passed : g.kind = "auth" /\ g.spec.idp # None

\* ... and for the proxy that puts gpm's own back.
PutBack(r) ==
    (r.l # None => r.l.auth = None) =>
        \A n \in Header : r.hdr[n] = "gpm" => n \in Asserted(Confs[r.c], r.h, r.l)

Underway(r) ==
    /\ "res" \in DOMAIN r /\ r.res # "unresolved"
    /\ r.res \in {"chain", "forwarded"} => OnItsWay(r) /\ Honest(r)
    /\ r.res = "chain" => PutBack(r)

PathInv == Installed /\ Underway(rq)

\* What a name is dispatched to is an enabled host.
LEMMA OwnerLive ==
    ASSUME NEW c, NEW n
    PROVE  Owner(c, n) = None \/ Owner(c, n) \in Live(c)
  BY DEF Owner, Claimants

\* An answer of the router itself carries nothing.
LEMMA AnswerUnderway ==
    ASSUME NEW a, a \notin {"unresolved", "chain", "forwarded"}
    PROVE  Underway(Answer(a))
  BY DEF Answer, Underway

\* The host handler: references resolve, and the chain is the route's.
LEMMA EnterUnderway ==
    ASSUME Installed, NEW h \in Live(Confs[rt]), h.kind = "proxy", NEW s, NEW k
    PROVE  Underway(Enter(Confs[rt], h, s, k))
<1> DEFINE c == Confs[rt]
           p == CleanPath(s.path)
           l == Route(h, p)
           r == [res |-> "chain", c |-> rt, h |-> h, l |-> l, s |-> s, k |-> k,
                 ip |-> Derive(k.peer, s.xff, Proxies(h)), path |-> p,
                 todo |-> Chain(c, h, l), passed |-> {}, hdr |-> Carried(c, h, s, k)]
<1>1. ConfShape(c) /\ Validates(c) /\ h \in c.hosts
  BY PathAssumption DEF PathAssumption, Installed, Live
<1>2. l = None \/ l \in ToSet(h.locs)
  <2>1. IsSeq(h.locs) /\ \A m \in ToSet(h.locs) : IsSeq(m.path) /\ m.slashes \in Nat
    BY <1>1 DEF ConfShape
  <2>2. l = None \/ \E i \in Hits(h, p) : l = h.locs[i]
    <3> HIDE DEF p
    <3> QED
      BY <2>1, RouteFound
  <2> QED
    BY <2>2 DEF Hits, ToSet
<1>3. Placed(c, h, l)
  BY <1>1, <1>2 DEF Placed
<1> HIDE DEF l, p, c
<1>4. ~Unresolved(c, h, l)
  <2>1. \A n \in ToSet(Stack(h, l, "mws")) : n \in DOMAIN c.mws
    BY <1>3, StackSet, PlacedRefs
  <2>2. \A n \in ToSet(Stack(h, l, "lists")) : n \in DOMAIN c.lists
    BY <1>3, StackSet, PlacedRefs
  <2> QED
    BY <2>1, <2>2 DEF Unresolved, ToSet
<1>5. Enter(c, h, s, k) = r
  BY <1>4 DEF Enter, l, p
<1>6. /\ r.res = "chain" /\ r.c = rt /\ r.h = h /\ r.l = l /\ r.k = k /\ r.path = p
      /\ r.todo = Chain(c, h, l) /\ r.passed = {} /\ r.hdr = Carried(c, h, s, k)
      /\ DOMAIN r = Fields
  BY DEF Fields
<1> HIDE DEF r
<1>7. Confs[r.c] = c /\ r.c \in DOMAIN Confs
  BY <1>6 DEF c, Installed
<1>8. OnItsWay(r)
  <2>1. IsSeq(Chain(c, h, l)) /\ ToSet(Chain(c, h, l)) = Declaring(c, h, l)
    BY <1>3, ChainSet
  <2>2. DOMAIN Carried(c, h, s, k) = Header
    BY DEF Carried
  <2>3. r.l = Route(r.h, r.path)
    BY <1>6 DEF l
  <2> QED
    BY <1>3, <1>6, <1>7, <2>1, <2>2, <2>3 DEF OnItsWay
<1>9. ASSUME NEW n \in Header
      PROVE  /\ r.hdr[n] = "gpm" => n = Base /\ k.chain # None
             /\ r.hdr[n] = "peer" =>
                   \/ k.peer \in TrustedNets(c, AuthSpecs(c, h))
                   \/ n \notin {Base} \cup IdentityHeaders(c, AuthSpecs(c, h))
  <2>1. None # "gpm" /\ None # "peer"
    BY PathAssumption DEF PathAssumption
  <2> QED
    BY <2>1, <1>6 DEF Carried
<1>10. Honest(r)
  <2>1. {Base} \cup IdentityHeaders(c, AuthSpecs(c, h)) \subseteq Header
    BY <1>1 DEF ConfShape, IdentityHeaders, Header, c
  <2> QED
    BY <2>1, <1>6, <1>7, <1>9 DEF Honest
<1>11. PutBack(r)
  BY <1>6, <1>7, <1>9 DEF PutBack, Asserted
<1> QED
  BY <1>5, <1>6, <1>8, <1>10, <1>11 DEF Underway, Fields, c

\* Dispatch: whatever the listener, the host handler or an answer.
LEMMA DispatchUnderway ==
    ASSUME PathInv, Dispatch
    PROVE  Underway(rq')
<1> DEFINE c == Confs[rt]
<1>1. PICK s \in Shapes :
         LET h == Owner(c, s.name)
         IN  rq' = IF conn.tls THEN ServeHTTPS(c, h, s, conn) ELSE ServeHTTP(c, h, s, conn)
  BY DEF Dispatch
<1> DEFINE h == Owner(c, s.name)
<1>2. h = None \/ h \in Live(c)
  BY OwnerLive
<1>3. h # None => h.kind \in {"proxy", "redirect", "parked"}
  BY <1>2, PathAssumption DEF PathInv, Installed, PathAssumption, ConfShape, Live
<1>4. h # None /\ h.kind = "proxy" => Underway(Enter(c, h, s, conn))
  <2> HIDE DEF h
  <2> QED
    BY <1>2, EnterUnderway DEF PathInv
<1>5. \A a \in {"421", "404", "400", "https", "maintenance", "redirect", "parked"} :
         Underway(Answer(a))
  BY AnswerUnderway
<1> HIDE DEF h, c
<1>6. Underway(ServeHTTPS(c, h, s, conn))
  BY <1>3, <1>4, <1>5 DEF ServeHTTPS
<1>7. Underway(ServeHTTP(c, h, s, conn))
  BY <1>3, <1>4, <1>5 DEF ServeHTTP
<1> QED
  BY <1>1, <1>6, <1>7 DEF h

\* The gates to come are the next one and the rest.
LEMMA TailSet ==
    ASSUME NEW s, IsSeq(s), s # <<>>
    PROVE  IsSeq(Tail(s)) /\ ToSet(s) = {Head(s)} \cup ToSet(Tail(s))
<1> DEFINE T == ToSet(s)
<1>1. s \in Seq(T) /\ Len(s) \in Nat /\ Len(s) # 0 /\ Head(s) = s[1]
  BY DEF IsSeq
<1>2. Tail(s) \in Seq(T) /\ Len(Tail(s)) = Len(s) - 1
  BY <1>1
<1>3. \A i \in 1..Len(Tail(s)) : Tail(s)[i] = s[i + 1]
  BY <1>1
<1>4. T = {s[i] : i \in 1..Len(s)}
  BY <1>1, IsSeqOf
<1>5. IsSeq(Tail(s)) /\ ToSet(Tail(s)) = {Tail(s)[i] : i \in 1..Len(Tail(s))} /\ ToSet(Tail(s)) \subseteq T
  <2> HIDE DEF T
  <2> QED
    BY <1>2, IsSeqOf
<1>6. ASSUME NEW i \in 1..Len(s), i # 1 PROVE s[i] \in ToSet(Tail(s))
  <2>1. i - 1 \in 1..Len(Tail(s)) /\ Tail(s)[i - 1] = s[i]
    BY <1>1, <1>2, <1>3, <1>6
  <2> QED
    BY <2>1, <1>5
<1>7. s[1] \in T
  BY <1>1, <1>4
<1> QED
  BY <1>1, <1>4, <1>5, <1>6, <1>7

\* A gate of a chain that identifies somebody: its provider is one the proxy knows.
LEMMA GateKnown ==
    ASSUME NEW c, NEW h, NEW l, Placed(c, h, l),
           NEW g \in Declaring(c, h, l), g.kind = "auth"
    PROVE  /\ g.spec.idp # None => g.spec.idp \in DOMAIN c.idps
           /\ \/ g.spec \in AuthSpecsOf(c, ToSet(Stack(h, l, "mws")))
              \/ g.spec = h.auth /\ h.auth # None
              \/ l # None /\ l.auth # None /\ g.spec = l.auth
<1>1. PICK o \in {h} \cup ({l} \ {None}) : g \in DeclaredBy(c, o)
  BY DEF Declaring
<1>2. \A kind, x : Gate(kind, x).kind = kind /\ Gate(kind, x).spec = x
  BY DEF Gate
<1>3. \/ \E n \in ToSet(o.mws) : c.mws[n].type = "auth" /\ g.spec = c.mws[n].spec
      \/ o.auth # None /\ g.spec = o.auth
  BY <1>1, <1>2 DEF DeclaredBy
<1>4. \A n \in ToSet(o.mws) : n \in DOMAIN c.mws /\ MiddlewareValid(c, c.mws[n])
  BY PlacedRefs
<1>5. o.auth # None => AuthValid(c, o.auth)
  BY PlacedRefs
<1>6. AuthValid(c, g.spec)
  BY <1>3, <1>4, <1>5 DEF MiddlewareValid
<1>7. ToSet(o.mws) \subseteq ToSet(Stack(h, l, "mws"))
  BY StackSet
<1>8. g.spec.idp # None => g.spec.idp \in DOMAIN c.idps
  BY <1>6 DEF AuthValid
<1>9. CASE \E n \in ToSet(o.mws) : c.mws[n].type = "auth" /\ g.spec = c.mws[n].spec
  BY <1>4, <1>7, <1>8, <1>9 DEF AuthSpecsOf
<1>10. CASE o.auth # None /\ g.spec = o.auth
  BY <1>8, <1>10
<1> QED
  BY <1>3, <1>9, <1>10

\* A gate lets the request on, or answers it.
LEMMA GateUnderway ==
    ASSUME PathInv, GateStep
    PROVE  Underway(rq')
<1> DEFINE g == Head(rq.todo)
           c == Confs[rq.c]
           r == [rq EXCEPT !.todo = Tail(@), !.passed = @ \cup {g}, !.hdr = Identified(c, g, rq)]
<1>1. rq' = r \/ rq' = Answer("denied")
  BY DEF GateStep
<1>2. rq.res = "chain" /\ rq.todo # <<>>
  BY DEF GateStep
<1>3. OnItsWay(rq) /\ Honest(rq) /\ PutBack(rq)
  BY <1>2 DEF PathInv, Underway
<1>4. /\ DOMAIN r = Fields /\ r.res = "chain" /\ r.c = rq.c /\ r.h = rq.h /\ r.l = rq.l
      /\ r.k = rq.k /\ r.path = rq.path
      /\ r.todo = Tail(rq.todo) /\ r.passed = rq.passed \cup {g} /\ r.hdr = Identified(c, g, rq)
  BY <1>2, <1>3 DEF OnItsWay, Fields
<1>5. IsSeq(Tail(rq.todo)) /\ ToSet(rq.todo) = {g} \cup ToSet(Tail(rq.todo))
  BY <1>2, <1>3, TailSet DEF OnItsWay
<1>6. Placed(c, rq.h, rq.l) /\ g \in Declaring(c, rq.h, rq.l)
  BY <1>3, <1>5 DEF OnItsWay
<1> HIDE DEF r, g
<1>7. DOMAIN Identified(c, g, rq) = Header
  BY <1>3 DEF Identified, OnItsWay
<1>8. OnItsWay(r)
  BY <1>3, <1>4, <1>5, <1>7 DEF OnItsWay
<1>9. ASSUME NEW n \in Header
      PROVE  \/ r.hdr[n] = rq.hdr[n]
             \/ r.hdr[n] = None
             \/ /\ r.hdr[n] = "gpm" /\ g.kind = "auth" /\ g.spec.idp # None
                /\ n = Base \/ n \in c.idps[g.spec.idp].hdr
  BY <1>4 DEF Identified
<1>10. Honest(r)
  <2>1. {Base} \cup IdentityHeaders(c, AuthSpecs(c, rq.h)) \subseteq Header
    BY <1>6 DEF Placed, ConfShape, IdentityHeaders, Header
  <2>2. None # "gpm" /\ None # "peer"
    BY PathAssumption DEF PathAssumption
  <2> QED
    BY <2>1, <2>2, <1>3, <1>4, <1>9 DEF Honest
<1>11. PutBack(r)
  <2> SUFFICES ASSUME rq.l # None => rq.l.auth = None, NEW n \in Header, r.hdr[n] = "gpm"
               PROVE  n \in Asserted(c, rq.h, rq.l)
    BY <1>4 DEF PutBack
  <2>1. CASE r.hdr[n] = rq.hdr[n]
    BY <2>1, <1>3 DEF PutBack
  <2>2. CASE r.hdr[n] = None
    BY <2>2, PathAssumption DEF PathAssumption
  <2>3. CASE /\ g.kind = "auth" /\ g.spec.idp # None
             /\ n = Base \/ n \in c.idps[g.spec.idp].hdr
    <3>1. /\ g.spec.idp \in DOMAIN c.idps
          /\ g.spec \in AuthSpecsOf(c, ToSet(Stack(rq.h, rq.l, "mws"))) \cup ({rq.h.auth} \ {None})
      BY <2>3, <1>6, GateKnown
    <3> QED
      BY <3>1, <2>3 DEF Asserted, IdentityHeaders
  <2> QED
    BY <2>1, <2>2, <2>3, <1>9
<1>12. Underway(r)
  BY <1>4, <1>8, <1>10, <1>11 DEF Underway, Fields
<1> QED
  BY <1>1, <1>12, AnswerUnderway

\* The proxy drops what Connection names, except what gpm asserts.
LEMMA ForwardUnderway ==
    ASSUME PathInv, Forward
    PROVE  Underway(rq')
<1>1. rq.res = "chain" /\ rq.todo = <<>>
  BY DEF Forward
<1>2. OnItsWay(rq) /\ Honest(rq)
  BY <1>1 DEF PathInv, Underway
<1>3. /\ DOMAIN rq' = Fields /\ rq'.res = "forwarded" /\ rq'.c = rq.c /\ rq'.h = rq.h
      /\ rq'.l = rq.l /\ rq'.k = rq.k /\ rq'.path = rq.path
      /\ rq'.todo = rq.todo /\ rq'.passed = rq.passed
      /\ rq'.hdr = [n \in Header |->
                    IF n \in rq.s.purge \ Asserted(Confs[rq.c], rq.h, rq.l)
                    THEN None ELSE rq.hdr[n]]
  BY <1>2 DEF Forward, OnItsWay, Fields
<1>4. OnItsWay(rq')
  BY <1>1, <1>2, <1>3 DEF OnItsWay
<1>5. Honest(rq')
  <2>1. {Base} \cup IdentityHeaders(Confs[rq.c], AuthSpecs(Confs[rq.c], rq.h)) \subseteq Header
    BY <1>2 DEF OnItsWay, Placed, ConfShape, IdentityHeaders, Header
  <2>2. None # "gpm" /\ None # "peer"
    BY PathAssumption DEF PathAssumption
  <2> QED
    BY <2>1, <2>2, <1>2, <1>3 DEF Honest
<1> QED
  BY <1>3, <1>4, <1>5 DEF Underway, Fields

\* Every step keeps the invariant.
LEMMA PathInvNext ==
    ASSUME PathInv, [PathNext]_pathVars
    PROVE  PathInv'
<1>1. CASE Connect
  BY <1>1 DEF Connect, PathInv, Installed
<1>2. CASE Dispatch
  BY <1>2, DispatchUnderway DEF Dispatch, PathInv, Installed
<1>3. CASE GateStep
  BY <1>3, GateUnderway DEF GateStep, PathInv, Installed
<1>4. CASE Forward
  BY <1>4, ForwardUnderway DEF Forward, PathInv, Installed
<1>5. CASE Install
  BY <1>5 DEF Install, PathInv, Installed
<1>6. CASE Flip
  BY <1>6 DEF Flip, PathInv, Installed
<1>7. CASE UNCHANGED pathVars
  BY <1>7 DEF pathVars, PathInv, Installed
<1> QED
  BY <1>1, <1>2, <1>3, <1>4, <1>5, <1>6, <1>7 DEF PathNext

\* It holds at the start.
LEMMA PathInvStart ==
    ASSUME PathInit
    PROVE  PathInv
<1>1. rq = [res |-> "idle"]
  BY DEF PathInit, Idle
<1>2. Underway(rq)
  BY <1>1 DEF Underway
<1> QED
  BY <1>2 DEF PathInit, PathInv, Installed

\* It holds throughout.
LEMMA PathThroughout == PathSpec => []PathInv
<1>1. PathInit => PathInv
  BY PathInvStart
<1>2. PathInv /\ [PathNext]_pathVars => PathInv'
  BY PathInvNext
<1> QED
  BY <1>1, <1>2, PTL DEF PathSpec

----------------------------------------------------------------------------
(* What follows from it.                                                   *)

\* What Config.Validate accepts, buildRouter builds.
LEMMA ValidConfsBuild == ValidBuilds
<1> SUFFICES ASSUME NEW i \in DOMAIN Confs, Validates(Confs[i]) PROVE Builds(Confs[i])
  BY DEF ValidBuilds
<1> SUFFICES ASSUME NEW h \in Live(Confs[i])
             PROVE  /\ h.mtls # None => h.mtls.ca \in Confs[i].cas
                    /\ h.kind = "proxy" => \A o \in {h} \cup ToSet(h.locs) :
                         o.group # None => o.group \in DOMAIN Confs[i].groups /\ Confs[i].groups[o.group]
  BY DEF Builds
<1>1. HostValid(Confs[i], h) /\ ~h.off
  BY DEF Validates, Live
<1> QED
  BY <1>1 DEF HostValid, TLSValid, RefsValid, ToSet

\* A configuration Config.Validate accepts builds, and no request of any client
\* ends at a reference that does not resolve, whichever configurations are
\* installed while it is under way.
THEOREM ValidConfsServe == PathSpec => []ValidatedServes
<1>1. PathInv => ValidatedServes
  BY ValidConfsBuild DEF PathInv, Underway, ValidatedServes
<1> QED
  BY <1>1, PathThroughout, PTL

\* The auth specs declared anywhere on a host are those hostAuthSpecs collects.
LEMMA SpecsOfHost ==
    ASSUME NEW c, NEW h, NEW l, Placed(c, h, l)
    PROVE  AuthSpecs(c, h) =
             {g.spec : g \in {x \in UNION {DeclaredBy(c, o) : o \in {h} \cup ToSet(h.locs)} :
                                x.kind = "auth"}}
<1> DEFINE Objects == {h} \cup ToSet(h.locs)
           Declared1(o) == {g.spec : g \in {x \in DeclaredBy(c, o) : x.kind = "auth"}}
           Collected(o) == AuthSpecsOf(c, ToSet(o.mws)) \cup ({o.auth} \ {None})
<1>1. ASSUME NEW o \in Objects PROVE Declared1(o) = Collected(o)
  <2>1. None \notin ToSet(h.locs)
    BY DEF Placed, ConfShape, Live
  <2>2. o = h \/ (Placed(c, h, o) /\ o # None)
    BY <2>1 DEF Placed
  <2>3. \A n \in ToSet(o.mws) : n \in DOMAIN c.mws
    BY <2>2, PlacedRefs
  <2>4. \A kind, x : Gate(kind, x).kind = kind /\ Gate(kind, x).spec = x
    BY DEF Gate
  <2>5. Collected(o) \subseteq Declared1(o)
    <3>1. ASSUME NEW n \in ToSet(o.mws), c.mws[n].type = "auth"
          PROVE  c.mws[n].spec \in Declared1(o)
      <4>1. Gate("auth", c.mws[n].spec) \in DeclaredBy(c, o)
        BY <3>1 DEF DeclaredBy
      <4> QED
        BY <4>1, <2>4
    <3>2. ASSUME o.auth # None PROVE o.auth \in Declared1(o)
      <4>1. Gate("auth", o.auth) \in DeclaredBy(c, o)
        BY <3>2 DEF DeclaredBy
      <4> QED
        BY <4>1, <2>4
    <3> HIDE DEF Declared1
    <3> QED
      BY <3>1, <3>2 DEF AuthSpecsOf
  <2>6. Declared1(o) \subseteq Collected(o)
    <3> SUFFICES ASSUME NEW g \in DeclaredBy(c, o), g.kind = "auth"
                 PROVE  g.spec \in Collected(o)
      OBVIOUS
    <3>1. \/ \E n \in ToSet(o.mws) : c.mws[n].type = "auth" /\ g.spec = c.mws[n].spec
          \/ o.auth # None /\ g.spec = o.auth
      BY <2>4 DEF DeclaredBy
    <3> QED
      BY <3>1, <2>3 DEF AuthSpecsOf
  <2> QED
    BY <2>5, <2>6
<1>2. AuthSpecs(c, h) = UNION {Collected(o) : o \in Objects}
  BY DEF AuthSpecs
<1>3. {g.spec : g \in {x \in UNION {DeclaredBy(c, o) : o \in Objects} : x.kind = "auth"}}
        = UNION {Declared1(o) : o \in Objects}
  OBVIOUS
<1> HIDE DEF Declared1, Collected
<1> QED
  BY <1>1, <1>2, <1>3

\* An identity header that reaches an upstream was set by gpm for a gate passed or
\* a certificate verified, or by a peer a provider of this host trusts, for any
\* configurations, requests, reloads and revocations.
THEOREM IdentitiesAreHonest == PathSpec => []IdentityHonest
<1>1. PathInv => IdentityHonest
  <2> SUFFICES ASSUME PathInv, rq.res = "forwarded" PROVE IdentityHonest
    BY DEF IdentityHonest
  <2> DEFINE c == Confs[rq.c]
             specs == {g.spec : g \in {x \in UNION {DeclaredBy(c, o) :
                            o \in {rq.h} \cup ToSet(rq.h.locs)} : x.kind = "auth"}}
  <2>1. OnItsWay(rq) /\ Honest(rq)
    BY DEF PathInv, Underway
  <2>2. specs = AuthSpecs(c, rq.h)
    BY <2>1, SpecsOfHost DEF OnItsWay
  <2>3. None \notin DOMAIN c.idps
    BY <2>1 DEF OnItsWay, Placed, ConfShape
  <2> HIDE DEF specs
  <2>4. rq.k.peer \in TrustedNets(c, specs) =>
           \E a \in specs : a.idp # None /\ rq.k.peer \in c.idps[a.idp].trusted
    BY <2>3 DEF TrustedNets
  <2>5. \A n \in {Base} \cup IdentityHeaders(c, specs) :
           /\ rq.hdr[n] = "peer" => \E a \in specs :
                    a.idp # None /\ rq.k.peer \in c.idps[a.idp].trusted
           /\ rq.hdr[n] = "gpm" =>
                    \/ rq.k.chain # None /\ n = Base
                    \/ \E g \in rq.passed : g.kind = "auth" /\ g.spec.idp # None
    BY <2>1, <2>2, <2>4 DEF Honest
  <2> QED
    BY <2>5 DEF IdentityHonest, specs
<1> QED
  BY <1>1, PathThroughout, PTL

\* What a gate or a certificate asserted reaches the upstream, also when the
\* request names the header in Connection.
THEOREM AssertionsArrive == PathSpec => AssertedArrives
<1>1. PathInv /\ [PathNext]_pathVars =>
        [ (rq.res = "chain" /\ rq'.res = "forwarded" /\ (rq.l # None => rq.l.auth = None))
            => \A n \in Header : rq.hdr[n] = "gpm" => rq'.hdr[n] = "gpm" ]_pathVars
  <2> SUFFICES ASSUME PathInv, PathNext, rq.res = "chain", rq'.res = "forwarded",
                      rq.l # None => rq.l.auth = None, NEW n \in Header, rq.hdr[n] = "gpm"
               PROVE  rq'.hdr[n] = "gpm"
    BY DEF pathVars
  <2>1. OnItsWay(rq) /\ PutBack(rq)
    BY DEF PathInv, Underway
  <2>2. n \in Asserted(Confs[rq.c], rq.h, rq.l)
    BY <2>1 DEF PutBack
  <2>3. CASE Forward
    <3>1. rq'.hdr = [m \in Header |->
                    IF m \in rq.s.purge \ Asserted(Confs[rq.c], rq.h, rq.l)
                    THEN None ELSE rq.hdr[m]]
      BY <2>1, <2>3 DEF Forward, OnItsWay, Fields
    <3> QED
      BY <3>1, <2>2
  <2>4. CASE GateStep
    <3>1. rq'.res # "forwarded"
      BY <2>1, <2>4 DEF GateStep, OnItsWay, Fields, Answer
    <3> QED
      BY <3>1
  <2>5. CASE Connect \/ Dispatch \/ Install \/ Flip
    BY <2>5 DEF Connect, Dispatch, Install, Flip
  <2> QED
    BY <2>3, <2>4, <2>5 DEF PathNext
<1> QED
  BY <1>1, PathThroughout, PTL DEF PathSpec, AssertedArrives

\* Locations as an operator writes them: no "." or "..", at most one slash more
\* than needed, and no path twice.  Of others the longest as written need not be
\* the most specific: buildLocations sorts by the length of the text.
Tidy ==
    \A i \in DOMAIN Confs : \A h \in Confs[i].hosts :
        /\ \A l \in ToSet(h.locs) : CleanPath(l.path) = l.path /\ l.slashes <= 1
        /\ \A j, k \in DOMAIN h.locs : h.locs[j].path = h.locs[k].path => j = k

\* The location a request is routed to is the most specific one.
LEMMA RouteIsBest ==
    ASSUME Tidy, NEW i \in DOMAIN Confs, NEW h \in Confs[i].hosts, NEW p
    PROVE  Route(h, p) = Best(h, p)
<1> DEFINE In == {l \in ToSet(h.locs) : IsPrefix(l.path, p)}
           Longest(l) == \A m \in In : Len(m.path) <= Len(l.path)
<1>1. /\ IsSeq(h.locs) /\ None \notin ToSet(h.locs)
      /\ \A l \in ToSet(h.locs) : IsSeq(l.path) /\ l.slashes \in Nat
  BY PathAssumption DEF PathAssumption, ConfShape
<1>2. /\ \A l \in ToSet(h.locs) : CleanPath(l.path) = l.path /\ l.slashes <= 1
      /\ \A j, k \in DOMAIN h.locs : h.locs[j].path = h.locs[k].path => j = k
  BY DEF Tidy
<1>3. In = {h.locs[j] : j \in Hits(h, p)}
  BY <1>2 DEF Hits, ToSet
<1>4. CASE Hits(h, p) = {}
  <2>1. Route(h, p) = None
    BY <1>1, <1>4, RouteFound
  <2>2. In = {}
    BY <1>3, <1>4
  <2> QED
    BY <2>1, <2>2 DEF Best
<1>5. CASE Hits(h, p) # {}
  <2>1. PICK j \in Hits(h, p) :
          /\ Route(h, p) = h.locs[j]
          /\ \A k \in Hits(h, p) : \/ RawLen(h.locs[j]) > RawLen(h.locs[k])
                                   \/ RawLen(h.locs[j]) = RawLen(h.locs[k]) /\ j <= k
    BY <1>1, <1>5, RouteFound
  <2> DEFINE r == h.locs[j]
  <2>2. r \in In
    BY <1>3, <2>1
  <2>3. ASSUME NEW m \in In PROVE Len(m.path) <= Len(r.path)
    <3>1. RawLen(r) >= RawLen(m)
      <4>1. \A l \in ToSet(h.locs) : RawLen(l) \in Nat
        BY <1>1 DEF RawLen, IsSeq
      <4>2. PICK k \in Hits(h, p) : m = h.locs[k]
        BY <1>3
      <4>3. RawLen(r) \in Nat /\ RawLen(m) \in Nat
        BY <4>1, <2>2
      <4> QED
        BY <2>1, <4>2, <4>3
    <3>2. \A l \in In : /\ Len(l.path) \in Nat /\ l.slashes \in {0, 1}
                        /\ l.path = <<>> <=> Len(l.path) = 0
      BY <1>1, <1>2 DEF IsSeq
    <3>3. \A l \in In : /\ Len(l.path) = 0 => RawLen(l) = 1
                        /\ Len(l.path) # 0 => RawLen(l) = 2 * Len(l.path) + l.slashes
      BY <3>2 DEF RawLen
    <3> HIDE DEF In, r
    <3>4. /\ Len(m.path) \in Nat /\ m.slashes \in {0, 1}
          /\ Len(r.path) \in Nat /\ r.slashes \in {0, 1}
      BY <3>2, <2>2
    <3>5. /\ Len(m.path) # 0 => RawLen(m) = 2 * Len(m.path) + m.slashes
          /\ Len(r.path) = 0 => RawLen(r) = 1
          /\ Len(r.path) # 0 => RawLen(r) = 2 * Len(r.path) + r.slashes
      BY <3>3, <2>2
    <3> QED
      BY <3>1, <3>4, <3>5
  <2>4. ASSUME NEW m \in In, Longest(m) PROVE m = r
    <3>1. Len(m.path) = Len(r.path)
      <4>1. Len(m.path) \in Nat /\ Len(r.path) \in Nat
        BY <1>1, <2>2 DEF IsSeq
      <4> QED
        BY <4>1, <2>2, <2>3, <2>4
    <3>2. m.path = r.path
      <4>1. IsSeq(m.path) /\ IsSeq(r.path) /\ IsPrefix(m.path, p) /\ IsPrefix(r.path, p)
        BY <1>1, <2>2
      <4>2. SubSeq(m.path, 1, Len(m.path)) = SubSeq(r.path, 1, Len(r.path))
        BY <4>1, <3>1 DEF IsPrefix
      <4>3. \A s : IsSeq(s) => SubSeq(s, 1, Len(s)) = s
        BY DEF IsSeq
      <4> QED
        BY <4>1, <4>2, <4>3
    <3>3. PICK k \in Hits(h, p) : m = h.locs[k]
      BY <1>3
    <3> QED
      BY <3>2, <3>3, <1>2, <2>1 DEF Hits
  <2> HIDE DEF r
  <2>5. Longest(r)
    BY <2>3
  <2>6. Best(h, p) = CHOOSE l \in In : Longest(l)
    BY <2>2 DEF Best
  <2> HIDE DEF Longest
  <2>7. (CHOOSE l \in In : Longest(l)) = r
    BY <2>2, <2>4, <2>5
  <2> QED
    BY <2>1, <2>6, <2>7 DEF r
<1> QED
  BY <1>4, <1>5

\* A request that reaches an upstream passed every gate its host and the most
\* specific location of its path declare, for any configurations whose locations
\* are tidy and whatever is installed, loaded or revoked while it is under way.
THEOREM GatesArePassed == ASSUME Tidy PROVE PathSpec => []EveryGatePassed
<1>1. PathInv => EveryGatePassed
  <2> SUFFICES ASSUME PathInv, rq.res = "forwarded"
               PROVE  Declared(Confs[rq.c], rq.h, rq.path) \subseteq rq.passed
    BY DEF EveryGatePassed
  <2>1. OnItsWay(rq)
    BY DEF PathInv, Underway
  <2>2. rq.h \in Confs[rq.c].hosts /\ rq.c \in DOMAIN Confs
    BY <2>1 DEF OnItsWay, Placed, Live
  <2>3. rq.l = Best(rq.h, rq.path)
    BY <2>1, <2>2, RouteIsBest DEF OnItsWay
  <2>4. Declared(Confs[rq.c], rq.h, rq.path) = Declaring(Confs[rq.c], rq.h, rq.l)
    BY <2>3 DEF Declared, Declaring
  <2>5. ToSet(rq.todo) = {}
    BY <2>1 DEF OnItsWay, ToSet
  <2> QED
    BY <2>1, <2>4, <2>5 DEF OnItsWay
<1> QED
  BY <1>1, PathThroughout, PTL

----------------------------------------------------------------------------
(* Discovery.                                                              *)

HostMap == [Name -> HostRecord \cup {NoHost}]
ReconcileFields == {"pc", "conf", "cfg", "rest", "got", "seen"}

\* A reconcile that has loaded its snapshot: what it has listed and what is left
\* to list make the sources it started from, and it applies a complete list.
Snapshot(s, r) ==
    /\ DOMAIN r = ReconcileFields
    /\ r.pc \in {"list", "apply"}
    /\ r.conf \in {Resolved(set, s) : set \in Settings}
    /\ r.cfg \in HostMap
    /\ r.seen \in Source[s] \cup {{}}
    /\ r.got \cup r.rest = r.seen
    /\ r.pc = "apply" => r.rest = {}
Reconciling(s, r) ==
    \/ r = Waiting
    \/ r = [pc |-> "load"]
    \/ Snapshot(s, r)

DiscoveryInv ==
    /\ hosts \in HostMap
    /\ settings \in Settings
    /\ DOMAIN cluster = Sub /\ \A s \in Sub : cluster[s] \in Source[s] \cup {{}}
    /\ DOMAIN run = Sub /\ \A s \in Sub : Reconciling(s, run[s])

\* What a complete list derives: every listed source of a name is in the desired
\* set, or the name is protected, and every desired host has its source.
LEMMA DerivedFromListed ==
    ASSUME NEW s \in Sub, NEW listed \in Source[s] \cup {{}}, NEW conf
    PROVE  LET der == Derived(conf, s, listed) IN
           /\ \A src \in listed : src.name \in Name =>
                 src.name \in der.protected \/ \E it \in der.desired : it.name = src.name
           /\ \A it \in der.desired : \E src \in listed :
                 /\ it = DeriveSource(conf, s, src)
                 /\ ~it.failed /\ it.name \in Name
           /\ \A n \in der.unknown : \E src \in listed : src.name = n /\ ~Resolves(conf, src)
<1> DEFINE refs == {src.ref : src \in listed}
           at(r) == CHOOSE src \in listed : src.ref = r
           items == [r \in refs |-> DeriveSource(conf, s, at(r))]
           good(n) == {r \in DOMAIN items : items[r].name = n /\ ~items[r].failed}
           der == Derived(conf, s, listed)
<1>1. \A x, y \in listed : x.ref \in Nat /\ (x.ref = y.ref => x = y)
  BY DiscoveryAssumption DEF DiscoveryAssumption
<1>2. \A r \in refs : at(r) \in listed /\ at(r).ref = r
  OBVIOUS
<1>3. \A src \in listed : src.ref \in refs /\ at(src.ref) = src
  <2> SUFFICES ASSUME NEW src \in listed PROVE src.ref \in refs /\ at(src.ref) = src
    OBVIOUS
  <2>1. src.ref \in refs
    OBVIOUS
  <2> QED
    BY <2>1, <1>1, <1>2
<1>4. \A n : good(n) # {} => Min(good(n)) \in good(n)
  <2> SUFFICES ASSUME NEW n, good(n) # {} PROVE Min(good(n)) \in good(n)
    OBVIOUS
  <2>1. good(n) \in SUBSET Nat
    BY <1>1
  <2>2. \E x \in good(n) : \A y \in good(n) : x <= y
    BY <2>1, Least
  <2> QED
    BY <2>2 DEF Min
<1>5. /\ der.desired = {items[Min(good(n))] : n \in {m \in Name : good(m) # {}}}
      /\ der.protected = {items[r].name : r \in {q \in DOMAIN items : items[q].failed}}
      /\ der.unknown = {items[r].name : r \in {q \in DOMAIN items : items[q].unknown}}
  BY DEF Derived
<1>6. \A src : LET it == DeriveSource(conf, s, src) IN
               it.name = src.name /\ it.unknown = ~Resolves(conf, src)
  BY DEF DeriveSource
<1>7. \A src \in listed : src.ref \in DOMAIN items /\ items[src.ref] = DeriveSource(conf, s, src)
  BY <1>3
<1>8. \A r \in DOMAIN items : at(r) \in listed /\ items[r] = DeriveSource(conf, s, at(r))
  BY <1>2
<1>9. \A n : \A r \in good(n) : r \in DOMAIN items /\ items[r].name = n /\ ~items[r].failed
  OBVIOUS
<1>10. \A r \in DOMAIN items : ~items[r].failed => r \in good(items[r].name)
  OBVIOUS
<1> HIDE DEF refs, at, items, good, der
<1>a. ASSUME NEW src \in listed, src.name \in Name, src.name \notin der.protected
      PROVE  \E it \in der.desired : it.name = src.name
  <2>1. items[src.ref].name = src.name /\ src.ref \in DOMAIN items
    BY <1>6, <1>7
  <2>2. ~items[src.ref].failed
    BY <2>1, <1>5, <1>a
  <2>3. src.ref \in good(src.name)
    BY <2>1, <2>2, <1>10
  <2>4. items[Min(good(src.name))] \in der.desired
    BY <2>3, <1>5, <1>a
  <2>5. items[Min(good(src.name))].name = src.name
    BY <2>3, <1>4, <1>9
  <2> QED
    BY <2>4, <2>5
<1>b. ASSUME NEW it \in der.desired
      PROVE  \E src \in listed : it = DeriveSource(conf, s, src) /\ ~it.failed /\ it.name \in Name
  <2>1. PICK n \in Name : good(n) # {} /\ it = items[Min(good(n))]
    BY <1>5, <1>b
  <2>2. Min(good(n)) \in DOMAIN items /\ ~it.failed /\ it.name = n
    BY <2>1, <1>4, <1>9
  <2> QED
    BY <2>1, <2>2, <1>8
<1>c. ASSUME NEW n \in der.unknown
      PROVE  \E src \in listed : src.name = n /\ ~Resolves(conf, src)
  <2>1. PICK r \in DOMAIN items : items[r].unknown /\ n = items[r].name
    BY <1>5, <1>c
  <2> QED
    BY <2>1, <1>6, <1>8
<1> QED
  BY <1>a, <1>b, <1>c DEF der

\* A host derived or switched off for a source is a host.
LEMMA HostsRendered ==
    ASSUME NEW s \in Sub, NEW set \in Settings, NEW listed \in Source[s] \cup {{}}
    PROVE  LET conf == Resolved(set, s) IN
           /\ \A src \in listed : DerivedHost(conf, s, src) \in HostRecord
           /\ \A cur \in HostRecord :
                 /\ FailClosed(conf, s, cur) \in HostRecord
                 /\ FailClosed(conf, s, cur).disabled
                 /\ FailClosed(conf, s, cur).profile = cur.profile
           /\ \A cur, want \in HostRecord :
                 /\ CarriedOver(conf, s, cur, want) \in HostRecord
                 /\ CarriedOver(conf, s, cur, want).profile = want.profile
                 /\ CarriedOver(conf, s, cur, want).disabled = OperatorDisabled(conf, s, cur)
<1> DEFINE conf == Resolved(set, s)
           labels == {x.prefix : x \in Settings} \X {"managed", "disabled"} \X Sub
<1>1. /\ conf.prefix = set.prefix
      /\ conf.rules \subseteq set.rules
  BY DEF Resolved
<1>2. \A k \in {"managed", "disabled"} : <<conf.prefix, k, s>> \in labels
  BY <1>1
<1>a. ASSUME NEW src \in listed PROVE DerivedHost(conf, s, src) \in HostRecord
  <2>1. src.asks \subseteq Domain
    BY DiscoveryAssumption DEF DiscoveryAssumption
  <2>2. src \in UNION UNION {Source[t] : t \in Sub}
    OBVIOUS
  <2>3. conf.rules \subseteq UNION {x.rules : x \in Settings}
    BY <1>1
  <2> DEFINE matching == {r \in conf.rules : r.ns = src.ns}
  <2>4. \/ ResolveProfile(conf, src) \in {"template", src.profile}
        \/ \E r \in conf.rules : ResolveProfile(conf, src) = r.profile
    <3>1. CASE matching # {}
      <4>1. ResolveProfile(conf, src) = (CHOOSE r \in matching : TRUE).profile
        BY <3>1 DEF ResolveProfile
      <4>2. (CHOOSE r \in matching : TRUE) \in conf.rules
        BY <3>1
      <4> QED
        BY <4>1, <4>2
    <3>2. CASE matching = {}
      BY <3>2 DEF ResolveProfile
    <3> QED
      BY <3>1, <3>2
  <2> HIDE DEF conf
  <2>5. DeriveDomains(conf, src) \subseteq Domain
    BY <2>1 DEF DeriveDomains
  <2> QED
    BY <1>2, <2>2, <2>3, <2>4, <2>5 DEF DerivedHost, HostRecord
<1> HIDE DEF conf
<1>b. ASSUME NEW cur \in HostRecord
      PROVE  /\ FailClosed(conf, s, cur) \in HostRecord
             /\ FailClosed(conf, s, cur).disabled
             /\ FailClosed(conf, s, cur).profile = cur.profile
  <2> DEFINE ls == (IF conf.migrate THEN StripStale(conf, s, cur.labels) ELSE cur.labels)
                   \cup {<<conf.prefix, "managed", s>>, <<conf.prefix, "disabled", s>>}
  <2>1. ls \in SUBSET labels
    BY <1>2 DEF HostRecord, StripStale
  <2>2. FailClosed(conf, s, cur) = [cur EXCEPT !.disabled = TRUE, !.labels = ls]
    BY DEF FailClosed
  <2> HIDE DEF ls
  <2> QED
    BY <2>1, <2>2 DEF HostRecord
<1>c. ASSUME NEW cur \in HostRecord, NEW want \in HostRecord
      PROVE  /\ CarriedOver(conf, s, cur, want) \in HostRecord
             /\ CarriedOver(conf, s, cur, want).profile = want.profile
             /\ CarriedOver(conf, s, cur, want).disabled = OperatorDisabled(conf, s, cur)
  <2>1. OperatorDisabled(conf, s, cur) \in BOOLEAN
    BY DEF OperatorDisabled
  <2> QED
    BY <2>1 DEF CarriedOver, HostRecord
<1> QED
  BY <1>a, <1>b, <1>c DEF conf

\* What a source that resolves allows to write, and what one that does not.
FromProfile(r, n, h) ==
    \E src \in r.got : /\ src.name = n /\ Resolves(r.conf, src)
                       /\ h.profile = ResolveProfile(r.conf, src)
SwitchedOff(r, n, h) ==
    /\ \E src \in r.got : src.name = n /\ ~Resolves(r.conf, src)
    /\ h.disabled /\ h.profile = r.cfg[n].profile

\* A plan deletes what no listed source names; it writes hosts whose profile a
\* source resolves to and keeps the operator's switch, or switches off a host
\* whose profile does not resolve.
LEMMA PlanIsHonest ==
    ASSUME NEW s \in Sub, NEW r, Snapshot(s, r), r.pc = "apply"
    PROVE  LET plan == Plan(r.conf, s, r.cfg, r.got) IN
           /\ \A n \in plan.deletes : n \in Name => ~\E src \in r.got : src.name = n
           /\ \A p \in plan.puts :
                 /\ p[1] \in Name /\ p[2] \in HostRecord
                 /\ \/ /\ FromProfile(r, p[1], p[2])
                       /\ r.cfg[p[1]] # NoHost /\ OperatorDisabled(r.conf, s, r.cfg[p[1]])
                             => p[2].disabled
                    \/ SwitchedOff(r, p[1], p[2])
<1> DEFINE conf == r.conf
           cfg == r.cfg
           der == Derived(conf, s, r.got)
           names == {it.name : it \in der.desired}
           of(n) == CHOOSE it \in der.desired : it.name = n
           want == [n \in names |-> of(n).host]
           mine == {n \in Name : Managed(conf, s, cfg[n])}
           doomed == {n \in mine : n \notin DOMAIN want /\ n \notin der.protected}
           closed == {n \in mine \cap der.unknown : ~cfg[n].disabled}
           placed == DOMAIN want \cap PlacedNames(cfg, mine, want, Reserved(cfg, mine, want, doomed))
           put(n) == IF cfg[n] = NoHost THEN want[n] ELSE CarriedOver(conf, s, cfg[n], want[n])
           off(n) == FailClosed(conf, s, cfg[n])
           plan == Plan(r.conf, s, r.cfg, r.got)
<1>1. r.got = r.seen /\ r.got \in Source[s] \cup {{}}
  BY DEF Snapshot
<1>2. PICK set \in Settings : conf = Resolved(set, s)
  BY DEF Snapshot
<1>3. \A n \in Name : cfg[n] \in HostRecord \cup {NoHost}
  BY DEF Snapshot, HostMap
<1>4. /\ \A src \in r.got : src.name \in Name =>
            src.name \in der.protected \/ \E it \in der.desired : it.name = src.name
      /\ \A it \in der.desired : \E src \in r.got :
            it = DeriveSource(conf, s, src) /\ ~it.failed /\ it.name \in Name
      /\ \A n \in der.unknown : \E src \in r.got : src.name = n /\ ~Resolves(conf, src)
  BY <1>1, DerivedFromListed
<1>5. /\ plan.deletes = doomed
      /\ plan.puts = {<<n, put(n)>> : n \in {m \in placed \ closed : cfg[m] # put(m)}}
                     \cup {<<n, off(n)>> : n \in closed}
  BY DEF Plan, PlacedHosts
<1>6. DOMAIN want = names /\ \A n \in names : want[n] = of(n).host
  OBVIOUS
<1>7. \A n \in names : of(n) \in der.desired /\ of(n).name = n
  OBVIOUS
<1>8. /\ \A src \in r.got : DerivedHost(conf, s, src) \in HostRecord
      /\ \A cur \in HostRecord : /\ FailClosed(conf, s, cur) \in HostRecord
                                 /\ FailClosed(conf, s, cur).disabled
                                 /\ FailClosed(conf, s, cur).profile = cur.profile
      /\ \A cur, h \in HostRecord :
            /\ CarriedOver(conf, s, cur, h) \in HostRecord
            /\ CarriedOver(conf, s, cur, h).profile = h.profile
            /\ CarriedOver(conf, s, cur, h).disabled = OperatorDisabled(conf, s, cur)
  BY <1>1, <1>2, HostsRendered
<1>9. \A n \in names : /\ n \in Name /\ want[n] \in HostRecord
                       /\ \E src \in r.got : /\ src.name = n /\ Resolves(conf, src)
                                             /\ want[n].profile = ResolveProfile(conf, src)
  <2> SUFFICES ASSUME NEW n \in names
               PROVE  /\ n \in Name /\ want[n] \in HostRecord
                      /\ \E src \in r.got : /\ src.name = n /\ Resolves(conf, src)
                                            /\ want[n].profile = ResolveProfile(conf, src)
    OBVIOUS
  <2> HIDE DEF want, names, of, conf, der
  <2>1. PICK src \in r.got : /\ of(n) = DeriveSource(conf, s, src)
                             /\ ~of(n).failed /\ of(n).name \in Name
    BY <1>4, <1>7
  <2>2. n \in Name /\ src.name = n
    BY <2>1, <1>7 DEF DeriveSource
  <2>3. want[n] = DerivedHost(conf, s, src) /\ Resolves(conf, src)
    <3>1. DeriveSource(conf, s, src).failed =
             (~Resolves(conf, src) \/ DeriveDomains(conf, src) = {} \/ ~UpstreamKnown(conf, src))
      BY DEF DeriveSource
    <3>2. DeriveSource(conf, s, src).host = DerivedHost(conf, s, src)
      BY DEF DeriveSource
    <3> QED
      BY <2>1, <1>6, <3>1, <3>2
  <2>4. DerivedHost(conf, s, src).profile = ResolveProfile(conf, src)
    BY DEF DerivedHost
  <2> QED
    BY <2>2, <2>3, <2>4, <1>8
<1>10. \A n \in mine : cfg[n] \in HostRecord
  BY <1>3 DEF Managed
<1>11. \A n \in doomed : n \notin names /\ n \notin der.protected
  OBVIOUS
<1>12. closed \subseteq mine \cap der.unknown /\ placed \subseteq names /\ mine \subseteq Name
  OBVIOUS
<1>13. \A n : n \in names => put(n) = IF cfg[n] = NoHost THEN want[n] ELSE CarriedOver(conf, s, cfg[n], want[n])
  OBVIOUS
<1>14. \A n : off(n) = FailClosed(conf, s, cfg[n])
  OBVIOUS
<1>15. names = {it.name : it \in der.desired}
  OBVIOUS
<1> HIDE DEF names, of, want, mine, doomed, closed, placed, put, off, plan, der
<1>a. ASSUME NEW n \in plan.deletes, n \in Name, NEW src \in r.got, src.name = n
      PROVE  FALSE
  BY <1>a, <1>4, <1>5, <1>11, <1>15
<1>b. ASSUME NEW n \in closed
      PROVE  /\ n \in Name /\ off(n) \in HostRecord
             /\ SwitchedOff(r, n, off(n))
  BY <1>b, <1>4, <1>8, <1>10, <1>12, <1>14 DEF SwitchedOff
<1>c. ASSUME NEW n \in placed
      PROVE  /\ n \in Name /\ put(n) \in HostRecord
             /\ FromProfile(r, n, put(n))
             /\ cfg[n] # NoHost /\ OperatorDisabled(conf, s, cfg[n]) => put(n).disabled
  <2>1. n \in names
    BY <1>c, <1>12
  <2>2. /\ n \in Name /\ want[n] \in HostRecord
        /\ \E src \in r.got : /\ src.name = n /\ Resolves(conf, src)
                              /\ want[n].profile = ResolveProfile(conf, src)
    BY <2>1, <1>9
  <2>3. put(n) \in HostRecord /\ put(n).profile = want[n].profile
    BY <2>1, <2>2, <1>3, <1>8, <1>13
  <2>4. cfg[n] # NoHost => put(n).disabled = OperatorDisabled(conf, s, cfg[n])
    BY <2>1, <2>2, <1>3, <1>8, <1>13
  <2> QED
    BY <2>2, <2>3, <2>4 DEF FromProfile
<1>d. ASSUME NEW p \in plan.puts
      PROVE  /\ p[1] \in Name /\ p[2] \in HostRecord
             /\ \/ /\ FromProfile(r, p[1], p[2])
                   /\ r.cfg[p[1]] # NoHost /\ OperatorDisabled(r.conf, s, r.cfg[p[1]])
                         => p[2].disabled
                \/ SwitchedOff(r, p[1], p[2])
  <2>1. \/ \E n \in placed : p = <<n, put(n)>>
        \/ \E n \in closed : p = <<n, off(n)>>
    BY <1>5, <1>d
  <2> QED
    BY <2>1, <1>b, <1>c
<1> QED
  BY <1>a, <1>d DEF plan

\* Merging an honest plan changes hosts as HonestAbout allows.
LEMMA MergeIsHonest ==
    ASSUME NEW s \in Sub, NEW r, Snapshot(s, r), r.pc = "apply", hosts \in HostMap
    PROVE  LET merged == Merged(s, Plan(r.conf, s, r.cfg, r.got)) IN
           /\ merged \in HostMap
           /\ \A n \in Name : merged[n] # hosts[n] =>
                /\ hosts[n] # NoHost => <<Default, "managed", s>> \in hosts[n].labels
                /\ merged[n] = NoHost => ~\E src \in r.got : src.name = n
                /\ merged[n] # NoHost =>
                      \/ /\ FromProfile(r, n, merged[n])
                         /\ r.cfg[n] # NoHost /\ OperatorDisabled(r.conf, s, r.cfg[n])
                               => merged[n].disabled
                      \/ SwitchedOff(r, n, merged[n])
<1> DEFINE plan == Plan(r.conf, s, r.cfg, r.got)
           merged == Merged(s, plan)
           put(n) == CHOOSE p \in plan.puts : p[1] = n
<1>1. /\ \A n \in plan.deletes : n \in Name => ~\E src \in r.got : src.name = n
      /\ \A p \in plan.puts :
            /\ p[1] \in Name /\ p[2] \in HostRecord
            /\ \/ /\ FromProfile(r, p[1], p[2])
                  /\ r.cfg[p[1]] # NoHost /\ OperatorDisabled(r.conf, s, r.cfg[p[1]])
                        => p[2].disabled
               \/ SwitchedOff(r, p[1], p[2])
  BY PlanIsHonest
<1>2. NoHost \notin HostRecord
  BY DiscoveryAssumption DEF DiscoveryAssumption
<1>3. \A n : (\E p \in plan.puts : p[1] = n) => put(n) \in plan.puts /\ put(n)[1] = n
  OBVIOUS
<1>4. merged = [n \in Name |->
                  IF ~Guard(s, n) THEN hosts[n]
                  ELSE IF n \in plan.deletes THEN NoHost
                  ELSE IF \E p \in plan.puts : p[1] = n THEN put(n)[2] ELSE hosts[n]]
  BY DEF Merged
<1> HIDE DEF plan, put, merged
<1>5. ASSUME NEW n \in Name
      PROVE  \/ merged[n] = hosts[n]
             \/ Guard(s, n) /\ n \in plan.deletes /\ merged[n] = NoHost
             \/ Guard(s, n) /\ \E p \in plan.puts : p[1] = n /\ merged[n] = p[2]
  BY <1>3, <1>4
<1>6. merged \in HostMap
  <2>1. \A n \in Name : merged[n] \in HostRecord \cup {NoHost}
    BY <1>1, <1>5 DEF HostMap
  <2> QED
    BY <2>1, <1>4 DEF HostMap
<1>7. ASSUME NEW n \in Name, merged[n] # hosts[n]
      PROVE  /\ hosts[n] # NoHost => <<Default, "managed", s>> \in hosts[n].labels
             /\ merged[n] = NoHost => ~\E src \in r.got : src.name = n
             /\ merged[n] # NoHost =>
                   \/ /\ FromProfile(r, n, merged[n])
                      /\ r.cfg[n] # NoHost /\ OperatorDisabled(r.conf, s, r.cfg[n])
                            => merged[n].disabled
                   \/ SwitchedOff(r, n, merged[n])
  <2>1. Guard(s, n)
    BY <1>5, <1>7
  <2>2. hosts[n] # NoHost => <<Default, "managed", s>> \in hosts[n].labels
    BY <2>1 DEF Guard
  <2>3. CASE n \in plan.deletes /\ merged[n] = NoHost
    BY <2>2, <2>3, <1>1
  <2>4. CASE \E p \in plan.puts : p[1] = n /\ merged[n] = p[2]
    <3>1. PICK p \in plan.puts : p[1] = n /\ merged[n] = p[2]
      BY <2>4
    <3> QED
      BY <2>2, <3>1, <1>1, <1>2
  <2> QED
    BY <2>3, <2>4, <1>5, <1>7
<1> QED
  BY <1>6, <1>7 DEF merged, plan

\* Every step keeps a reconcile's list and its snapshot together.
LEMMA DiscoveryInvNext ==
    ASSUME DiscoveryInv, [DiscoveryNext]_discoveryVars
    PROVE  DiscoveryInv'
<1>0. \A s \in Sub : Reconciling(s, Waiting) /\ Reconciling(s, [pc |-> "load"])
  BY DEF Reconciling
<1>1. ASSUME NEW s \in Sub, Poll(s) PROVE DiscoveryInv'
  BY <1>0, <1>1 DEF Poll, DiscoveryInv, Reconciling, Snapshot
<1>2. ASSUME NEW s \in Sub, Load(s) PROVE DiscoveryInv'
  <2> DEFINE new == [pc |-> "list", conf |-> Resolved(settings, s), cfg |-> hosts,
                     rest |-> cluster[s], got |-> {}, seen |-> cluster[s]]
  <2>1. Snapshot(s, new)
    BY DEF Snapshot, ReconcileFields, DiscoveryInv
  <2>2. run' = [run EXCEPT ![s] = new] \/ run' = [run EXCEPT ![s] = Waiting]
    BY <1>2 DEF Load
  <2>3. UNCHANGED <<hosts, settings, cluster>>
    BY <1>2 DEF Load
  <2> HIDE DEF new
  <2>4. \A t \in Sub : Reconciling(t, run'[t])
    BY <2>1, <2>2, <1>0 DEF DiscoveryInv, Reconciling
  <2> QED
    BY <2>2, <2>3, <2>4 DEF DiscoveryInv
<1>3. ASSUME NEW s \in Sub, Freeze(s), UNCHANGED <<hosts, settings, cluster>> PROVE DiscoveryInv'
  <2>1. run' = [run EXCEPT ![s] = Waiting]
    BY <1>3 DEF Freeze
  <2>2. \A t \in Sub : Reconciling(t, run'[t])
    BY <2>1, <1>0 DEF DiscoveryInv
  <2> QED
    BY <2>1, <2>2, <1>3 DEF DiscoveryInv
<1>4. ASSUME NEW s \in Sub, ListPage(s) PROVE DiscoveryInv'
  <2> DEFINE r == run[s]
  <2>1. r.pc = "list" /\ Snapshot(s, r)
    BY <1>4 DEF ListPage, DiscoveryInv, Reconciling, Waiting
  <2>2. UNCHANGED <<hosts, settings, cluster>>
    BY <1>4 DEF ListPage
  <2>3. PICK page \in SUBSET r.rest :
           Freeze(s) \/ run' = [run EXCEPT ![s] = WithPage(r, page)]
    <3>1. PICK page \in Pages(s, r.rest) :
             IF Cardinality(r.got \cup page) > MaxItems
             THEN Freeze(s)
             ELSE run' = [run EXCEPT ![s] = WithPage(r, page)] /\ UNCHANGED frozen
      BY <1>4 DEF ListPage
    <3>2. page \in SUBSET r.rest
      BY DEF Pages, kSubset
    <3> QED
      BY <3>1, <3>2
  <2>4. Snapshot(s, WithPage(r, page))
    BY <2>1 DEF Snapshot, ReconcileFields, WithPage
  <2>5. CASE Freeze(s)
    BY <1>3, <2>2, <2>5
  <2>6. CASE run' = [run EXCEPT ![s] = WithPage(r, page)]
    <3>1. \A t \in Sub : Reconciling(t, run'[t])
      BY <2>4, <2>6 DEF DiscoveryInv, Reconciling
    <3> QED
      BY <2>2, <2>6, <3>1 DEF DiscoveryInv
  <2> QED
    BY <2>3, <2>5, <2>6
<1>5. ASSUME NEW s \in Sub, ListFails(s) PROVE DiscoveryInv'
  BY <1>3, <1>5 DEF ListFails
<1>6. ASSUME NEW s \in Sub, Apply(s) PROVE DiscoveryInv'
  <2> DEFINE r == run[s]
             merged == Merged(s, Plan(r.conf, s, r.cfg, r.got))
  <2>1. r.pc = "apply" /\ Snapshot(s, r)
    BY <1>6 DEF Apply, DiscoveryInv, Reconciling, Waiting
  <2>2. merged \in HostMap
    BY <2>1, MergeIsHonest DEF DiscoveryInv
  <2>3. hosts' \in HostMap /\ run' = [run EXCEPT ![s] = Waiting] /\ UNCHANGED <<settings, cluster>>
    BY <1>6, <2>2 DEF Apply, Freeze, DiscoveryInv
  <2>4. \A t \in Sub : Reconciling(t, run'[t])
    BY <2>3, <1>0 DEF DiscoveryInv
  <2> QED
    BY <2>3, <2>4 DEF DiscoveryInv
<1>7. ASSUME NEW s \in Sub, NEW srcs \in Source[s], ClusterChanges(s, srcs) PROVE DiscoveryInv'
  BY <1>7 DEF ClusterChanges, DiscoveryInv
<1>8. ASSUME NEW set \in Settings, SaveSettings(set) PROVE DiscoveryInv'
  BY <1>8 DEF SaveSettings, DiscoveryInv
<1>9. ASSUME NEW w \in OperatorHost, OperatorWrites(w[1], w[2]) PROVE DiscoveryInv'
  <2>1. w[1] \in Name /\ w[2] \subseteq Domain
    BY DiscoveryAssumption DEF DiscoveryAssumption
  <2>2. [labels |-> {}, domains |-> w[2], profile |-> "operator",
         disabled |-> FALSE, maintenance |-> FALSE] \in HostRecord
    BY <2>1 DEF HostRecord
  <2> QED
    BY <1>9, <2>1, <2>2 DEF OperatorWrites, DiscoveryInv, HostMap
<1>10. ASSUME NEW n \in Name, OperatorDisables(n) PROVE DiscoveryInv'
  <2>1. hosts[n] \in HostRecord
    BY <1>10 DEF OperatorDisables, DiscoveryInv, HostMap
  <2>2. [hosts[n] EXCEPT !.disabled = TRUE] \in HostRecord
    BY <2>1 DEF HostRecord
  <2> QED
    BY <1>10, <2>2 DEF OperatorDisables, DiscoveryInv, HostMap
<1>11. ASSUME NEW n \in Name, OperatorDeletes(n) PROVE DiscoveryInv'
  BY <1>11 DEF OperatorDeletes, DiscoveryInv, HostMap
<1>12. CASE UNCHANGED discoveryVars
  BY <1>12 DEF discoveryVars, DiscoveryInv
<1> QED
  BY <1>1, <1>2, <1>4, <1>5, <1>6, <1>7, <1>8, <1>9, <1>10, <1>11, <1>12 DEF DiscoveryNext

\* It holds throughout.
LEMMA DiscoveryThroughout == DiscoverySpec => []DiscoveryInv
<1>1. DiscoveryInit => DiscoveryInv
  BY DEF DiscoveryInit, DiscoveryInv, HostMap, Reconciling
<1> QED
  BY <1>1, DiscoveryInvNext, PTL DEF DiscoverySpec

\* A reconcile touches only hosts it owns, deletes only what no source of the
\* complete list names, writes only what a source's profile resolves to or
\* switches the host off, and never re-enables what the operator had disabled
\* before it began: for any sources, settings, pages and failures, and whatever
\* the operator and the other reconciler do while it runs.
THEOREM ReconcilesAreHonest == DiscoverySpec => ReconcileHonest
<1>1. DiscoveryInv /\ [DiscoveryNext]_discoveryVars =>
        [\A s \in Sub : run[s].pc = "apply" /\ run'[s].pc = "wait" =>
             \A n \in Name : HonestAbout(s, n)]_discoveryVars
  <2> SUFFICES ASSUME DiscoveryInv, DiscoveryNext, NEW s \in Sub,
                      run[s].pc = "apply", run'[s].pc = "wait", NEW n \in Name
               PROVE  HonestAbout(s, n)
    OBVIOUS
  <2>0. CASE hosts'[n] = hosts[n]
    BY <2>0 DEF HonestAbout
  <2> DEFINE r == run[s]
             merged == Merged(s, Plan(r.conf, s, r.cfg, r.got))
  <2>1. Snapshot(s, r) /\ r.got = r.seen
    <3>1. Snapshot(s, r)
      BY DEF DiscoveryInv, Reconciling, Waiting
    <3> QED
      BY <3>1 DEF Snapshot
  <2>2. Apply(s)
    <3>1. DOMAIN run = Sub /\ run'[s] # run[s]
      BY DEF DiscoveryInv
    <3>2. ASSUME NEW t \in Sub, Poll(t) \/ Load(t) \/ ListPage(t) \/ ListFails(t) PROVE FALSE
      <4>1. run[t].pc \in {"wait", "load", "list"}
        BY <3>2 DEF Poll, Load, ListPage, ListFails, Waiting
      <4>2. \A v \in Sub \ {t} : run'[v] = run[v]
        BY <3>2, <3>1 DEF Poll, Load, ListPage, ListFails, Freeze
      <4> QED
        BY <4>1, <4>2, <3>1
    <3>3. ASSUME NEW t \in Sub, Apply(t) PROVE t = s
      BY <3>3, <3>1 DEF Apply, Freeze
    <3>4. ~UNCHANGED run
      BY <3>1
    <3> QED
      BY <3>2, <3>3, <3>4 DEF DiscoveryNext, ClusterChanges, SaveSettings, OperatorWrites,
                              OperatorDisables, OperatorDeletes
  <2>a. SUFFICES ASSUME hosts'[n] # hosts[n] PROVE HonestAbout(s, n)
    BY <2>0
  <2>3. hosts' = merged
    BY <2>2, <2>a DEF Apply
  <2>4. /\ hosts[n] # NoHost => <<Default, "managed", s>> \in hosts[n].labels
        /\ merged[n] = NoHost => ~\E src \in r.got : src.name = n
        /\ merged[n] # NoHost =>
              \/ /\ FromProfile(r, n, merged[n])
                 /\ r.cfg[n] # NoHost /\ OperatorDisabled(r.conf, s, r.cfg[n])
                       => merged[n].disabled
              \/ SwitchedOff(r, n, merged[n])
    BY <2>1, <2>3, <2>a, MergeIsHonest DEF DiscoveryInv
  <2>5. hosts[n] # NoHost =>
           \E p \in {l[1] : l \in hosts[n].labels} : <<p, "managed", s>> \in hosts[n].labels
    <3>1. <<Default, "managed", s>>[1] = Default
      OBVIOUS
    <3>2. hosts[n] # NoHost => Default \in {l[1] : l \in hosts[n].labels}
      BY <2>4, <3>1
    <3> QED
      BY <2>4, <3>2
  <2> HIDE DEF merged
  <2> QED
    BY <2>1, <2>3, <2>4, <2>5 DEF HonestAbout, FromProfile, SwitchedOff
<1> QED
  BY <1>1, DiscoveryThroughout, PTL DEF DiscoverySpec, ReconcileHonest

=============================================================================
