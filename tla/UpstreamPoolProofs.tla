------------------------- MODULE UpstreamPoolProofs -------------------------
(***************************************************************************)
(* Proofs about UpstreamPool, for any number of upstreams, clients and     *)
(* groupHealth states, any workload and any thresholds: a state that is in *)
(* use is never reused, a request is refused only by all, the transport    *)
(* implements RequestOnce, and the counters the policies go by are exact.  *)
(***************************************************************************)
EXTENDS UpstreamPool, FiniteSetTheorems, SequenceTheorems, WellFoundedInduction, TLAPS

\* The groups a workload may configure.
Offered == {s \in UNION {m.specs : m \in Mixes} : s # None}

Fields == {"spec", "healthy", "ok", "bad", "active", "rr", "stop", "probe"}

\* A groupHealth state; its prober leaves only when it was told to.
Proper(g) ==
    /\ DOMAIN g = Fields
    /\ g.spec \in Offered /\ g.probe \in Int /\ g.stop \in BOOLEAN
    /\ g.probe = Gone => g.stop

\* A state whose prober was started: one that was committed.
Live(i) == i \in DOMAIN inst /\ inst[i].probe # Off

\* What the reload protocol keeps: the running state, the published one and
\* the one a reload is about to publish are there, and unless the process is
\* going down nobody stopped the first and the last.
Protocol ==
    /\ cur \in Inst \cup {0} /\ router \in Inst \cup {0} /\ down \in BOOLEAN
    /\ stage \in [pc : {"none", "build", "swap"}, next : Inst \cup {0}]
    /\ cur # 0 => Live(cur) /\ (~down => ~inst[cur].stop)
    /\ router # 0 => Live(router)
    /\ stage.pc = "build" /\ stage.next # 0 =>
           stage.next \in DOMAIN inst /\ (~down => ~inst[stage.next].stop)
    /\ stage.pc = "swap" /\ stage.next # 0 => Live(stage.next)

States ==
    /\ mix \in Mixes
    /\ DOMAIN inst \subseteq Inst
    /\ \A i \in DOMAIN inst : Proper(inst[i])

Phase == {"idle", "pick", "pin", "try", "dial", "body", "gone", "refused"}

Request == [pc : Phase, g : Inst \cup {0}, cands : Seq(Upstream),
            pinned : Upstream \cup {None}, big : BOOLEAN, tried : SUBSET Upstream]

Members(q) == ToSet(inst[q.g].spec.ups)

\* A request under way holds a committed state, what it has tried and what it
\* still will is its whole group, and it is on no wire before it is sent.
Asking(r) ==
    LET q == rq[r] IN
    /\ q.pc # "idle" => Live(q.g)
    /\ q.pc \in {"idle", "pick", "pin"} => q.tried = {}
    /\ q.pc = "pin" => q.cands # <<>> /\ ToSet(q.cands) = Members(q)
    /\ q.pc \in {"try", "dial", "body"} =>
           /\ q.cands # <<>>
           /\ ~q.big => q.tried \cup ToSet(q.cands) = Members(q)
    /\ q.pc = "refused" /\ ~q.big => q.tried = Members(q)
    /\ q.pc \notin {"body", "gone"} => wire[r] = {}

Requests ==
    /\ rq \in [Req -> Request] /\ wire \in [Req -> SUBSET Upstream]
    /\ cookie \in [Req -> Upstream \cup {None}]
    /\ \A r \in Req : Asking(r)

PoolInv == States /\ Protocol /\ Requests

----------------------------------------------------------------------------
(* The operators.                                                          *)

\* A report changes the health and the two counts, nothing else.
LEMMA ReportFields ==
    ASSUME NEW g, DOMAIN g = Fields, NEW u,
           NEW h \in {ReportSuccess(g, u), ReportFailure(g, u)}
    PROVE  /\ DOMAIN h = Fields /\ h.spec = g.spec /\ h.probe = g.probe
           /\ h.stop = g.stop /\ h.active = g.active /\ h.rr = g.rr
<1>1. CASE h = ReportSuccess(g, u)
  BY <1>1 DEF ReportSuccess, Fields
<1>2. CASE h = ReportFailure(g, u)
  BY <1>2 DEF ReportFailure, Fields
<1>3. QED
  BY <1>1, <1>2

\* A round-robin turn changes the running weights, nothing else.
LEMMA ChargedFields ==
    ASSUME NEW g, DOMAIN g = Fields
    PROVE  /\ DOMAIN Charged(g) = Fields /\ Charged(g).spec = g.spec
           /\ Charged(g).probe = g.probe /\ Charged(g).stop = g.stop
           /\ Charged(g).active = g.active
<1>1. PICK x : Charged(g) = g \/ Charged(g) = [g EXCEPT !.rr = x]
  BY DEF Charged
<1>2. QED
  BY <1>1 DEF Fields

\* An empty list has no members.
LEMMA NothingInEmpty == ToSet(<<>>) = {}
BY DEF ToSet

\* What the assumption says of an offered group.
LEMMA OfferedGroup ==
    ASSUME NEW s \in Offered
    PROVE  /\ s.ups \in Seq(Upstream) /\ s.ups # <<>>
           /\ ToSet(s.ups) \subseteq Upstream /\ ToSet(s.ups) # {}
<1>1. s.ups \in Seq(Upstream) /\ s.ups # <<>>
  BY PoolAssumption DEF Offered
<1>2. DOMAIN s.ups = 1..Len(s.ups) /\ Len(s.ups) \in Nat /\ Len(s.ups) >= 1
  BY <1>1, LenProperties, EmptySeq
<1>3. \A i \in 1..Len(s.ups) : s.ups[i] \in Upstream
  BY <1>1, ElementOfSeq
<1>4. ToSet(s.ups) = {s.ups[i] : i \in 1..Len(s.ups)}
  BY <1>2 DEF ToSet
<1>5. 1 \in 1..Len(s.ups)
  BY <1>2
<1>6. QED
  BY <1>1, <1>3, <1>4, <1>5, Zenon

\* The candidates are the group, in some order.
LEMMA CandidatesAll ==
    ASSUME NEW g, g.spec \in Offered, NEW r, NEW s \in Candidates(g, r)
    PROVE  s \in Seq(Upstream) /\ s # <<>> /\ ToSet(s) = ToSet(g.spec.ups)
<1> DEFINE S == ToSet(g.spec.ups)
<1>1. S \subseteq Upstream /\ S # {}
  BY OfferedGroup
<1>2. Cardinality(S) \in Nat
  BY <1>1, PoolAssumption, FS_Subset, FS_CardinalityType
<1>3. s \in [1..Cardinality(S) -> S] /\ ToSet(s) = S
  BY DEF Candidates, Ranked
<1> HIDE DEF S
<1>4. s \in Seq(Upstream)
  BY <1>1, <1>2, <1>3
<1>5. s # <<>>
  BY <1>1, <1>3, NothingInEmpty
<1>6. QED
  BY <1>3, <1>4, <1>5 DEF S

\* promote only reorders.
LEMMA PromoteAll ==
    ASSUME NEW s \in Seq(Upstream), s # <<>>, NEW u
    PROVE  Promote(s, u) \in Seq(Upstream) /\ Promote(s, u) # <<>> /\ ToSet(Promote(s, u)) = ToSet(s)
<1>1. CASE u \notin ToSet(s)
  BY <1>1 DEF Promote
<1>2. CASE u \in ToSet(s)
  <2> DEFINE k == Pos(s, u)
             t == [i \in 1..Len(s) |-> IF i = 1 THEN u ELSE IF i <= k THEN s[i - 1] ELSE s[i]]
  <2>1. Len(s) \in Nat /\ DOMAIN s = 1..Len(s) /\ Len(s) >= 1
    BY LenProperties, EmptySeq
  <2>2. k \in 1..Len(s) /\ s[k] = u
    BY <1>2, <2>1 DEF Pos, ToSet
  <2>3. Promote(s, u) = t
    BY <1>2, <2>1 DEF Promote
  <2> HIDE DEF k
  <2>4. \A i \in 1..Len(s) : t[i] \in Upstream
    BY <2>1, <2>2
  <2>5. t \in Seq(Upstream) /\ DOMAIN t = 1..Len(s)
    BY <2>1, <2>4
  <2>6. t # <<>>
    BY <2>1, <2>5
  <2>7. ASSUME NEW x \in ToSet(t) PROVE x \in ToSet(s)
    <3>1. PICK i \in 1..Len(s) : x = t[i]
      BY <2>5, <2>7 DEF ToSet
    <3>2. PICK j \in 1..Len(s) : x = s[j]
      BY <2>1, <2>2, <3>1
    <3>3. QED
      BY <2>1, <3>2 DEF ToSet
  <2>8. ASSUME NEW x \in ToSet(s) PROVE x \in ToSet(t)
    <3>1. PICK i \in 1..Len(s) : x = s[i]
      BY <2>1, <2>8 DEF ToSet
    <3>2. \E j \in 1..Len(s) : x = t[j]
      <4>1. CASE i < k
        <5>1. i + 1 \in 1..Len(s) /\ i + 1 # 1 /\ i + 1 <= k /\ (i + 1) - 1 = i
          BY <2>1, <2>2, <3>1, <4>1
        <5>2. t[i + 1] = s[i]
          BY <5>1
        <5>3. QED
          BY <3>1, <5>1, <5>2
      <4>2. CASE i = k
        BY <2>1, <2>2, <3>1, <4>2
      <4>3. CASE i > k
        BY <2>1, <2>2, <3>1, <4>3
      <4>4. QED
        BY <2>2, <4>1, <4>2, <4>3
    <3>3. QED
      BY <2>5, <3>2 DEF ToSet
  <2>9. QED
    BY <2>3, <2>5, <2>6, <2>7, <2>8
<1>3. QED
  BY <1>1, <1>2

\* The first candidate and the rest are the candidates.
LEMMA HeadAndTail ==
    ASSUME NEW s \in Seq(Upstream), s # <<>>
    PROVE  /\ Head(s) \in Upstream /\ Head(s) = s[1] /\ Tail(s) \in Seq(Upstream)
           /\ ToSet(s) = {Head(s)} \cup ToSet(Tail(s))
           /\ Len(s) = 1 => Tail(s) = <<>> /\ ToSet(s) = {Head(s)}
           /\ Len(s) # 1 => Tail(s) # <<>>
<1>1. Len(s) \in Nat /\ Len(s) >= 1 /\ DOMAIN s = 1..Len(s)
  BY LenProperties, EmptySeq
<1>2. /\ Head(s) = s[1] /\ Tail(s) \in Seq(Upstream) /\ Len(Tail(s)) = Len(s) - 1
      /\ \A i \in 1..(Len(s) - 1) : Tail(s)[i] = s[i + 1]
      /\ DOMAIN Tail(s) = 1..(Len(s) - 1)
  BY <1>1
<1>3. ASSUME NEW x \in ToSet(s) PROVE x \in {Head(s)} \cup ToSet(Tail(s))
  <2>1. PICK i \in 1..Len(s) : x = s[i]
    BY <1>1, <1>3 DEF ToSet
  <2>2. CASE i = 1
    BY <1>2, <2>1, <2>2
  <2>3. CASE i # 1
    <3>1. i - 1 \in 1..(Len(s) - 1) /\ Tail(s)[i - 1] = s[i]
      BY <1>1, <1>2, <2>1, <2>3
    <3>2. QED
      BY <1>2, <2>1, <3>1 DEF ToSet
  <2>4. QED
    BY <2>2, <2>3
<1>4. ASSUME NEW x \in {Head(s)} \cup ToSet(Tail(s)) PROVE x \in ToSet(s)
  <2>1. CASE x = Head(s)
    BY <1>1, <1>2, <2>1 DEF ToSet
  <2>2. CASE x \in ToSet(Tail(s))
    <3>1. PICK i \in 1..(Len(s) - 1) : x = Tail(s)[i]
      BY <1>2, <2>2 DEF ToSet
    <3>2. i + 1 \in 1..Len(s) /\ x = s[i + 1]
      BY <1>1, <1>2, <3>1
    <3>3. QED
      BY <1>1, <3>2 DEF ToSet
  <2>3. QED
    BY <1>4, <2>1, <2>2
<1>5. Head(s) \in Upstream
  BY <1>1, <1>2
<1>6. ToSet(s) = {Head(s)} \cup ToSet(Tail(s))
  BY <1>3, <1>4
<1>7. ASSUME Len(s) = 1 PROVE Tail(s) = <<>> /\ ToSet(s) = {Head(s)}
  <2>1. Tail(s) = <<>>
    BY <1>1, <1>2, <1>7, EmptySeq
  <2>2. ToSet(Tail(s)) = {}
    BY <1>2, <1>7 DEF ToSet
  <2>3. QED
    BY <1>6, <2>1, <2>2
<1>8. ASSUME Tail(s) = <<>> PROVE Len(s) = 1
  <2>1. 1..(Len(s) - 1) = {}
    <3>1. DOMAIN Tail(s) = 1..(Len(s) - 1)
      BY <1>2
    <3>2. DOMAIN <<>> = {}
      OBVIOUS
    <3>3. QED
      BY <1>8, <3>1, <3>2, Zenon
  <2>2. PICK n \in Nat : n = Len(s)
    BY <1>1
  <2>3. n >= 1 /\ 1..(n - 1) = {}
    BY <1>1, <2>1, <2>2
  <2>4. n = 1
    BY <2>3
  <2>5. QED
    BY <2>2, <2>4
<1>9. QED
  BY <1>2, <1>5, <1>6, <1>7, <1>8

----------------------------------------------------------------------------
(* States are kept as long as they are referred to.                        *)

\* A step that keeps the committed states and their groups.
Kept == \A i \in DOMAIN inst : Live(i) => Live(i)' /\ inst'[i].spec = inst[i].spec

\* Such a step does not touch a request it is not about.
LEMMA Bystander ==
    ASSUME Kept, NEW r \in Req, Asking(r), rq'[r] = rq[r], wire'[r] = wire[r]
    PROVE  Asking(r)'
<1>1. ASSUME rq[r].pc # "idle" PROVE Live(rq[r].g)' /\ Members(rq[r])' = Members(rq[r])
  <2>1. Live(rq[r].g)
    BY <1>1 DEF Asking
  <2>2. Live(rq[r].g)' /\ inst'[rq[r].g].spec = inst[rq[r].g].spec
    BY <2>1 DEF Kept, Live
  <2>3. QED
    BY <2>2 DEF Members
<1>2. QED
  BY <1>1 DEF Asking, Members

\* One state is updated, its group, its stop channel and its prober's start kept.
LEMMA Touch ==
    ASSUME States, Protocol, NEW i \in DOMAIN inst, NEW h,
           inst' = [inst EXCEPT ![i] = h], Proper(h), h.spec = inst[i].spec,
           inst[i].probe # Off => h.probe # Off, h.stop = inst[i].stop,
           UNCHANGED <<mix, cur, router, stage, down>>
    PROVE  States' /\ Protocol' /\ Kept
<1>1. /\ DOMAIN inst' = DOMAIN inst /\ inst'[i] = h
      /\ \A j \in DOMAIN inst : j # i => inst'[j] = inst[j]
  OBVIOUS
<1>2. States'
  BY <1>1 DEF States, Proper
<1>3. \A j \in DOMAIN inst : inst'[j].stop = inst[j].stop /\ inst'[j].spec = inst[j].spec
  BY <1>1
<1>4. \A j : Live(j) => Live(j)'
  BY <1>1 DEF Live
<1>5. Kept
  BY <1>3, <1>4 DEF Kept
<1>6. Protocol'
  BY <1>1, <1>3, <1>4 DEF Protocol, Live
<1>7. QED
  BY <1>2, <1>5, <1>6

\* A step that leaves the states alone keeps them.
LEMMA Untouched ==
    ASSUME States, Protocol, UNCHANGED <<inst, mix, cur, router, stage, down>>
    PROVE  States' /\ Protocol' /\ Kept
<1>1. Kept
  BY DEF Kept, Live
<1>2. States'
  BY DEF States, Proper
<1>3. Protocol'
  BY DEF Protocol, Live
<1>4. QED
  BY <1>1, <1>2, <1>3

\* What a reload needs of a request: one step of PoolInv with requests left alone.
LEMMA RequestsKept ==
    ASSUME Requests, Kept, UNCHANGED <<rq, wire, cookie>>
    PROVE  Requests'
<1>1. \A r \in Req : Asking(r)'
  BY Bystander DEF Requests
<1>2. QED
  BY <1>1 DEF Requests

\* The probers.
LEMMA ProbeInv ==
    ASSUME PoolInv, NEW i \in Inst, ProbeOne(i) \/ ProbeWait(i)
    PROVE  PoolInv'
<1>1. /\ States /\ Protocol /\ Requests /\ i \in DOMAIN inst
      /\ UNCHANGED <<mix, cur, router, stage, down, rq, wire, cookie>>
  BY DEF PoolInv, ProbeOne, ProbeWait
<1> DEFINE g == inst[i]
<1>2. Proper(g)
  BY <1>1 DEF States
<1>3. PICK h : /\ inst' = [inst EXCEPT ![i] = h] /\ Proper(h) /\ h.spec = g.spec
               /\ g.probe # Off /\ h.probe # Off /\ h.stop = g.stop
  <2>1. CASE ProbeOne(i)
    <3>1. PICK k \in {ReportSuccess(g, g.spec.ups[g.probe]), ReportFailure(g, g.spec.ups[g.probe])},
               p \in {g.probe + 1, Waiting} : inst' = [inst EXCEPT ![i] = [k EXCEPT !.probe = p]]
      BY <2>1 DEF ProbeOne
    <3>2. /\ DOMAIN k = Fields /\ k.spec = g.spec /\ k.stop = g.stop
      BY <1>2, <3>1, ReportFields DEF Proper
    <3>3. g.probe \in Int /\ g.probe > 0 /\ p \in Int /\ p >= 0
      BY <1>2, <2>1, <3>1 DEF ProbeOne, Proper, Waiting
    <3> DEFINE h == [k EXCEPT !.probe = p]
    <3>4. DOMAIN h = Fields /\ h.spec = g.spec /\ h.stop = g.stop /\ h.probe = p
      BY <3>2 DEF Fields
    <3> HIDE DEF h
    <3>5. Proper(h)
      BY <1>2, <3>3, <3>4 DEF Proper, Gone
    <3>6. inst' = [inst EXCEPT ![i] = h]
      BY <3>1 DEF h
    <3>7. g.probe # Off /\ h.probe # Off
      BY <3>3, <3>4 DEF Off
    <3>8. QED
      BY <3>4, <3>5, <3>6, <3>7, Zenon
  <2>2. CASE ProbeWait(i)
    <3>1. PICK p \in {1, Gone} : /\ inst' = [inst EXCEPT ![i] = [g EXCEPT !.probe = p]]
                                 /\ p = Gone => g.stop
      BY <2>2 DEF ProbeWait, Gone
    <3>2. g.probe = Waiting
      BY <2>2 DEF ProbeWait
    <3> DEFINE h == [g EXCEPT !.probe = p]
    <3>3. DOMAIN h = Fields /\ h.spec = g.spec /\ h.stop = g.stop /\ h.probe = p
      BY <1>2 DEF Proper, Fields
    <3> HIDE DEF h
    <3>4. Proper(h)
      BY <1>2, <3>1, <3>3 DEF Proper, Gone
    <3>5. inst' = [inst EXCEPT ![i] = h]
      BY <3>1 DEF h
    <3>6. g.probe # Off /\ h.probe # Off
      BY <3>1, <3>2, <3>3 DEF Off, Waiting, Gone
    <3>7. QED
      BY <3>3, <3>4, <3>5, <3>6, Zenon
  <2>3. QED
    BY <2>1, <2>2
<1>4. States' /\ Protocol' /\ Kept
  BY <1>1, <1>3, Touch
<1>5. QED
  BY <1>1, <1>4, RequestsKept DEF PoolInv

----------------------------------------------------------------------------
(* The reload protocol.                                                    *)

\* stage reuses only a state nobody refers to.
LEMMA StageInv ==
    ASSUME PoolInv, NEW s \in mix.specs, Stage(s)
    PROVE  PoolInv'
<1>1. /\ States /\ Protocol /\ Requests /\ stage.pc = "none" /\ ~down
      /\ UNCHANGED <<mix, cur, router, down, rq, wire, cookie>>
  BY DEF PoolInv, Stage
<1>2. ASSUME UNCHANGED inst, NEW n \in {0, cur}, stage' = [pc |-> "build", next |-> n]
      PROVE  PoolInv'
  <2>1. States' /\ Kept
    BY <1>1, <1>2 DEF States, Proper, Kept, Live
  <2>2. stage' \in [pc : {"none", "build", "swap"}, next : Inst \cup {0}]
    BY <1>1, <1>2 DEF Protocol
  <2>3. stage'.pc = "build" /\ stage'.next = n
    BY <1>2
  <2>4. n # 0 => n \in DOMAIN inst /\ ~inst[n].stop
    BY <1>1, <1>2 DEF Protocol, Live
  <2>5. Protocol'
    BY <1>1, <1>2, <2>2, <2>3, <2>4 DEF Protocol, Live
  <2>6. QED
    BY <1>1, <2>1, <2>5, RequestsKept DEF PoolInv
<1>3. ASSUME s # None, Unmade # {},
             NEW n, n = (CHOOSE i \in Unmade : TRUE),
             stage' = [pc |-> "build", next |-> n],
             inst' = [i \in DOMAIN inst \cup {n} |->
                          IF i = n THEN NewGroupHealth(s) ELSE inst[i]]
      PROVE  PoolInv'
  <2>1. n \in Unmade
    BY <1>3
  <2>2. n \in Inst /\ (n \in DOMAIN inst => inst[n].probe = Gone)
    BY <2>1 DEF Unmade
  <2>3. n # cur
    BY <1>1, <2>2 DEF Protocol, Live, States, Proper, Inst
  <2>4. n # router
    BY <1>1, <2>1, <2>2 DEF Protocol, Live, Unmade, Inst
  <2>5. s \in Offered
    BY <1>1, <1>3 DEF Offered, States
  <2>6. /\ DOMAIN NewGroupHealth(s) = Fields /\ NewGroupHealth(s).spec = s
        /\ NewGroupHealth(s).probe = Off /\ ~NewGroupHealth(s).stop
        /\ NewGroupHealth(s).stop \in BOOLEAN
    BY DEF NewGroupHealth, Fields
  <2>7. Proper(NewGroupHealth(s))
    BY <2>5, <2>6 DEF Proper, Off, Gone
  <2>8. /\ DOMAIN inst' = DOMAIN inst \cup {n} /\ inst'[n] = NewGroupHealth(s)
        /\ \A i \in DOMAIN inst : i # n => inst'[i] = inst[i]
    BY <1>3
  <2>9. States'
    BY <1>1, <2>2, <2>7, <2>8 DEF States, Proper
  <2>10. Protocol'
    <3>1. stage' \in [pc : {"none", "build", "swap"}, next : Inst \cup {0}]
      BY <1>3, <2>2
    <3>2. stage'.pc = "build" /\ stage'.next = n
      BY <1>3
    <3>3. cur # 0 => Live(cur)' /\ inst'[cur] = inst[cur]
      BY <1>1, <2>3, <2>8 DEF Protocol, Live
    <3>4. router # 0 => Live(router)'
      BY <1>1, <2>4, <2>8 DEF Protocol, Live
    <3>5. QED
      BY <1>1, <2>6, <2>8, <3>1, <3>2, <3>3, <3>4 DEF Protocol
  <2>11. ASSUME NEW r \in Req PROVE Asking(r)'
    <3>1. ASSUME rq[r].pc # "idle"
          PROVE  Live(rq[r].g)' /\ Members(rq[r])' = Members(rq[r])
      <4>1. Live(rq[r].g)
        BY <1>1, <3>1 DEF Requests, Asking
      <4>2. rq[r].g # n
        BY <2>1, <2>2, <4>1 DEF Unmade, Live
      <4>3. QED
        BY <1>1, <2>8, <4>1, <4>2 DEF Live, Members
    <3>2. rq'[r] = rq[r] /\ wire'[r] = wire[r] /\ Asking(r)
      BY <1>1 DEF Requests
    <3>3. QED
      BY <3>1, <3>2 DEF Asking, Members
  <2>12. QED
    BY <1>1, <2>9, <2>10, <2>11 DEF PoolInv, Requests
<1>4. QED
  BY <1>2, <1>3 DEF Stage

\* A failed build drops a state nobody was given.
LEMMA BuildFailsInv ==
    ASSUME PoolInv, BuildFails
    PROVE  PoolInv'
<1>1. /\ States /\ Protocol /\ Requests
      /\ UNCHANGED <<mix, cur, router, down, rq, wire, cookie>>
      /\ stage' = [pc |-> "none", next |-> 0]
  BY DEF PoolInv, BuildFails
<1>2. /\ DOMAIN inst' \subseteq DOMAIN inst
      /\ \A i \in DOMAIN inst' : inst'[i] = inst[i]
      /\ \A i : Live(i) => i \in DOMAIN inst'
  BY DEF BuildFails, Restrict, Live
<1>3. Kept /\ \A i : Live(i) => Live(i)'
  BY <1>2 DEF Kept, Live
<1>4. States'
  BY <1>1, <1>2 DEF States, Proper
<1>5. Protocol'
  BY <1>1, <1>2, <1>3 DEF Protocol, Live
<1>6. QED
  BY <1>1, <1>3, <1>4, <1>5, RequestsKept DEF PoolInv

\* The committed state is the one the reload publishes next.
LEMMA CommitInv ==
    ASSUME PoolInv, Commit
    PROVE  PoolInv'
<1>1. /\ States /\ Protocol /\ Requests /\ stage.pc = "build"
      /\ UNCHANGED <<mix, router, down, rq, wire, cookie>> /\ cur' = stage.next
  BY DEF PoolInv, Commit
<1>2. stage'.pc = "swap" /\ stage'.next = stage.next
      /\ stage' \in [pc : {"none", "build", "swap"}, next : Inst \cup {0}]
  BY <1>1 DEF Commit, Protocol
<1>3. DOMAIN inst' = DOMAIN inst
  BY DEF Commit
<1>4. ASSUME NEW i \in DOMAIN inst
      PROVE  /\ Proper(inst'[i]) /\ inst'[i].spec = inst[i].spec
             /\ inst[i].probe # Off \/ i = stage.next => inst'[i].probe # Off
             /\ i = stage.next /\ ~inst[i].stop => ~inst'[i].stop
  <2>1. Proper(inst[i])
    BY <1>1 DEF States
  <2>2. CASE i = cur /\ i # stage.next
    <3>1. inst'[i] = [inst[i] EXCEPT !.stop = TRUE]
      BY <2>2 DEF Commit
    <3>2. /\ DOMAIN inst'[i] = Fields /\ inst'[i].spec = inst[i].spec
          /\ inst'[i].probe = inst[i].probe /\ inst'[i].stop = TRUE
      BY <2>1, <3>1 DEF Proper, Fields
    <3>3. QED
      BY <2>1, <2>2, <3>2 DEF Proper
  <2>3. CASE ~(i = cur /\ i # stage.next) /\ i = stage.next /\ inst[i].probe = Off
    <3>1. inst'[i] = [inst[i] EXCEPT !.probe = 1]
      BY <2>3 DEF Commit
    <3>2. /\ DOMAIN inst'[i] = Fields /\ inst'[i].spec = inst[i].spec
          /\ inst'[i].probe = 1 /\ inst'[i].stop = inst[i].stop
      BY <2>1, <3>1 DEF Proper, Fields
    <3>3. QED
      BY <2>1, <3>2 DEF Proper, Off, Gone
  <2>4. CASE ~(i = cur /\ i # stage.next) /\ ~(i = stage.next /\ inst[i].probe = Off)
    <3>1. inst'[i] = inst[i]
      BY <2>4 DEF Commit
    <3>2. QED
      BY <2>1, <2>4, <3>1
  <2>5. QED
    BY <2>2, <2>3, <2>4
<1>5. States'
  BY <1>1, <1>3, <1>4 DEF States, Proper
<1>6. Kept /\ \A i : Live(i) => Live(i)'
  BY <1>3, <1>4 DEF Kept, Live
<1>7. ASSUME stage.next # 0 PROVE Live(stage.next)' /\ (~down => ~inst'[stage.next].stop)
  <2>1. stage.next \in DOMAIN inst /\ (~down => ~inst[stage.next].stop)
    BY <1>1, <1>7 DEF Protocol
  <2>2. inst'[stage.next].probe # Off /\ (~down => ~inst'[stage.next].stop)
    BY <1>4, <2>1
  <2>3. Live(stage.next)'
    <3>1. stage'.next \in DOMAIN inst'
      BY <1>2, <1>3, <2>1
    <3>2. QED
      BY <1>2, <2>2, <3>1 DEF Live
  <2>4. QED
    BY <2>2, <2>3
<1>8. Protocol'
  BY <1>1, <1>2, <1>6, <1>7 DEF Protocol, Live
<1>9. QED
  BY <1>1, <1>5, <1>6, <1>8, RequestsKept DEF PoolInv

\* The new router is published, or the process stops its probers.
LEMMA SwapInv ==
    ASSUME PoolInv, Swap \/ StopAll
    PROVE  PoolInv'
<1>1. States /\ Protocol /\ Requests
  BY DEF PoolInv
<1>2. CASE Swap
  <2>1. UNCHANGED <<mix, inst, cur, down, rq, wire, cookie>> /\ router' = stage.next
        /\ stage' = [pc |-> "none", next |-> 0] /\ stage.pc = "swap"
    BY <1>2 DEF Swap
  <2>2. States' /\ Kept
    BY <1>1, <2>1 DEF States, Proper, Kept, Live
  <2>3. Protocol'
    BY <1>1, <2>1 DEF Protocol, Live
  <2>4. QED
    BY <1>1, <2>1, <2>2, <2>3, RequestsKept DEF PoolInv
<1>3. CASE StopAll
  <2>1. /\ UNCHANGED <<mix, router, stage, rq, wire, cookie>> /\ down' = TRUE /\ cur' = 0
        /\ inst' = IF cur = 0 THEN inst ELSE [inst EXCEPT ![cur] = [inst[cur] EXCEPT !.stop = TRUE]]
    BY <1>3 DEF StopAll
  <2>2. DOMAIN inst' = DOMAIN inst
    BY <2>1
  <2>3. ASSUME NEW i \in DOMAIN inst
        PROVE  /\ Proper(inst'[i]) /\ inst'[i].spec = inst[i].spec
               /\ inst'[i].probe = inst[i].probe
    <3>1. Proper(inst[i])
      BY <1>1 DEF States
    <3>2. CASE inst'[i] = inst[i]
      BY <3>1, <3>2
    <3>3. CASE inst'[i] = [inst[i] EXCEPT !.stop = TRUE]
      BY <3>1, <3>3 DEF Proper, Fields
    <3>4. QED
      BY <2>1, <3>2, <3>3
  <2>4. States'
    BY <1>1, <2>1, <2>2, <2>3 DEF States, Proper
  <2>5. Kept /\ \A i : Live(i) => Live(i)'
    BY <2>2, <2>3 DEF Kept, Live
  <2>6. Protocol'
    BY <1>1, <2>1, <2>2, <2>5 DEF Protocol
  <2>7. QED
    BY <1>1, <2>1, <2>4, <2>5, <2>6, RequestsKept DEF PoolInv
<1>4. QED
  BY <1>2, <1>3

----------------------------------------------------------------------------
(* RoundTrip.                                                              *)

\* A step of one request, given that the request itself is in order after it.
LEMMA OneRequest ==
    ASSUME Requests, Kept, NEW r \in Req, NEW q \in Request, rq' = [rq EXCEPT ![r] = q],
           NEW w \in SUBSET Upstream, wire' = [wire EXCEPT ![r] = w],
           cookie' \in [Req -> Upstream \cup {None}], Asking(r)'
    PROVE  Requests'
<1>1. /\ rq' \in [Req -> Request] /\ wire' \in [Req -> SUBSET Upstream]
      /\ \A o \in Req : o # r => rq'[o] = rq[o] /\ wire'[o] = wire[o]
  BY DEF Requests
<1>2. \A o \in Req : o # r => Asking(o)'
  BY <1>1, Bystander DEF Requests
<1>3. QED
  BY <1>1, <1>2 DEF Requests

\* A client between requests.
LEMMA IdleRequest == Idle \in Request /\ Idle.pc = "idle" /\ Idle.tried = {}
BY EmptySeq DEF Idle, Request, Phase

\* A request arrives, is given its candidates and settles on their order.
LEMMA ChooseInv ==
    ASSUME PoolInv, NEW r \in Req, mix.big \subseteq BOOLEAN,
           Arrive(r) \/ Pick(r) \/ Pin(r)
    PROVE  PoolInv'
<1>1. /\ States /\ Protocol /\ Requests /\ Asking(r) /\ rq[r] \in Request
      /\ UNCHANGED <<mix, cur, router, stage, down, wire, cookie>>
      /\ rq \in [Req -> Request] /\ wire \in [Req -> SUBSET Upstream]
      /\ cookie \in [Req -> Upstream \cup {None}]
  BY DEF PoolInv, Requests, Arrive, Pick, Pin, Others
<1>w. wire' = [wire EXCEPT ![r] = wire[r]] /\ wire[r] \in SUBSET Upstream
  BY <1>1
<1>2. CASE Arrive(r)
  <2>1. PICK b \in mix.big : rq' = [rq EXCEPT ![r] = [Idle EXCEPT !.pc = "pick", !.g = router, !.big = b]]
    BY <1>2 DEF Arrive
  <2> DEFINE q == [Idle EXCEPT !.pc = "pick", !.g = router, !.big = b]
  <2>2. rq' = [rq EXCEPT ![r] = q]
    BY <2>1
  <2>3. q \in Request /\ q.pc = "pick" /\ q.g = router /\ q.tried = {}
    <3>1. router \in Inst \cup {0} /\ b \in BOOLEAN /\ "pick" \in Phase
      BY <1>1, <2>1 DEF Protocol, Phase
    <3>2. QED
      BY <3>1, IdleRequest DEF Request
  <2>4. rq[r].pc = "idle" /\ router # 0 /\ UNCHANGED inst
    BY <1>2 DEF Arrive
  <2>5. States' /\ Protocol' /\ Kept
    BY <1>1, <2>4, Untouched
  <2>6. rq'[r] = q /\ wire'[r] = {}
    BY <1>1, <2>2, <2>4 DEF Asking
  <2>7. Live(router)'
    BY <1>1, <2>4, <2>5 DEF Protocol
  <2>8. Asking(r)'
    BY <1>1, <2>3, <2>6, <2>7 DEF Asking, Live
  <2>9. QED
    BY <1>1, <1>w, <2>2, <2>3, <2>5, <2>8, OneRequest DEF PoolInv
<1>3. CASE Pick(r)
  <2> DEFINE i == rq[r].g
             g == inst[i]
  <2>1. rq[r].pc = "pick" /\ Live(i) /\ rq[r].tried = {} /\ wire[r] = {}
    BY <1>1, <1>3 DEF Pick, Asking
  <2>2. i \in DOMAIN inst /\ Proper(g)
    BY <1>1, <2>1 DEF Live, States
  <2>3. PICK s \in Candidates(g, r) : rq' = [rq EXCEPT ![r].pc = "pin", ![r].cands = s]
    BY <1>3 DEF Pick
  <2>4. inst' = [inst EXCEPT ![i] = Charged(g)]
    BY <1>3 DEF Pick
  <2>5. /\ DOMAIN Charged(g) = Fields /\ Charged(g).spec = g.spec
        /\ Charged(g).probe = g.probe /\ Charged(g).stop = g.stop
    BY <2>2, ChargedFields DEF Proper
  <2>6. Proper(Charged(g))
    BY <2>2, <2>5 DEF Proper
  <2>7. States' /\ Protocol' /\ Kept
    BY <1>1, <2>2, <2>4, <2>5, <2>6, Touch
  <2>8. s \in Seq(Upstream) /\ s # <<>> /\ ToSet(s) = ToSet(g.spec.ups)
    BY <2>2, <2>3, CandidatesAll DEF Proper
  <2> DEFINE q == [rq[r] EXCEPT !.pc = "pin", !.cands = s]
  <2>9. rq' = [rq EXCEPT ![r] = q]
    BY <1>1, <2>3
  <2>10. /\ q \in Request /\ q.pc = "pin" /\ q.g = i /\ q.cands = s /\ q.tried = {}
    BY <1>1, <2>1, <2>8 DEF Request, Phase
  <2>11. rq'[r] = q /\ wire'[r] = {}
    BY <1>1, <2>1, <2>9
  <2> HIDE DEF q
  <2>12. Live(i)' /\ inst'[i].spec = g.spec
    <3>1. inst'[i] = Charged(g) /\ DOMAIN inst' = DOMAIN inst
      BY <2>2, <2>4
    <3>2. rq'[r].g = i /\ g.probe # Off
      BY <2>1, <2>10, <2>11 DEF Live
    <3>3. QED
      BY <2>2, <2>5, <3>1, <3>2 DEF Live
  <2>13. Asking(r)'
    BY <2>8, <2>10, <2>11, <2>12 DEF Asking, Members
  <2>14. QED
    BY <1>1, <1>w, <2>7, <2>9, <2>10, <2>13, OneRequest DEF PoolInv
<1>4. CASE Pin(r)
  <2>i. PICK i \in Inst \cup {0} : i = rq[r].g
    BY <1>1 DEF Request
  <2>1. /\ rq[r].pc = "pin" /\ Live(i) /\ rq[r].tried = {} /\ wire[r] = {}
        /\ rq[r].cands # <<>> /\ ToSet(rq[r].cands) = Members(rq[r])
        /\ rq[r].cands \in Seq(Upstream)
    BY <1>1, <1>4, <2>i DEF Pin, Asking, Request
  <2>2. UNCHANGED inst
    BY <1>4 DEF Pin
  <2>3. States' /\ Protocol' /\ Kept
    BY <1>1, <2>2, Untouched
  <2>4. Live(i)' /\ ToSet(inst'[i].spec.ups) = Members(rq[r])
    BY <2>1, <2>2, <2>i DEF Live, Members
  <2>5. CASE rq' = [rq EXCEPT ![r].pc = "gone"]
    <3> DEFINE q == [rq[r] EXCEPT !.pc = "gone"]
    <3>1. rq' = [rq EXCEPT ![r] = q]
      BY <1>1, <2>5
    <3>2. q \in Request /\ q.pc = "gone" /\ q.g = i
      BY <1>1, <2>i DEF Request, Phase
    <3>3. rq'[r] = q
      BY <1>1, <3>1
    <3>4. Asking(r)'
      BY <2>4, <3>2, <3>3 DEF Asking
    <3>5. QED
      BY <1>1, <1>w, <2>3, <3>1, <3>2, <3>4, OneRequest DEF PoolInv
  <2>6. ASSUME NEW p \in Upstream \cup {None}, NEW s, s = Promote(rq[r].cands, p),
               rq' = [rq EXCEPT ![r].pc = "try", ![r].pinned = p,
                                ![r].cands = IF rq[r].big THEN <<s[1]>> ELSE s]
        PROVE  PoolInv'
    <3>1. s \in Seq(Upstream) /\ s # <<>> /\ ToSet(s) = Members(rq[r])
      BY <2>1, <2>6, PromoteAll
    <3>2. s[1] \in Upstream
      BY <3>1, HeadAndTail
    <3> DEFINE c == IF rq[r].big THEN <<s[1]>> ELSE s
               q == [rq[r] EXCEPT !.pc = "try", !.pinned = p, !.cands = c]
    <3>3. c \in Seq(Upstream) /\ c # <<>> /\ (~rq[r].big => ToSet(c) = Members(rq[r]))
      BY <3>1, <3>2
    <3>4. rq' = [rq EXCEPT ![r] = q]
      BY <1>1, <2>6
    <3> HIDE DEF c
    <3>5. /\ q \in Request /\ q.pc = "try" /\ q.g = i /\ q.cands = c /\ q.tried = {}
          /\ q.big = rq[r].big
      BY <1>1, <2>1, <2>i, <2>6, <3>3 DEF Request, Phase
    <3>6. rq'[r] = q /\ wire'[r] = {}
      BY <1>1, <2>1, <3>4
    <3> HIDE DEF q
    <3>8. Asking(r)'
      BY <2>4, <3>3, <3>5, <3>6 DEF Asking, Members
    <3>9. QED
      BY <1>1, <1>w, <2>3, <3>4, <3>5, <3>8, OneRequest DEF PoolInv
  <2>7. QED
    BY <1>1, <1>4, <2>5, <2>6 DEF Pin
<1>5. QED
  BY <1>2, <1>3, <1>4

\* A count of open attempts changes, nothing else.
LEMMA ActiveFields ==
    ASSUME NEW g, Proper(g), NEW x, NEW h, h = [g EXCEPT !.active = x]
    PROVE  /\ Proper(h) /\ h.spec = g.spec /\ h.probe = g.probe /\ h.stop = g.stop
           /\ h.active = x /\ h.rr = g.rr
<1>1. /\ DOMAIN h = Fields /\ h.spec = g.spec /\ h.probe = g.probe /\ h.stop = g.stop
      /\ h.active = x /\ h.rr = g.rr
  BY DEF Proper, Fields
<1>2. QED
  BY <1>1 DEF Proper

\* What an attempt of r does to the state it holds.
AttemptEffect(i, h) ==
    /\ inst' = [inst EXCEPT ![i] = h]
    /\ Proper(h) /\ h.spec = inst[i].spec /\ h.probe = inst[i].probe /\ h.stop = inst[i].stop

\* Every step of an attempt changes only health and counts of the state it holds.
LEMMA AttemptShape ==
    ASSUME PoolInv, NEW r \in Req,
           \/ Try(r) /\ rq'[r].pc = "dial"
           \/ Answer(r) \/ ConnectFails(r) \/ OtherError(r) \/ CloseBody(r),
           NEW i, i = rq[r].g, Live(i)
    PROVE  \E h : AttemptEffect(i, h)
<1> DEFINE g == inst[i]
           u == Head(rq[r].cands)
<1>1. Proper(g) /\ i \in DOMAIN inst /\ rq \in [Req -> Request]
  BY DEF PoolInv, States, Live, Requests
<1>2. ASSUME NEW x, inst' = [inst EXCEPT ![i] = [g EXCEPT !.active = x]]
      PROVE  \E h : AttemptEffect(i, h)
  <2> DEFINE h == [g EXCEPT !.active = x]
  <2>1. Proper(h) /\ h.spec = g.spec /\ h.probe = g.probe /\ h.stop = g.stop
    BY <1>1, ActiveFields
  <2>2. inst' = [inst EXCEPT ![i] = h]
    BY <1>2
  <2> HIDE DEF h
  <2>3. AttemptEffect(i, h)
    BY <2>1, <2>2 DEF AttemptEffect
  <2>4. QED
    BY <2>3
<1>3. ASSUME NEW k, Proper(k), k.spec = g.spec, k.probe = g.probe, k.stop = g.stop,
             NEW h \in {ReportSuccess(k, u), ReportFailure(k, u)},
             inst' = [inst EXCEPT ![i] = h]
      PROVE  \E e : AttemptEffect(i, e)
  <2>1. DOMAIN h = Fields /\ h.spec = k.spec /\ h.probe = k.probe /\ h.stop = k.stop
    BY <1>3, ReportFields DEF Proper
  <2>2. Proper(h) /\ h.spec = g.spec /\ h.probe = g.probe /\ h.stop = g.stop
    BY <1>3, <2>1 DEF Proper
  <2>3. AttemptEffect(i, h)
    BY <1>3, <2>2 DEF AttemptEffect
  <2>4. QED
    BY <2>3
<1>4. CASE Try(r) /\ rq'[r].pc = "dial"
  <2>1. rq' # [rq EXCEPT ![r].pc = "gone"]
    BY <1>1, <1>4 DEF Request
  <2>2. inst' = [inst EXCEPT ![i] = [g EXCEPT !.active = [g.active EXCEPT ![u] = @ + 1]]]
    BY <1>4, <2>1 DEF Try
  <2>3. QED
    BY <1>2, <2>2
<1>5. CASE OtherError(r) \/ CloseBody(r)
  <2>1. inst' = [inst EXCEPT ![i] = [g EXCEPT !.active = [g.active EXCEPT ![u] = @ - 1]]]
    BY <1>5 DEF OtherError, CloseBody
  <2>2. QED
    BY <1>2, <2>1
<1>6. CASE Answer(r)
  <2>1. inst' = [inst EXCEPT ![i] = ReportSuccess(g, u)]
    BY <1>6 DEF Answer
  <2>2. QED
    BY <1>1, <1>3, <2>1
<1>7. CASE ConnectFails(r)
  <2> DEFINE k == [g EXCEPT !.active = [g.active EXCEPT ![u] = @ - 1]]
  <2>1. inst' = [inst EXCEPT ![i] = ReportFailure(k, u)]
    BY <1>7 DEF ConnectFails
  <2>2. Proper(k) /\ k.spec = g.spec /\ k.probe = g.probe /\ k.stop = g.stop
    BY <1>1, ActiveFields
  <2> HIDE DEF k
  <2>3. QED
    BY <1>3, <2>1, <2>2
<1>8. QED
  BY <1>4, <1>5, <1>6, <1>7

\* The attempts: what was tried and what is left stay the whole group.
LEMMA AttemptInv ==
    ASSUME PoolInv, NEW r \in Req,
           Try(r) \/ Answer(r) \/ ConnectFails(r) \/ OtherError(r) \/ CloseBody(r) \/ Finish(r)
    PROVE  PoolInv'
<1>1. /\ States /\ Protocol /\ Requests /\ Asking(r) /\ rq[r] \in Request
      /\ rq \in [Req -> Request] /\ wire \in [Req -> SUBSET Upstream]
      /\ cookie \in [Req -> Upstream \cup {None}]
  BY DEF PoolInv, Requests
<1>2. UNCHANGED <<mix, cur, router, stage, down>>
  BY DEF Try, Answer, ConnectFails, OtherError, CloseBody, Finish, Others
<1>i. PICK i \in Inst \cup {0} : i = rq[r].g
  BY <1>1 DEF Request
<1>l. Live(i) /\ rq[r].pc # "idle"
  BY <1>1, <1>i DEF Asking, Try, Answer, ConnectFails, OtherError, CloseBody, Finish
<1>u. PICK u : u = Head(rq[r].cands)
  OBVIOUS
<1>c. rq[r].pc \in {"try", "dial", "body"} =>
        /\ rq[r].cands \in Seq(Upstream) /\ rq[r].cands # <<>> /\ u \in Upstream
        /\ ~rq[r].big => rq[r].tried \cup ToSet(rq[r].cands) = Members(rq[r])
  BY <1>1, <1>u, HeadAndTail DEF Asking, Request
<1>k. ASSUME NEW h, AttemptEffect(i, h)
      PROVE  /\ States' /\ Protocol' /\ Kept
             /\ i \in DOMAIN inst' /\ inst'[i].probe # Off /\ ToSet(inst'[i].spec.ups) = Members(rq[r])
  <2>1. i \in DOMAIN inst /\ inst[i].probe # Off
    BY <1>l DEF Live
  <2>2. States' /\ Protocol' /\ Kept
    BY <1>1, <1>2, <1>k, <2>1, Touch DEF AttemptEffect
  <2>3. inst'[i] = h /\ DOMAIN inst' = DOMAIN inst
    BY <1>k, <2>1 DEF AttemptEffect
  <2>4. QED
    BY <1>i, <1>k, <2>1, <2>2, <2>3 DEF AttemptEffect, Members
<1>s. ASSUME UNCHANGED inst
      PROVE  /\ States' /\ Protocol' /\ Kept
             /\ i \in DOMAIN inst' /\ inst'[i].probe # Off /\ ToSet(inst'[i].spec.ups) = Members(rq[r])
  <2>1. States' /\ Protocol' /\ Kept
    BY <1>1, <1>2, <1>s, Untouched
  <2>2. QED
    BY <1>i, <1>l, <1>s, <2>1 DEF Live, Members
<1>q. ASSUME NEW q \in Request, rq' = [rq EXCEPT ![r] = q], NEW w \in SUBSET Upstream,
             wire' = [wire EXCEPT ![r] = w], cookie' \in [Req -> Upstream \cup {None}],
             q.g = i \/ q.pc = "idle", q.pc \notin {"pick", "pin"}, q.pc = "idle" => q.tried = {},
             q.pc \in {"try", "dial", "body"} =>
                 /\ q.cands # <<>>
                 /\ ~q.big => q.tried \cup ToSet(q.cands) = Members(rq[r]),
             q.pc = "refused" /\ ~q.big => q.tried = Members(rq[r]),
             q.pc \notin {"body", "gone"} => w = {},
             UNCHANGED inst \/ \E h : AttemptEffect(i, h)
      PROVE  PoolInv'
  <2>1. /\ States' /\ Protocol' /\ Kept
        /\ i \in DOMAIN inst' /\ inst'[i].probe # Off /\ ToSet(inst'[i].spec.ups) = Members(rq[r])
    BY <1>k, <1>s, <1>q
  <2>2. rq'[r] = q /\ wire'[r] = w
    BY <1>1, <1>q
  <2>3. Asking(r)'
    BY <1>q, <2>1, <2>2 DEF Asking, Live, Members
  <2>4. QED
    BY <1>1, <1>q, <2>1, <2>3, OneRequest DEF PoolInv
<1>3. CASE Try(r) /\ rq' = [rq EXCEPT ![r].pc = "dial"]
  <2> DEFINE q == [rq[r] EXCEPT !.pc = "dial"]
  <2>1. /\ q \in Request /\ q.pc = "dial" /\ q.g = i /\ q.cands = rq[r].cands
        /\ q.tried = rq[r].tried /\ (q.big <=> rq[r].big)
    BY <1>1, <1>i DEF Request, Phase
  <2>2. rq' = [rq EXCEPT ![r] = q] /\ rq'[r].pc = "dial"
    BY <1>1, <1>3 DEF Request
  <2>3. \E h : AttemptEffect(i, h)
    BY <1>3, <1>i, <1>l, <2>2, AttemptShape
  <2>4. /\ rq[r].pc = "try" /\ wire' = [wire EXCEPT ![r] = {}] /\ cookie' = cookie
    BY <1>1, <1>3 DEF Try, Asking
  <2> HIDE DEF q
  <2>5. PICK w \in SUBSET Upstream : w = {} /\ wire' = [wire EXCEPT ![r] = w]
    BY <2>4
  <2>6. cookie' \in [Req -> Upstream \cup {None}]
    BY <1>1, <2>4
  <2>7. q.cands # <<>> /\ (~q.big => q.tried \cup ToSet(q.cands) = Members(rq[r]))
    BY <1>c, <2>1, <2>4
  <2>8. QED
    BY <1>q, <2>1, <2>2, <2>3, <2>5, <2>6, <2>7
<1>4. CASE Try(r) /\ rq' = [rq EXCEPT ![r].pc = "gone"] /\ UNCHANGED inst
  <2> DEFINE q == [rq[r] EXCEPT !.pc = "gone"]
  <2>1. /\ q \in Request /\ q.pc = "gone" /\ q.g = i
    BY <1>1, <1>i DEF Request, Phase
  <2>2. rq' = [rq EXCEPT ![r] = q]
    BY <1>1, <1>4
  <2>3. /\ wire' = [wire EXCEPT ![r] = wire[r]] /\ wire[r] \in SUBSET Upstream /\ cookie' = cookie
    BY <1>1, <1>4 DEF Try
  <2> HIDE DEF q
  <2>4. QED
    BY <1>1, <1>4, <1>q, <2>1, <2>2, <2>3
<1>5. CASE Answer(r)
  <2> DEFINE q == [rq[r] EXCEPT !.pc = "body"]
  <2>1. /\ q \in Request /\ q.pc = "body" /\ q.g = i /\ q.cands = rq[r].cands
        /\ q.tried = rq[r].tried /\ (q.big <=> rq[r].big)
    BY <1>1, <1>i DEF Request, Phase
  <2>2. rq' = [rq EXCEPT ![r] = q] /\ rq[r].pc = "dial"
    BY <1>1, <1>5 DEF Answer
  <2>3. \E h : AttemptEffect(i, h)
    BY <1>5, <1>i, <1>l, AttemptShape
  <2>4. /\ wire' = [wire EXCEPT ![r] = wire[r] \cup {u}] /\ wire[r] \cup {u} \in SUBSET Upstream
        /\ cookie' \in [Req -> Upstream \cup {None}]
    BY <1>1, <1>5, <1>c, <1>u, <2>2 DEF Answer
  <2> HIDE DEF q
  <2>5. QED
    BY <1>c, <1>q, <2>1, <2>2, <2>3, <2>4
<1>6. CASE ConnectFails(r)
  <2> DEFINE n == IF Len(rq[r].cands) = 1 THEN "refused" ELSE "try"
             q == [rq[r] EXCEPT !.pc = n, !.cands = Tail(@), !.tried = @ \cup {u}]
  <2>1. rq[r].pc = "dial" /\ wire' = [wire EXCEPT ![r] = {}] /\ cookie' = cookie
    BY <1>1, <1>6 DEF ConnectFails, Asking
  <2>2. /\ Tail(rq[r].cands) \in Seq(Upstream) /\ u \in Upstream
        /\ ToSet(rq[r].cands) = {u} \cup ToSet(Tail(rq[r].cands))
        /\ Len(rq[r].cands) = 1 => ToSet(rq[r].cands) = {u}
        /\ Len(rq[r].cands) # 1 => Tail(rq[r].cands) # <<>>
    BY <1>c, <1>u, <2>1, HeadAndTail
  <2>3. rq' = [rq EXCEPT ![r] = q]
    BY <1>1, <1>6, <1>u DEF ConnectFails
  <2>4. n \in Phase /\ n \in {"refused", "try"}
    BY DEF Phase
  <2>5. n = "refused" => Len(rq[r].cands) = 1
    OBVIOUS
  <2>6. n = "try" => Len(rq[r].cands) # 1
    OBVIOUS
  <2> HIDE DEF n
  <2>7. /\ q \in Request /\ q.pc = n /\ q.g = i /\ q.cands = Tail(rq[r].cands)
        /\ q.tried = rq[r].tried \cup {u} /\ (q.big <=> rq[r].big)
    BY <1>1, <1>i, <2>2, <2>4 DEF Request
  <2>8. \E h : AttemptEffect(i, h)
    BY <1>6, <1>i, <1>l, AttemptShape
  <2>9. ASSUME ~rq[r].big
        PROVE  /\ (rq[r].tried \cup {u}) \cup ToSet(Tail(rq[r].cands)) = Members(rq[r])
               /\ n = "refused" => rq[r].tried \cup {u} = Members(rq[r])
    BY <1>c, <2>1, <2>2, <2>5, <2>9
  <2> HIDE DEF q
  <2>10. q.pc \in {"try", "dial", "body"} =>
           q.cands # <<>> /\ (~q.big => q.tried \cup ToSet(q.cands) = Members(rq[r]))
    BY <2>2, <2>4, <2>6, <2>7, <2>9
  <2>11. q.pc = "refused" /\ ~q.big => q.tried = Members(rq[r])
    BY <2>7, <2>9
  <2>12. q.g = i /\ q.pc \in {"refused", "try"}
    BY <2>4, <2>7
  <2>13. PICK w \in SUBSET Upstream : w = {} /\ wire' = [wire EXCEPT ![r] = w]
    BY <2>1
  <2>14. cookie' \in [Req -> Upstream \cup {None}] /\ q \in Request
    BY <1>1, <2>1, <2>7
  <2>15. q.pc \notin {"pick", "pin"} /\ q.pc # "idle"
    BY <2>12
  <2>16. QED
    BY <1>q, <2>3, <2>8, <2>10, <2>11, <2>12, <2>13, <2>14, <2>15
<1>7. CASE OtherError(r)
  <2> DEFINE q == [rq[r] EXCEPT !.pc = "gone"]
  <2>1. /\ q \in Request /\ q.pc = "gone" /\ q.g = i
    BY <1>1, <1>i DEF Request, Phase
  <2>2. rq' = [rq EXCEPT ![r] = q] /\ rq[r].pc = "dial"
    BY <1>1, <1>7 DEF OtherError
  <2>3. /\ wire' = [wire EXCEPT ![r] = wire[r] \cup {u}] /\ wire[r] \cup {u} \in SUBSET Upstream
        /\ cookie' = cookie
    BY <1>1, <1>7, <1>c, <1>u, <2>2 DEF OtherError
  <2>4. \E h : AttemptEffect(i, h)
    BY <1>7, <1>i, <1>l, AttemptShape
  <2> HIDE DEF q
  <2>5. QED
    BY <1>1, <1>q, <2>1, <2>2, <2>3, <2>4
<1>8. CASE CloseBody(r) \/ Finish(r)
  <2>1. rq' = [rq EXCEPT ![r] = Idle] /\ wire' = [wire EXCEPT ![r] = {}] /\ cookie' = cookie
    BY <1>8 DEF CloseBody, Finish
  <2>2. UNCHANGED inst \/ \E h : AttemptEffect(i, h)
    BY <1>8, <1>i, <1>l, AttemptShape DEF Finish
  <2>3. QED
    BY <1>1, <1>q, <2>1, <2>2, IdleRequest
<1>9. QED
  BY <1>3, <1>4, <1>5, <1>6, <1>7, <1>8 DEF Try

----------------------------------------------------------------------------

\* At boot there is no group and no request.
LEMMA PoolInitInv == PoolInit => PoolInv
<1> SUFFICES ASSUME PoolInit PROVE PoolInv
  OBVIOUS
<1>1. DOMAIN inst = {}
  BY DEF PoolInit
<1>2. States
  BY <1>1 DEF PoolInit, States
<1>3. Protocol
  BY DEF PoolInit, Protocol
<1>4. rq \in [Req -> Request] /\ \A r \in Req : rq[r] = Idle /\ wire[r] = {}
  BY IdleRequest DEF PoolInit
<1>5. \A r \in Req : Asking(r)
  BY <1>4, IdleRequest DEF Asking
<1>6. wire \in [Req -> SUBSET Upstream] /\ cookie \in [Req -> Upstream \cup {None}]
  BY DEF PoolInit
<1>7. QED
  BY <1>2, <1>3, <1>4, <1>5, <1>6 DEF PoolInv, Requests

\* Every step keeps the invariant.
LEMMA PoolNextInv ==
    ASSUME PoolInv, [PoolNext]_poolVars
    PROVE  PoolInv'
<1>1. mix.big \subseteq BOOLEAN /\ mix.reqs \subseteq Req
  BY PoolAssumption DEF PoolInv, States
<1>2. ASSUME UNCHANGED <<mix, inst, cur, router, stage, down, rq, wire, cookie>>
      PROVE  PoolInv'
  <2>1. States' /\ Protocol' /\ Kept
    BY <1>2, Untouched DEF PoolInv
  <2>2. QED
    BY <1>2, <2>1, RequestsKept DEF PoolInv
<1>3. ASSUME NEW r \in mix.reqs, Forward(r) PROVE PoolInv'
  BY <1>1, <1>3, ChooseInv, AttemptInv DEF Forward
<1>4. CASE Reload
  BY <1>4, StageInv, BuildFailsInv, CommitInv, SwapInv DEF Reload
<1>5. ASSUME NEW u, Flap(u) PROVE PoolInv'
  BY <1>2, <1>5 DEF Flap
<1>6. CASE UNCHANGED poolVars
  BY <1>2, <1>6 DEF poolVars
<1>7. QED
  BY <1>3, <1>4, <1>5, <1>6, ProbeInv, SwapInv DEF PoolNext

\* The invariant holds throughout.
LEMMA PoolThroughout == PoolSpec => []PoolInv
<1>1. PoolInv /\ [PoolNext]_poolVars => PoolInv'
  BY PoolNextInv
<1>2. QED
  BY <1>1, PoolInitInv, PTL DEF PoolSpec

\* However reloads replace the group and health changes meanwhile, a request
\* that could be retried is refused only when every upstream of the group it
\* was given refused it.
THEOREM RefusedOnlyByAll == PoolSpec => []RefusedByAll
<1>1. PoolInv => RefusedByAll
  BY DEF PoolInv, Requests, Asking, Members, RefusedByAll
<1>2. QED
  BY <1>1, PoolThroughout, PTL

----------------------------------------------------------------------------
(* The refinement of RequestOnce.                                          *)

\* How far a request is that stands at pc: the st of outcome.
StateOf(pc) ==
    CASE pc = "idle" -> "idle"
      [] pc \in {"gone", "refused"} -> "failed"
      [] pc = "body" -> "answered"
      [] OTHER -> "open"

\* A step that changes one client's request at most.
LEMMA OutcomeStep ==
    ASSUME Requests, Requests', NEW r \in Req,
           \A o \in Req : o # r => rq'[o] = rq[o] /\ wire'[o] = wire[o]
    PROVE  outcome' = [outcome EXCEPT ![r] = [st |-> StateOf(rq'[r].pc), at |-> wire'[r]]]
BY DEF Requests, outcome, StateOf

\* Every step of RoundTrip is a step of RequestOnce, or none.
LEMMA ForwardOnce ==
    ASSUME PoolInv, PoolInv', NEW r \in Req, Forward(r)
    PROVE  Once!OnceNext \/ UNCHANGED outcome
<1>1. /\ Requests /\ Requests' /\ Asking(r) /\ rq \in [Req -> Request]
      /\ wire \in [Req -> SUBSET Upstream] /\ rq[r] \in Request
  BY DEF PoolInv, Requests
<1>2. \A o \in Req : o # r => rq'[o] = rq[o] /\ wire'[o] = wire[o]
  BY <1>1 DEF Forward, Arrive, Pick, Pin, Try, Answer, ConnectFails, OtherError, CloseBody, Finish
<1>3. outcome' = [outcome EXCEPT ![r] = [st |-> StateOf(rq'[r].pc), at |-> wire'[r]]]
  BY <1>1, <1>2, OutcomeStep
<1>4. outcome[r] = [st |-> StateOf(rq[r].pc), at |-> wire[r]] /\ DOMAIN outcome = Req
  BY DEF outcome, StateOf
<1>d. r \in DOMAIN outcome
  BY <1>4
<1>p. ASSUME NEW x
      PROVE  [outcome EXCEPT ![r].st = x] = [outcome EXCEPT ![r] = [st |-> x, at |-> wire[r]]]
  <2> HIDE DEF outcome, StateOf
  <2>1. PICK f : f = outcome
    OBVIOUS
  <2>2. PICK a : a = StateOf(rq[r].pc)
    OBVIOUS
  <2>3. PICK b : b = wire[r]
    OBVIOUS
  <2>4. r \in DOMAIN f /\ f[r] = [st |-> a, at |-> b]
    BY <1>4, <1>d, <2>1, <2>2, <2>3
  <2>5. [f EXCEPT ![r].st = x] = [f EXCEPT ![r] = [st |-> x, at |-> b]]
    <3>1. [f[r] EXCEPT !.st = x] = [st |-> x, at |-> b]
      BY <2>4
    <3>2. QED
      BY <2>4, <3>1
  <2>6. QED
    BY <2>1, <2>3, <2>5
<1>s. ASSUME StateOf(rq'[r].pc) = StateOf(rq[r].pc), wire'[r] = wire[r] PROVE UNCHANGED outcome
  BY <1>3, <1>4, <1>s DEF outcome
<1>5. CASE Arrive(r)
  <2>1. rq[r].pc = "idle" /\ rq'[r].pc = "pick" /\ wire'[r] = wire[r]
    BY <1>1, <1>5 DEF Arrive, Idle
  <2>2. StateOf("idle") = "idle" /\ StateOf("pick") = "open"
    BY DEF StateOf
  <2>4. outcome' = [outcome EXCEPT ![r] = [st |-> "open", at |-> wire[r]]]
    BY <1>3, <2>1, <2>2
  <2>5. outcome[r].st = "idle"
    BY <1>4, <2>1, <2>2
  <2>6. [outcome EXCEPT ![r].st = "open"] = [outcome EXCEPT ![r] = [st |-> "open", at |-> wire[r]]]
    BY <1>p
  <2>3. QED
    BY <2>4, <2>5, <2>6 DEF Once!OnceNext, Once!Accept
<1>6. CASE Pick(r)
  <2>1. rq[r].pc = "pick" /\ rq'[r].pc = "pin" /\ wire'[r] = wire[r]
    BY <1>1, <1>6 DEF Pick, Request
  <2>2. QED
    BY <1>s, <2>1 DEF StateOf
<1>g. ASSUME StateOf(rq[r].pc) = "open", StateOf(rq'[r].pc) = "failed", wire'[r] = wire[r]
      PROVE  Once!OnceNext
  <2>1. outcome[r].st = "open"
    BY <1>4, <1>g
  <2>2. outcome' = [outcome EXCEPT ![r] = [st |-> "failed", at |-> wire[r]]]
    BY <1>3, <1>g
  <2>3. [outcome EXCEPT ![r].st = "failed"] = [outcome EXCEPT ![r] = [st |-> "failed", at |-> wire[r]]]
    BY <1>p
  <2>4. QED
    BY <2>1, <2>2, <2>3 DEF Once!OnceNext, Once!GiveUp
<1>7. CASE Pin(r) \/ Try(r)
  <2>1. rq[r].pc \in {"pin", "try"} /\ rq'[r].pc \in {"try", "dial", "gone"} /\ wire'[r] = wire[r]
    <3>1. ASSUME NEW p, NEW c, rq' = [rq EXCEPT ![r].pc = "try", ![r].pinned = p, ![r].cands = c]
          PROVE  rq'[r].pc = "try"
      BY <1>1, <3>1 DEF Request
    <3>2. CASE Pin(r)
      <4>1. rq[r].pc = "pin" /\ wire'[r] = wire[r]
        BY <3>2 DEF Pin
      <4>2. rq'[r].pc = "try" \/ rq' = [rq EXCEPT ![r].pc = "gone"]
        BY <3>1, <3>2, Zenon DEF Pin
      <4>3. QED
        BY <1>1, <4>1, <4>2 DEF Request
    <3>3. CASE Try(r)
      BY <1>1, <3>3 DEF Try, Request
    <3>4. QED
      BY <1>7, <3>2, <3>3
  <2>2. CASE rq'[r].pc = "gone"
    BY <1>g, <2>1, <2>2 DEF StateOf
  <2>3. CASE rq'[r].pc \in {"try", "dial"}
    BY <1>s, <2>1, <2>3 DEF StateOf
  <2>4. QED
    BY <2>1, <2>2, <2>3
<1>8. CASE ConnectFails(r)
  <2>1. rq[r].pc = "dial" /\ rq'[r].pc \in {"try", "refused"} /\ wire'[r] = wire[r]
    BY <1>1, <1>8 DEF ConnectFails, Request
  <2>2. CASE rq'[r].pc = "refused"
    BY <1>g, <2>1, <2>2 DEF StateOf
  <2>3. CASE rq'[r].pc = "try"
    BY <1>s, <2>1, <2>3 DEF StateOf
  <2>4. QED
    BY <2>1, <2>2, <2>3
<1>9. CASE Answer(r) \/ OtherError(r)
  <2>1. rq[r].pc = "dial" /\ rq'[r].pc \in {"body", "gone"}
    BY <1>1, <1>9 DEF Answer, OtherError, Request
  <2>2. PICK u \in Upstream : wire'[r] = wire[r] \cup {u}
    <3>1. Head(rq[r].cands) \in Upstream
      BY <1>1, <2>1, HeadAndTail DEF Asking, Request
    <3>2. QED
      BY <1>1, <1>9, <3>1 DEF Answer, OtherError
  <2>3. wire'[r] = {u}
    BY <1>1, <2>1, <2>2 DEF Asking
  <2>4. PICK st \in {"answered", "failed"} : st = StateOf(rq'[r].pc)
    BY <2>1 DEF StateOf
  <2>5. outcome[r].st = "open" /\ outcome' = [outcome EXCEPT ![r] = [st |-> st, at |-> {u}]]
    BY <1>3, <1>4, <2>1, <2>3, <2>4 DEF StateOf
  <2>6. QED
    BY <2>5 DEF Once!OnceNext, Once!Transmit
<1>10. CASE CloseBody(r) \/ Finish(r)
  <2>1. rq[r].pc \in {"body", "gone", "refused"} /\ rq'[r].pc = "idle" /\ wire'[r] = {}
    BY <1>1, <1>10 DEF CloseBody, Finish, Idle
  <2>2. outcome[r].st \in {"answered", "failed"}
    BY <1>4, <2>1 DEF StateOf
  <2>3. outcome' = [outcome EXCEPT ![r] = Once!Fresh]
    BY <1>3, <2>1 DEF StateOf, Once!Fresh
  <2>4. QED
    BY <2>2, <2>3 DEF Once!OnceNext, Once!Finish
<1>11. QED
  BY <1>5, <1>6, <1>7, <1>8, <1>9, <1>10 DEF Forward

\* The transport implements RequestOnce: whatever it retries, however health
\* and configuration change meanwhile, a request is on the wire of at most one
\* upstream and only that one answers it.
THEOREM TransportDeliversOnce == PoolSpec => OneDelivery
<1>1. PoolInit => Once!OnceInit
  BY DEF PoolInit, Idle, outcome, Once!OnceInit, Once!Fresh
<1>2. PoolInv /\ PoolInv' /\ [PoolNext]_poolVars => [Once!OnceNext]_outcome
  <2> SUFFICES ASSUME PoolInv, PoolInv', [PoolNext]_poolVars
               PROVE  Once!OnceNext \/ UNCHANGED outcome
    OBVIOUS
  <2>1. mix.reqs \subseteq Req
    BY PoolAssumption DEF PoolInv, States
  <2>2. ASSUME NEW r \in mix.reqs, Forward(r) PROVE Once!OnceNext \/ UNCHANGED outcome
    BY <2>1, <2>2, ForwardOnce
  <2>3. ASSUME UNCHANGED <<rq, wire>> PROVE UNCHANGED outcome
    BY <2>3 DEF outcome
  <2>4. ASSUME NEW i \in Inst, ProbeOne(i) \/ ProbeWait(i) PROVE UNCHANGED <<rq, wire>>
    BY <2>4 DEF ProbeOne, ProbeWait
  <2>5. Reload \/ StopAll => UNCHANGED <<rq, wire>>
    BY DEF Reload, Stage, BuildFails, Commit, Swap, StopAll
  <2>6. ASSUME NEW u, Flap(u) PROVE UNCHANGED <<rq, wire>>
    BY <2>6 DEF Flap
  <2>7. UNCHANGED poolVars => UNCHANGED <<rq, wire>>
    BY DEF poolVars
  <2>8. QED
    BY <2>2, <2>3, <2>4, <2>5, <2>6, <2>7 DEF PoolNext
<1>3. QED
  BY <1>1, <1>2, PoolThroughout, PTL DEF PoolSpec, OneDelivery, Once!OnceSpec

----------------------------------------------------------------------------
(* Sums over a list.                                                       *)

\* A set of naturals has a least element.
LEMMA Least ==
    ASSUME NEW S \in SUBSET Nat, S # {}
    PROVE  \E x \in S : \A y \in S : x <= y
<1> DEFINE R == OpToRel(<, Nat)
<1>1. IsWellFoundedOn(R, Nat)
  BY NatLessThanWellFounded, Zenon
<1>2. \A x, y \in Nat : y < x => <<y, x>> \in R
  BY DEF OpToRel
<1> HIDE DEF R
<1>3. PICK x \in S : \A y \in S : ~ (<<y, x>> \in R)
  BY <1>1, WFMin
<1>4. \A y \in S : ~(y < x)
  BY <1>2, <1>3
<1> QED
  BY <1>4

\* The partial sums t of f over q.
Sums(t, f, q) ==
    /\ t \in [0..Len(q) -> Int] /\ t[0] = 0
    /\ \A i \in 1..Len(q) : t[i] = t[i - 1] + f[q[i]]

\* Every list of integers has partial sums.
LEMMA SumsExist ==
    ASSUME NEW q, Len(q) \in Nat, NEW f, \A i \in 1..Len(q) : f[q[i]] \in Int
    PROVE  \E t : Sums(t, f, q)
<1> DEFINE N == Len(q)
           upto(n, t) == /\ t \in [0..n -> Int] /\ t[0] = 0
                         /\ \A i \in 1..n : t[i] = t[i - 1] + f[q[i]]
           bad == {n \in 0..N : ~\E t : upto(n, t)}
<1> SUFFICES ASSUME bad # {} PROVE FALSE
  <2>1. N \in 0..N
    OBVIOUS
  <2> QED
    BY <2>1 DEF Sums
<1>1. bad \in SUBSET Nat
  OBVIOUS
<1>2. PICK m \in bad : \A n \in bad : m <= n
  BY <1>1, Least
<1>3. m # 0
  <2>1. upto(0, [i \in 0..0 |-> 0])
    OBVIOUS
  <2> QED
    BY <2>1
<1> HIDE DEF upto
<1>4. m \in 1..N /\ m - 1 \in 0..N /\ m - 1 \notin bad
  <2>1. m \in 1..N /\ m - 1 \in 0..N
    BY <1>2, <1>3
  <2> HIDE DEF bad
  <2> QED
    BY <1>1, <1>2, <2>1
<1>5. PICK t : upto(m - 1, t)
  BY <1>4
<1> USE DEF upto
<1> DEFINE e == [i \in 0..m |-> IF i = m THEN t[m - 1] + f[q[m]] ELSE t[i]]
<1>6. t[m - 1] \in Int /\ f[q[m]] \in Int
  BY <1>4, <1>5
<1>7. e \in [0..m -> Int] /\ e[0] = 0
  BY <1>4, <1>5, <1>6
<1>8. ASSUME NEW i \in 1..m PROVE e[i] = e[i - 1] + f[q[i]]
  <2>1. CASE i = m
    BY <1>4, <2>1
  <2>2. CASE i # m
    <3>1. i \in 1..(m - 1) /\ i - 1 \in 0..(m - 1) /\ i \in 0..m /\ i - 1 \in 0..m /\ i - 1 # m
      BY <1>4, <2>2
    <3>2. t[i] = t[i - 1] + f[q[i]]
      BY <1>5, <3>1
    <3> QED
      BY <3>1, <3>2, <2>2
  <2> QED
    BY <2>1, <2>2
<1> HIDE DEF e
<1>9. upto(m, e)
  BY <1>7, <1>8
<1> HIDE DEF upto
<1> QED
  BY <1>9

\* Two functions with the same recurrence are the same, and Total is the last sum.
LEMMA TotalIsLast ==
    ASSUME NEW q, Len(q) \in Nat, NEW f, NEW t, Sums(t, f, q)
    PROVE  Total(f, q) = t[Len(q)]
<1> DEFINE N == Len(q)
           step(s) == [i \in 0..N |-> IF i = 0 THEN 0 ELSE s[i - 1] + f[q[i]]]
<1>1. t = step(t)
  BY DEF Sums
<1>2. (CHOOSE s : s = step(s)) = step(CHOOSE s : s = step(s))
  BY <1>1
<1>3. PICK sum : sum = step(sum) /\ Total(f, q) = sum[N]
  BY <1>2 DEF Total
<1>4. sum[0] = 0 /\ \A i \in 1..N : sum[i] = sum[i - 1] + f[q[i]]
  BY <1>3
<1> DEFINE bad == {i \in 0..N : sum[i] # t[i]}
<1>5. bad = {}
  <2> SUFFICES ASSUME bad # {} PROVE FALSE
    OBVIOUS
  <2>0. bad \in SUBSET Nat
    OBVIOUS
  <2>1. PICK m \in bad : \A n \in bad : m <= n
    BY <2>0, Least
  <2>2. m # 0
    BY <2>1, <1>4 DEF Sums
  <2>3. m \in 1..N /\ m - 1 \in 0..N /\ m - 1 \notin bad
    BY <2>1, <2>2
  <2>4. sum[m - 1] = t[m - 1]
    BY <2>3
  <2> QED
    BY <2>1, <2>3, <2>4, <1>4 DEF Sums
<1> QED
  <2>1. sum[N] = t[N]
    BY <1>5
  <2> QED
    BY <1>3, <2>1

\* Two sums and what is taken from them, grouped the other way.
LEMMA SumsMeet ==
    \A a, b, o, x, y, d \in Int : (a + b - o) + (x + y - d) = (a + x) + (b + y) - (o + d)
OBVIOUS

\* e is f with h added everywhere and c taken at place p of the list.
Moved(e, f, h, q, p, c) ==
    /\ Len(q) \in Nat /\ p \in 1..Len(q) /\ c \in Int
    /\ \A i \in 1..Len(q) : /\ f[q[i]] \in Int /\ h[q[i]] \in Int
                            /\ e[q[i]] = f[q[i]] + h[q[i]] - (IF i = p THEN c ELSE 0)

\* Then its sum differs by as much.
LEMMA TotalMoves ==
    ASSUME NEW q, NEW f, NEW h, NEW e, NEW p, NEW c, Moved(e, f, h, q, p, c)
    PROVE  /\ Total(f, q) \in Int /\ Total(h, q) \in Int
           /\ Total(e, q) = Total(f, q) + Total(h, q) - c
<1>0. /\ Len(q) \in Nat /\ p \in 1..Len(q) /\ c \in Int
      /\ \A i \in 1..Len(q) : /\ f[q[i]] \in Int /\ h[q[i]] \in Int
                              /\ e[q[i]] = f[q[i]] + h[q[i]] - (IF i = p THEN c ELSE 0)
  BY DEF Moved
<1> DEFINE N == Len(q)
<1>1. PICK tf : Sums(tf, f, q)
  BY <1>0, SumsExist
<1>2. PICK th : Sums(th, h, q)
  BY <1>0, SumsExist
<1>3. \A i \in 1..N : e[q[i]] \in Int
  BY <1>0
<1>4. PICK te : Sums(te, e, q)
  BY <1>0, <1>3, SumsExist
<1> DEFINE off(i) == IF i >= p THEN c ELSE 0
           bad == {i \in 0..N : te[i] # tf[i] + th[i] - off(i)}
<1>5. bad = {}
  <2> SUFFICES ASSUME bad # {} PROVE FALSE
    OBVIOUS
  <2>0. bad \in SUBSET Nat
    BY <1>0
  <2>1. PICK m \in bad : \A n \in bad : m <= n
    BY <2>0, Least
  <2>2. m # 0
    BY <2>1, <1>0, <1>1, <1>2, <1>4 DEF Sums
  <2>3. m \in 1..N /\ m - 1 \in 0..N /\ m - 1 \notin bad
    <3>1. Len(q) \in Nat
      BY <1>0
    <3> QED
      BY <2>1, <2>2, <3>1
  <2>4. te[m - 1] = tf[m - 1] + th[m - 1] - off(m - 1)
    BY <2>3
  <2>5. /\ te[m] = te[m - 1] + e[q[m]] /\ tf[m] = tf[m - 1] + f[q[m]]
        /\ th[m] = th[m - 1] + h[q[m]]
        /\ te[m - 1] \in Int /\ tf[m - 1] \in Int /\ th[m - 1] \in Int
    BY <2>3, <1>1, <1>2, <1>4 DEF Sums
  <2>d. PICK d \in Int : d = IF m = p THEN c ELSE 0
    BY <1>0
  <2>6. off(m) = off(m - 1) + d
    BY <1>0, <2>3, <2>d
  <2>7. off(m) \in Int /\ off(m - 1) \in Int
    BY <1>0
  <2>8. f[q[m]] \in Int /\ h[q[m]] \in Int /\ e[q[m]] = f[q[m]] + h[q[m]] - d
    BY <1>0, <2>3, <2>d
  <2> HIDE DEF off, bad
  <2>9. te[m] = tf[m] + th[m] - off(m)
    <3>1. PICK a \in Int, b \in Int, o \in Int, x \in Int, y \in Int :
              a = tf[m - 1] /\ b = th[m - 1] /\ o = off(m - 1) /\ x = f[q[m]] /\ y = h[q[m]]
      BY <2>5, <2>7, <2>8
    <3>2. te[m] = (a + b - o) + (x + y - d)
      BY <2>4, <2>5, <2>8, <3>1
    <3>3. tf[m] + th[m] - off(m) = (a + x) + (b + y) - (o + d)
      BY <2>5, <2>6, <3>1
    <3>4. (a + b - o) + (x + y - d) = (a + x) + (b + y) - (o + d)
      BY SumsMeet
    <3> QED
      BY <3>2, <3>3, <3>4, Zenon
  <2> QED
    BY <2>1, <2>9 DEF bad
<1>6. N \in 0..N /\ off(N) = c
  BY <1>0
<1>7. te[N] = tf[N] + th[N] - c /\ tf[N] \in Int /\ th[N] \in Int
  BY <1>0, <1>5, <1>6, <1>1, <1>2 DEF Sums
<1> QED
  BY <1>0, <1>1, <1>2, <1>4, <1>7, TotalIsLast
----------------------------------------------------------------------------
(* The counters.                                                           *)

\* The health, the running weights and the counts of a state are about its
\* group, the weights sum to zero and the prober is within the list.
Steered(g) ==
    LET U == ToSet(g.spec.ups) IN
    /\ g.healthy \subseteq U /\ g.probe <= Len(g.spec.ups)
    /\ g.rr \in [U -> Int] /\ Total(g.rr, g.spec.ups) = 0
    /\ g.active \in [U -> Int]

\* The clients whose attempt on u is open in state i.
Holding(i, u) == {r \in Req : Holds(r, i) /\ Head(rq[r].cands) = u}

Counted(i) ==
    /\ Steered(inst[i])
    /\ \A u \in ToSet(inst[i].spec.ups) : inst[i].active[u] = Cardinality(Holding(i, u))

\* A request asks only upstreams of the group it was given.
Within(r) == rq[r].pc \in {"pin", "try", "dial", "body"} => ToSet(rq[r].cands) \subseteq Members(rq[r])

CountInv ==
    /\ \A i \in DOMAIN inst : Counted(i)
    /\ \A r \in Req : Within(r)

\* The list of an offered group: every member has one place in it.
LEMMA OfferedList ==
    ASSUME NEW s \in Offered
    PROVE  /\ Len(s.ups) \in Nat /\ Len(s.ups) >= 1 /\ DOMAIN s.ups = 1..Len(s.ups)
           /\ \A i, j \in 1..Len(s.ups) : s.ups[i] = s.ups[j] => i = j
           /\ \A i \in 1..Len(s.ups) : s.ups[i] \in ToSet(s.ups) /\ Pos(s.ups, s.ups[i]) = i
           /\ \A u \in ToSet(s.ups) : \E i \in 1..Len(s.ups) : s.ups[i] = u
           /\ s.weight \in [ToSet(s.ups) -> Nat \ {0}]
<1>1. s.ups \in Seq(Upstream) /\ s.ups # <<>> /\ IsInjective(s.ups) /\ s.weight \in [ToSet(s.ups) -> Nat \ {0}]
  BY PoolAssumption DEF Offered
<1>2. DOMAIN s.ups = 1..Len(s.ups) /\ Len(s.ups) \in Nat /\ Len(s.ups) >= 1
  BY <1>1, LenProperties, EmptySeq
<1>3. \A i, j \in 1..Len(s.ups) : s.ups[i] = s.ups[j] => i = j
  BY <1>1, <1>2 DEF IsInjective
<1>4. ASSUME NEW i \in 1..Len(s.ups) PROVE s.ups[i] \in ToSet(s.ups) /\ Pos(s.ups, s.ups[i]) = i
  <2>1. \E j \in 1..Len(s.ups) : s.ups[j] = s.ups[i]
    OBVIOUS
  <2>2. PICK k \in 1..Len(s.ups) : Pos(s.ups, s.ups[i]) = k /\ s.ups[k] = s.ups[i]
    BY <1>2, <2>1 DEF Pos
  <2> QED
    BY <1>2, <1>3, <2>2 DEF ToSet
<1>5. \A u \in ToSet(s.ups) : \E i \in 1..Len(s.ups) : s.ups[i] = u
  BY <1>2 DEF ToSet
<1> QED
  BY <1>1, <1>2, <1>3, <1>4, <1>5

\* Of the upstreams with most credit one is first in the list.
LEMMA FirstOfBest ==
    ASSUME NEW q, NEW N \in Nat, NEW H, H # {}, NEW c,
           \A u \in H : c[u] \in Int /\ \E i \in 1..N : q[i] = u,
           \A i \in 1..N : Pos(q, q[i]) = i
    PROVE  \E u \in H : \A v \in H \ {u} : c[u] > c[v] \/ (c[u] = c[v] /\ Pos(q, u) < Pos(q, v))
<1> DEFINE beats(u, v) == c[u] > c[v] \/ (c[u] = c[v] /\ Pos(q, u) < Pos(q, v))
           upto(n) == {u \in H : \E i \in 1..n : q[i] = u}
           best(n, u) == u \in upto(n) /\ \A v \in upto(n) \ {u} : beats(u, v)
           bad == {n \in 0..N : upto(n) # {} /\ ~\E u \in H : best(n, u)}
<1>1. upto(0) = {} /\ upto(N) = H
  OBVIOUS
<1>2. ASSUME NEW m \in 1..N
      PROVE  /\ upto(m - 1) \subseteq upto(m)
             /\ \A u \in upto(m) : u \in upto(m - 1) \/ u = q[m]
             /\ q[m] \in H => q[m] \in upto(m)
             /\ \A u \in upto(m - 1) : Pos(q, u) < Pos(q, q[m])
  <2>1. \A i \in 1..(m - 1) : i \in 1..m /\ i \in 1..N /\ i < m
    OBVIOUS
  <2>2. \A i \in 1..m : i \in 1..(m - 1) \/ i = m
    OBVIOUS
  <2>3. m \in 1..m
    OBVIOUS
  <2>4. ASSUME NEW u \in upto(m - 1) PROVE Pos(q, u) < Pos(q, q[m])
    <3>1. PICK i \in 1..(m - 1) : q[i] = u
      OBVIOUS
    <3>2. Pos(q, u) = i /\ Pos(q, q[m]) = m
      BY <2>1, <3>1
    <3> QED
      BY <2>1, <3>1, <3>2
  <2> QED
    BY <2>1, <2>2, <2>3, <2>4
<1>3. \A n : upto(n) \subseteq H
  OBVIOUS
<1>4. bad \in SUBSET Nat /\ \A n \in bad : n \in 0..N /\ upto(n) # {} /\ ~\E u \in H : best(n, u)
  OBVIOUS
<1>5. \A n \in 0..N : n \notin bad => upto(n) = {} \/ \E u \in H : best(n, u)
  OBVIOUS
<1> HIDE DEF bad, upto
<1>6. bad = {}
  <2> SUFFICES ASSUME bad # {} PROVE FALSE
    OBVIOUS
  <2>1. PICK m \in bad : \A n \in bad : m <= n
    BY <1>4, Least
  <2>2. m # 0
    BY <1>1, <1>4, <2>1
  <2>3. m \in 1..N /\ m - 1 \in 0..N /\ m - 1 < m
    BY <1>4, <2>1, <2>2
  <2>4. m - 1 \notin bad
    BY <1>4, <2>1, <2>3
  <2> DEFINE w == q[m]
  <2>5. ASSUME NEW u, best(m, u) PROVE FALSE
    BY <1>3, <1>4, <2>1, <2>5
  <2>6. w \in H
    <3> SUFFICES ASSUME w \notin H PROVE FALSE
      OBVIOUS
    <3>1. upto(m) = upto(m - 1)
      BY <1>2, <1>3, <2>3
    <3>2. PICK u \in H : best(m - 1, u)
      BY <1>4, <1>5, <2>1, <2>3, <2>4, <3>1
    <3> QED
      BY <2>5, <3>1, <3>2
  <2>7. w \in upto(m)
    BY <1>2, <2>3, <2>6
  <2>8. upto(m - 1) # {}
    <3> SUFFICES ASSUME upto(m - 1) = {} PROVE best(m, w)
      BY <2>5
    <3> QED
      BY <1>2, <2>3, <2>7
  <2>9. PICK u \in H : best(m - 1, u)
    BY <1>5, <2>3, <2>4, <2>8
  <2>10. u \in upto(m - 1) /\ u \in upto(m)
    BY <1>2, <2>3, <2>9
  <2>11. CASE c[u] >= c[w]
    <3>1. beats(u, w)
      BY <1>2, <2>3, <2>6, <2>10, <2>11
    <3>2. best(m, u)
      BY <1>2, <2>3, <2>9, <2>10, <3>1
    <3> QED
      BY <2>5, <3>2
  <2>12. CASE ~(c[u] >= c[w])
    <3>1. ASSUME NEW v \in upto(m - 1) PROVE c[w] > c[v]
      <4>1. c[u] \in Int /\ c[v] \in Int /\ c[w] \in Int
        BY <1>3, <2>6
      <4>2. c[u] >= c[v]
        BY <2>9, <4>1
      <4> QED
        BY <2>12, <4>1, <4>2
    <3>2. best(m, w)
      BY <1>2, <2>3, <2>7, <3>1
    <3> QED
      BY <2>5, <3>2
  <2> QED
    BY <2>11, <2>12
<1>7. PICK u \in H : best(N, u)
  BY <1>1, <1>5, <1>6
<1> QED
  BY <1>1, <1>7

\* The round robin has a pick, and it is in service.
LEMMA PickHealthy ==
    ASSUME NEW g, g.spec \in Offered, Steered(g), g.healthy # {}
    PROVE  RoundRobinPick(g) \in g.healthy
<1> DEFINE q == g.spec.ups
           c == Credited(g)
<1>1. /\ Len(q) \in Nat /\ \A i \in 1..Len(q) : Pos(q, q[i]) = i
      /\ \A u \in ToSet(q) : \E i \in 1..Len(q) : q[i] = u
      /\ g.spec.weight \in [ToSet(q) -> Nat \ {0}]
  BY OfferedList
<1>2. g.healthy \subseteq ToSet(q) /\ g.rr \in [ToSet(q) -> Int]
  BY DEF Steered
<1>3. \A u \in g.healthy : c[u] \in Int
  <2> TAKE u \in g.healthy
  <2>1. u \in ToSet(q) /\ DOMAIN g.rr = ToSet(q) /\ g.rr[u] \in Int /\ g.spec.weight[u] \in Int
    BY <1>1, <1>2
  <2>2. Credit(g)[u] = g.spec.weight[u]
    BY <2>1 DEF Credit
  <2> QED
    BY <2>1, <2>2 DEF Credited
<1> HIDE DEF q, c
<1>4. PICK u \in g.healthy : \A v \in g.healthy \ {u} : c[u] > c[v] \/ (c[u] = c[v] /\ Pos(q, u) < Pos(q, v))
  <2>1. \A u \in g.healthy : c[u] \in Int /\ \E i \in 1..Len(q) : q[i] = u
    BY <1>1, <1>2, <1>3
  <2>2. Len(q) \in Nat /\ \A i \in 1..Len(q) : Pos(q, q[i]) = i
    BY <1>1
  <2> QED
    BY <2>1, <2>2, FirstOfBest
<1> QED
  BY <1>4 DEF RoundRobinPick, Listed, c, q
\* Before the first pick the running weights are zero.
LEMMA ZeroTotal ==
    ASSUME NEW q, Len(q) \in Nat, NEW f, \A i \in 1..Len(q) : f[q[i]] = 0
    PROVE  Total(f, q) = 0
<1> DEFINE t == [i \in 0..Len(q) |-> 0]
<1>1. Sums(t, f, q)
  BY DEF Sums
<1>2. t[Len(q)] = 0
  OBVIOUS
<1> HIDE DEF t
<1> QED
  BY <1>1, <1>2, TotalIsLast

\* orderRoundRobin charges what it credited, so the running weights sum to zero
\* after the pick as before it.
LEMMA ChargedSteered ==
    ASSUME NEW g, Proper(g), Steered(g)
    PROVE  Steered(Charged(g)) /\ Charged(g).active = g.active
<1> DEFINE q == g.spec.ups
           U == ToSet(q)
           f == g.rr
           h == Credit(g)
           p == RoundRobinPick(g)
           c == Total(h, q)
           e == [Credited(g) EXCEPT ![p] = @ - c]
<1>1. DOMAIN g = Fields /\ g.spec \in Offered
  BY DEF Proper
<1>2. /\ Len(q) \in Nat /\ \A i, j \in 1..Len(q) : q[i] = q[j] => i = j
      /\ \A i \in 1..Len(q) : q[i] \in U
      /\ \A u \in U : \E i \in 1..Len(q) : q[i] = u
      /\ g.spec.weight \in [U -> Nat \ {0}]
  BY <1>1, OfferedList
<1>3. f \in [U -> Int] /\ Total(f, q) = 0 /\ g.healthy \subseteq U
  BY DEF Steered
<1>4. CASE ~Turns(g)
  BY <1>4 DEF Charged
<1>5. CASE Turns(g)
  <2>1. g.healthy # {}
    BY <1>5, FS_EmptySet DEF Turns
  <2>2. p \in g.healthy
    BY <1>1, <2>1, PickHealthy
  <2>3. h \in [U -> Int]
    BY <1>2, <1>3 DEF Credit
  <2>4. Credited(g) = [u \in U |-> f[u] + h[u]]
    BY <1>3 DEF Credited
  <2>5. Charged(g) = [g EXCEPT !.rr = e]
    BY <1>5 DEF Charged
  <2> HIDE DEF p, h, c
  <2>6. PICK t : Sums(t, h, q)
    BY <1>2, <2>3, SumsExist
  <2>7. c \in Int
    BY <1>2, <2>6, TotalIsLast DEF Sums, c
  <2>8. e \in [U -> Int] /\ \A u \in U : e[u] = f[u] + h[u] - (IF u = p THEN c ELSE 0)
    <3>0. p \in U
      BY <1>3, <2>2
    <3>1. PICK k : k = [u \in U |-> f[u] + h[u]]
      OBVIOUS
    <3>2. k \in [U -> Int] /\ \A u \in U : k[u] = f[u] + h[u] /\ f[u] \in Int /\ h[u] \in Int
      BY <1>3, <2>3, <3>1
    <3>3. e = [k EXCEPT ![p] = @ - c]
      BY <2>4, <3>1
    <3> HIDE DEF e, U
    <3>4. e \in [U -> Int] /\ \A u \in U : e[u] = IF u = p THEN k[u] - c ELSE k[u]
      BY <2>7, <3>0, <3>2, <3>3
    <3> QED
      BY <2>7, <3>2, <3>4
  <2> HIDE DEF e
  <2>9. PICK k \in 1..Len(q) : q[k] = p
    BY <1>2, <1>3, <2>2
  <2>10. \A i \in 1..Len(q) : /\ f[q[i]] \in Int /\ h[q[i]] \in Int
                              /\ e[q[i]] = f[q[i]] + h[q[i]] - (IF i = k THEN c ELSE 0)
    <3> TAKE i \in 1..Len(q)
    <3>1. q[i] \in U /\ (q[i] = p <=> i = k)
      BY <1>2, <2>9
    <3> QED
      BY <1>3, <2>3, <2>8, <3>1
  <2>11. Total(e, q) = Total(f, q) + Total(h, q) - c
    <3>1. Moved(e, f, h, q, k, c)
      BY <1>2, <2>7, <2>9, <2>10 DEF Moved
    <3> QED
      BY <3>1, TotalMoves
  <2>12. Total(e, q) = 0
    <3>1. Total(e, q) = 0 + c - c
      BY <1>3, <2>11 DEF c
    <3> QED
      BY <2>7, <3>1
  <2>13. /\ Charged(g).rr = e /\ Charged(g).spec = g.spec /\ Charged(g).healthy = g.healthy
         /\ Charged(g).probe = g.probe /\ Charged(g).active = g.active
    BY <1>1, <2>5 DEF Fields
  <2> QED
    BY <2>8, <2>12, <2>13 DEF Steered
<1> QED
  BY <1>4, <1>5

\* A report on a member of the group.
LEMMA ReportSteered ==
    ASSUME NEW g, Proper(g), Steered(g), NEW u \in ToSet(g.spec.ups),
           NEW h \in {ReportSuccess(g, u), ReportFailure(g, u)}
    PROVE  Steered(h) /\ h.active = g.active
<1>1. /\ h.spec = g.spec /\ h.probe = g.probe /\ h.active = g.active /\ h.rr = g.rr
  BY ReportFields DEF Proper
<1>2. h.healthy \in {g.healthy, g.healthy \cup {u}, g.healthy \ {u}}
  <2>1. DOMAIN g = Fields
    BY DEF Proper
  <2>2. CASE h = ReportSuccess(g, u)
    BY <2>1, <2>2 DEF ReportSuccess, Fields
  <2>3. CASE h = ReportFailure(g, u)
    BY <2>1, <2>3 DEF ReportFailure, Fields
  <2> QED
    BY <2>2, <2>3
<1> QED
  BY <1>1, <1>2 DEF Steered
\* A state is new and nobody holds it, or it keeps its group and its counts.
Carried(i) ==
    /\ Steered(inst'[i])
    /\ \/ /\ i \in DOMAIN inst /\ inst'[i].spec = inst[i].spec
          /\ inst'[i].active = inst[i].active
       \/ /\ \A r \in Req : rq[r].pc = "idle" \/ rq[r].g # i
          /\ \A u \in ToSet(inst'[i].spec.ups) : inst'[i].active[u] = 0

\* A step that leaves the requests alone, such as a probe or a reload.
LEMMA StatesCounted ==
    ASSUME PoolInv, PoolInv', CountInv, UNCHANGED rq, \A i \in DOMAIN inst' : Carried(i)
    PROVE  CountInv'
<1>1. \A i, u : Holding(i, u)' = Holding(i, u)
  BY DEF Holding, Holds
<1>2. ASSUME NEW i \in DOMAIN inst' PROVE Counted(i)'
  <2>1. CASE i \in DOMAIN inst /\ inst'[i].spec = inst[i].spec /\ inst'[i].active = inst[i].active
    BY <1>1, <1>2, <2>1 DEF Carried, CountInv, Counted
  <2>2. CASE /\ \A r \in Req : rq[r].pc = "idle" \/ rq[r].g # i
             /\ \A u \in ToSet(inst'[i].spec.ups) : inst'[i].active[u] = 0
    <3>1. \A u : Holding(i, u) = {}
      BY <2>2 DEF Holding, Holds
    <3>2. \A u : Cardinality(Holding(i, u)') = 0
      BY <1>1, <3>1, FS_EmptySet
    <3> QED
      BY <1>2, <2>2, <3>2 DEF Carried, Counted
  <2> QED
    BY <1>2, <2>1, <2>2 DEF Carried
<1>3. ASSUME NEW r \in Req PROVE Within(r)'
  <2> SUFFICES ASSUME rq[r].pc \in {"pin", "try", "dial", "body"}
               PROVE  ToSet(rq[r].cands) \subseteq Members(rq[r])'
    BY DEF Within
  <2>1. Asking(r)' /\ rq'[r] = rq[r]
    BY DEF PoolInv, Requests
  <2>2. rq[r].g \in DOMAIN inst'
    BY <2>1 DEF Asking, Live
  <2>3. inst'[rq[r].g].spec = inst[rq[r].g].spec
    BY <2>2 DEF Carried
  <2> QED
    BY <2>3 DEF CountInv, Within, Members
<1> QED
  BY <1>2, <1>3 DEF CountInv

\* The probers keep the counters.
LEMMA ProbeCounted ==
    ASSUME PoolInv, PoolInv', CountInv, NEW i \in Inst, ProbeOne(i) \/ ProbeWait(i)
    PROVE  CountInv'
<1> DEFINE g == inst[i]
           q == g.spec.ups
<1>1. /\ i \in DOMAIN inst /\ UNCHANGED rq /\ Proper(g) /\ Steered(g) /\ DOMAIN g = Fields
      /\ g.spec \in Offered /\ g.probe \in Int /\ g.probe <= Len(q)
      /\ \A j \in DOMAIN inst : Steered(inst[j])
  BY DEF PoolInv, States, Proper, ProbeOne, ProbeWait, CountInv, Counted, Steered
<1>2. Len(q) \in Nat /\ Len(q) >= 1 /\ \A n \in 1..Len(q) : q[n] \in ToSet(q)
  BY <1>1, OfferedList
<1>3. ASSUME NEW k, DOMAIN k = Fields, k.spec = g.spec, k.active = g.active, Steered(k),
             NEW p \in Int, p <= Len(q), inst' = [inst EXCEPT ![i] = [k EXCEPT !.probe = p]]
      PROVE  CountInv'
  <2> DEFINE h == [k EXCEPT !.probe = p]
  <2>1. /\ h.spec = k.spec /\ h.active = k.active /\ h.healthy = k.healthy /\ h.rr = k.rr
        /\ h.probe = p
    BY <1>3 DEF Fields
  <2>2. inst' = [inst EXCEPT ![i] = h]
    BY <1>3
  <2> HIDE DEF h
  <2>3. Steered(h)
    BY <1>3, <2>1 DEF Steered
  <2>4. \A j \in DOMAIN inst' : Carried(j)
    BY <1>1, <1>3, <2>1, <2>2, <2>3 DEF Carried
  <2> QED
    BY <1>1, <2>4, StatesCounted
<1>4. CASE ProbeOne(i)
  <2>1. PICK k \in {ReportSuccess(g, q[g.probe]), ReportFailure(g, q[g.probe])},
             p \in {IF g.probe < Len(q) THEN g.probe + 1 ELSE Waiting} :
                 inst' = [inst EXCEPT ![i] = [k EXCEPT !.probe = p]]
    BY <1>4 DEF ProbeOne
  <2>2. g.probe \in 1..Len(q)
    BY <1>1, <1>2, <1>4 DEF ProbeOne
  <2>3. p \in Int /\ p <= Len(q)
    BY <1>1, <1>2, <2>1, <2>2 DEF Waiting
  <2>4. Steered(k) /\ k.active = g.active /\ DOMAIN k = Fields /\ k.spec = g.spec
    BY <1>1, <1>2, <2>1, <2>2, ReportSteered, ReportFields
  <2> QED
    BY <1>3, <2>1, <2>3, <2>4
<1>5. CASE ProbeWait(i)
  <2>1. PICK p \in {1, Gone} : inst' = [inst EXCEPT ![i] = [g EXCEPT !.probe = p]]
    BY <1>5 DEF ProbeWait
  <2>2. p \in Int /\ p <= Len(q)
    BY <1>2, <2>1 DEF Gone
  <2> QED
    BY <1>1, <1>3, <2>1, <2>2
<1> QED
  BY <1>4, <1>5

\* A new state starts with every upstream in service, nothing open and no weight.
LEMMA NewSteered ==
    ASSUME NEW s \in Offered
    PROVE  /\ Steered(NewGroupHealth(s)) /\ NewGroupHealth(s).spec = s
           /\ \A u \in ToSet(s.ups) : NewGroupHealth(s).active[u] = 0
<1> DEFINE g == NewGroupHealth(s)
           z == [u \in ToSet(s.ups) |-> 0]
<1>1. /\ g.spec = s /\ g.healthy = ToSet(s.ups) /\ g.active = z /\ g.rr = z /\ g.probe = -1
  BY DEF NewGroupHealth, Off
<1>2. Len(s.ups) \in Nat /\ \A i \in 1..Len(s.ups) : s.ups[i] \in ToSet(s.ups)
  BY OfferedList
<1>3. Total(z, s.ups) = 0
  BY <1>2, ZeroTotal
<1> QED
  BY <1>1, <1>2, <1>3 DEF Steered

\* The reloads and the shutdown keep the counters.
LEMMA ReloadCounted ==
    ASSUME PoolInv, PoolInv', CountInv, Reload \/ StopAll
    PROVE  CountInv'
<1>1. /\ UNCHANGED rq /\ States /\ Protocol /\ Requests
      /\ \A j \in DOMAIN inst : Steered(inst[j]) /\ Proper(inst[j]) /\ DOMAIN inst[j] = Fields
  BY DEF PoolInv, States, Proper, Reload, Stage, BuildFails, Commit, Swap, StopAll, CountInv, Counted
<1>2. ASSUME NEW j \in DOMAIN inst, inst'[j] = inst[j] PROVE Carried(j)
  BY <1>1, <1>2 DEF Carried
<1>3. ASSUME NEW j \in DOMAIN inst, inst'[j] = [inst[j] EXCEPT !.stop = TRUE] PROVE Carried(j)
  <2>1. /\ inst'[j].spec = inst[j].spec /\ inst'[j].active = inst[j].active
        /\ inst'[j].healthy = inst[j].healthy /\ inst'[j].rr = inst[j].rr
        /\ inst'[j].probe = inst[j].probe
    BY <1>1, <1>3 DEF Fields
  <2> QED
    BY <1>1, <2>1 DEF Carried, Steered
<1>4. ASSUME NEW j \in DOMAIN inst, inst'[j] = [inst[j] EXCEPT !.probe = 1] PROVE Carried(j)
  <2>1. /\ inst'[j].spec = inst[j].spec /\ inst'[j].active = inst[j].active
        /\ inst'[j].healthy = inst[j].healthy /\ inst'[j].rr = inst[j].rr
        /\ inst'[j].probe = 1
    BY <1>1, <1>4 DEF Fields
  <2>2. Len(inst[j].spec.ups) >= 1
    BY <1>1, OfferedList DEF Proper
  <2> QED
    BY <1>1, <2>1, <2>2 DEF Carried, Steered
<1>5. \A j \in DOMAIN inst' : Carried(j)
  <2>1. ASSUME NEW s \in mix.specs, Stage(s) PROVE \A j \in DOMAIN inst' : Carried(j)
    <3>1. CASE UNCHANGED inst
      BY <1>2, <3>1
    <3>2. CASE inst' # inst
      <4>1. PICK n : /\ s # None /\ n \in Unmade
                     /\ inst' = [i \in DOMAIN inst \cup {n} |->
                                    IF i = n THEN NewGroupHealth(s) ELSE inst[i]]
        BY <2>1, <3>2 DEF Stage
      <4>2. s \in Offered
        BY <1>1, <4>1 DEF Offered, States
      <4>3. ASSUME NEW r \in Req PROVE rq[r].pc = "idle" \/ rq[r].g # n
        <5> SUFFICES ASSUME rq[r].pc # "idle", rq[r].g = n PROVE FALSE
          OBVIOUS
        <5>1. Live(n)
          BY <1>1 DEF Requests, Asking
        <5> QED
          BY <4>1, <5>1 DEF Unmade, Live
      <4>4. inst'[n] = NewGroupHealth(s)
        BY <4>1
      <4>5. Carried(n)
        BY <4>2, <4>3, <4>4, NewSteered DEF Carried
      <4>6. ASSUME NEW j \in DOMAIN inst', j # n PROVE Carried(j)
        BY <1>2, <4>1, <4>6
      <4> QED
        BY <4>5, <4>6
    <3> QED
      BY <3>1, <3>2
  <2>2. CASE BuildFails
    BY <1>2, <2>2 DEF BuildFails, Restrict
  <2>3. CASE Commit
    BY <1>2, <1>3, <1>4, <2>3 DEF Commit
  <2>4. CASE Swap
    BY <1>2, <2>4 DEF Swap
  <2>5. CASE StopAll
    <3>1. DOMAIN inst' = DOMAIN inst
      BY <2>5 DEF StopAll
    <3>2. \A j \in DOMAIN inst : inst'[j] = inst[j] \/ inst'[j] = [inst[j] EXCEPT !.stop = TRUE]
      BY <2>5 DEF StopAll
    <3> QED
      BY <1>2, <1>3, <3>1, <3>2
  <2> QED
    BY <2>1, <2>2, <2>3, <2>4, <2>5 DEF Reload
<1> QED
  BY <1>1, <1>5, StatesCounted
\* A request q has an attempt open.
Open(q) == q.pc \in {"dial", "body"}

\* State i becomes h, the others stay as they are.
Becomes(i, h) ==
    /\ i \in DOMAIN inst /\ DOMAIN inst' = DOMAIN inst /\ inst'[i] = h
    /\ \A j \in DOMAIN inst \ {i} : inst'[j] = inst[j]

\* A step of client r whose attempts are on u in state i: the state becomes h,
\* the request q, and the count of u follows the attempts that r has open.
Attempted(r, i, u, h, q) ==
    /\ Becomes(i, h) /\ rq' = [rq EXCEPT ![r] = q]
    /\ Steered(h) /\ h.spec = inst[i].spec
    /\ Open(rq[r]) => rq[r].g = i /\ Head(rq[r].cands) = u
    /\ Open(q) => q.g = i /\ Head(q.cands) = u
    /\ h.active = IF Open(q) = Open(rq[r]) THEN inst[i].active
                  ELSE IF Open(q) THEN [inst[i].active EXCEPT ![u] = @ + 1]
                  ELSE [inst[i].active EXCEPT ![u] = @ - 1]
    /\ q.pc \in {"pin", "try", "dial", "body"} =>
           q.g = i /\ ToSet(q.cands) \subseteq ToSet(h.spec.ups)

\* Such a step keeps the counters.
LEMMA AttemptCounted ==
    ASSUME PoolInv, CountInv, NEW r \in Req, NEW i, NEW u, NEW h, NEW q, Attempted(r, i, u, h, q)
    PROVE  CountInv'
<1>1. /\ rq \in [Req -> Request] /\ i \in DOMAIN inst /\ DOMAIN inst' = DOMAIN inst
      /\ inst'[i] = h /\ rq'[r] = q /\ DOMAIN rq' = Req
      /\ \A j \in DOMAIN inst : j # i => inst'[j] = inst[j]
      /\ \A o \in Req : o # r => rq'[o] = rq[o]
  BY DEF PoolInv, Requests, Attempted, Becomes
<1>2. \A j \in DOMAIN inst : inst'[j].spec = inst[j].spec
  BY <1>1 DEF Attempted
<1>3. ASSUME NEW o \in Req PROVE Within(o)'
  <2>1. CASE o = r
    BY <1>1, <2>1 DEF Within, Members, Attempted
  <2>2. CASE o # r
    <3> SUFFICES ASSUME rq[o].pc \in {"pin", "try", "dial", "body"}
                 PROVE  ToSet(rq[o].cands) \subseteq Members(rq[o])'
      BY <1>1, <2>2 DEF Within, Members
    <3>1. rq[o].g \in DOMAIN inst
      BY DEF PoolInv, Requests, Asking, Live
    <3> QED
      BY <1>1, <1>2, <2>2, <3>1 DEF CountInv, Within, Members
  <2> QED
    BY <2>1, <2>2
<1>4. \A j, v : Holding(j, v) \subseteq Req /\ IsFiniteSet(Holding(j, v))
  BY PoolAssumption, FS_Subset DEF Holding
<1>5. ASSUME NEW j, NEW v, j # i \/ v # u PROVE Holding(j, v)' = Holding(j, v)
  <2>1. r \notin Holding(j, v) /\ r \notin Holding(j, v)'
    BY <1>1, <1>5 DEF Holding, Holds, Attempted, Open
  <2> QED
    BY <1>1, <2>1 DEF Holding, Holds
<1>6. /\ r \in Holding(i, u) <=> Open(rq[r])
      /\ r \in Holding(i, u)' <=> Open(q)
      /\ \A o \in Req : o # r => (o \in Holding(i, u)' <=> o \in Holding(i, u))
  BY <1>1 DEF Holding, Holds, Attempted, Open
<1>7. Cardinality(Holding(i, u)') = IF Open(q) = Open(rq[r]) THEN Cardinality(Holding(i, u))
                                    ELSE IF Open(q) THEN Cardinality(Holding(i, u)) + 1
                                    ELSE Cardinality(Holding(i, u)) - 1
  <2>0. Holding(i, u)' \subseteq Req /\ Holding(i, u) \subseteq Req
    BY DEF Holding
  <2>1. CASE Open(q) <=> Open(rq[r])
    <3>1. Holding(i, u)' = Holding(i, u)
      BY <1>6, <2>0, <2>1
    <3>2. Open(q) = Open(rq[r])
      BY <2>1 DEF Open
    <3> QED
      BY <3>1, <3>2
  <2>2. CASE Open(q) /\ ~Open(rq[r])
    <3>1. Holding(i, u)' = Holding(i, u) \cup {r} /\ r \notin Holding(i, u)
      BY <1>6, <2>0, <2>2
    <3> QED
      BY <1>4, <2>2, <3>1, FS_AddElement
  <2>3. CASE ~Open(q) /\ Open(rq[r])
    <3>1. Holding(i, u)' = Holding(i, u) \ {r} /\ r \in Holding(i, u)
      BY <1>6, <2>0, <2>3
    <3> QED
      BY <1>4, <2>3, <3>1, FS_RemoveElement
  <2> QED
    BY <2>1, <2>2, <2>3
<1>8. ASSUME NEW j \in DOMAIN inst PROVE Counted(j)'
  <2>0. Counted(j)
    BY DEF CountInv
  <2>1. CASE j # i
    BY <1>1, <1>5, <2>0, <2>1 DEF Counted
  <2>2. CASE j = i
    <3>1. ASSUME NEW v \in ToSet(h.spec.ups) PROVE h.active[v] = Cardinality(Holding(i, v)')
      <4>1. v \in ToSet(inst[i].spec.ups) /\ inst[i].active[v] = Cardinality(Holding(i, v))
        BY <2>0, <2>2, <3>1 DEF Counted, Attempted
      <4>2. inst[i].active \in [ToSet(inst[i].spec.ups) -> Int]
        BY <2>0, <2>2 DEF Counted, Steered
      <4>3. CASE v # u
        <5>1. h.active[v] = inst[i].active[v]
          BY <4>1, <4>2, <4>3 DEF Attempted
        <5> QED
          BY <1>5, <4>1, <4>3, <5>1
      <4>4. CASE v = u
        <5>1. h.active[u] = IF Open(q) = Open(rq[r]) THEN inst[i].active[u]
                            ELSE IF Open(q) THEN inst[i].active[u] + 1
                            ELSE inst[i].active[u] - 1
          BY <4>1, <4>2, <4>4 DEF Attempted
        <5> QED
          BY <1>7, <4>1, <4>4, <5>1
      <4> QED
        BY <4>3, <4>4
    <3>2. Steered(h)
      BY DEF Attempted
    <3> QED
      BY <1>1, <2>2, <3>1, <3>2 DEF Counted
  <2> QED
    BY <2>1, <2>2
<1> QED
  BY <1>1, <1>3, <1>8 DEF CountInv
\* g with the count of u set to x.
WithActive(g, u, x) == [g EXCEPT !.active = [g.active EXCEPT ![u] = x]]

\* A change of a member's count leaves the rest of a state alone.
LEMMA ActiveSteered ==
    ASSUME NEW g, Proper(g), Steered(g), NEW u \in ToSet(g.spec.ups), NEW x \in Int
    PROVE  /\ Steered(WithActive(g, u, x)) /\ Proper(WithActive(g, u, x))
           /\ WithActive(g, u, x).spec = g.spec
           /\ WithActive(g, u, x).active = [g.active EXCEPT ![u] = x]
<1> DEFINE h == WithActive(g, u, x)
<1>1. DOMAIN g = Fields
  BY DEF Proper
<1>2. /\ h.spec = g.spec /\ h.healthy = g.healthy /\ h.rr = g.rr /\ h.probe = g.probe
      /\ h.active = [g.active EXCEPT ![u] = x]
  BY <1>1 DEF Fields, WithActive
<1>3. h.active \in [ToSet(g.spec.ups) -> Int]
  BY <1>2 DEF Steered
<1>4. Steered(h)
  BY <1>2, <1>3 DEF Steered
<1> QED
  BY <1>2, <1>4, ActiveFields DEF WithActive

\* A client that has no attempt open before or after the step.
LEMMA ChoiceCounted ==
    ASSUME PoolInv, CountInv, NEW r \in Req, mix.big \subseteq BOOLEAN,
           Arrive(r) \/ Pick(r) \/ Pin(r) \/ Finish(r)
    PROVE  CountInv'
<1>1. /\ rq \in [Req -> Request] /\ rq[r] \in Request /\ Asking(r) /\ Within(r) /\ Protocol
      /\ ~Open(rq[r])
      /\ \A j \in DOMAIN inst : Steered(inst[j]) /\ Proper(inst[j])
  BY DEF PoolInv, States, Requests, CountInv, Counted, Arrive, Pick, Pin, Finish, Open
<1>2. ASSUME NEW i \in DOMAIN inst, NEW q, rq' = [rq EXCEPT ![r] = q], ~Open(q),
             NEW h, Becomes(i, h), Steered(h),
             h.spec = inst[i].spec, h.active = inst[i].active,
             q.pc \in {"pin", "try"} => q.g = i /\ ToSet(q.cands) \subseteq ToSet(h.spec.ups)
      PROVE  CountInv'
  <2>1. Open(q) = Open(rq[r])
    BY <1>1, <1>2 DEF Open
  <2>2. q.pc \in {"pin", "try", "dial", "body"} => q.pc \in {"pin", "try"}
    BY <1>2 DEF Open
  <2>3. Attempted(r, i, None, h, q)
    BY <1>1, <1>2, <2>1, <2>2 DEF Attempted
  <2> QED
    BY <2>3, AttemptCounted
<1>3. CASE Arrive(r)
  <2>1. PICK b \in mix.big : rq' = [rq EXCEPT ![r] = [Idle EXCEPT !.pc = "pick", !.g = router, !.big = b]]
    BY <1>3 DEF Arrive
  <2> DEFINE q == [Idle EXCEPT !.pc = "pick", !.g = router, !.big = b]
  <2>2. q.pc = "pick" /\ ~Open(q)
    BY DEF Idle, Open
  <2>3. router \in DOMAIN inst /\ Becomes(router, inst[router])
    BY <1>1, <1>3 DEF Arrive, Protocol, Live, Becomes
  <2>4. rq' = [rq EXCEPT ![r] = q]
    BY <2>1
  <2> HIDE DEF q
  <2> QED
    BY <1>1, <1>2, <2>2, <2>3, <2>4
<1> DEFINE i == rq[r].g
<1>4. CASE Finish(r)
  <2>1. i \in DOMAIN inst /\ UNCHANGED inst /\ rq' = [rq EXCEPT ![r] = Idle]
    BY <1>1, <1>4 DEF Finish, Asking, Live
  <2>2. Becomes(i, inst[i]) /\ ~Open(Idle) /\ Idle.pc = "idle"
    BY <2>1 DEF Open, Idle, Becomes
  <2> QED
    BY <1>1, <1>2, <2>1, <2>2
<1>5. CASE Pick(r)
  <2>1. PICK s \in Candidates(inst[i], r) : rq' = [rq EXCEPT ![r].pc = "pin", ![r].cands = s]
    BY <1>5 DEF Pick
  <2>2. i \in DOMAIN inst /\ Becomes(i, Charged(inst[i]))
    BY <1>1, <1>5 DEF Pick, Asking, Live, Becomes
  <2>3. /\ Steered(Charged(inst[i])) /\ Charged(inst[i]).active = inst[i].active
        /\ Charged(inst[i]).spec = inst[i].spec
    BY <1>1, <2>2, ChargedSteered, ChargedFields DEF Proper
  <2>4. ToSet(s) = ToSet(inst[i].spec.ups)
    BY <1>1, <2>1, <2>2, CandidatesAll DEF Proper
  <2> DEFINE q == [rq[r] EXCEPT !.pc = "pin", !.cands = s]
  <2>5. rq' = [rq EXCEPT ![r] = q] /\ q.pc = "pin" /\ q.g = i /\ q.cands = s /\ ~Open(q)
    BY <1>1, <2>1 DEF Request, Open
  <2> HIDE DEF q
  <2> QED
    BY <1>2, <2>2, <2>3, <2>4, <2>5
<1>6. CASE Pin(r)
  <2>1. /\ i \in DOMAIN inst /\ UNCHANGED inst /\ rq[r].pc = "pin"
        /\ rq[r].cands \in Seq(Upstream) /\ rq[r].cands # <<>>
        /\ ToSet(rq[r].cands) = ToSet(inst[i].spec.ups)
    BY <1>1, <1>6 DEF Pin, Asking, Live, Members, Request
  <2>2. Becomes(i, inst[i])
    BY <2>1 DEF Becomes
  <2>3. CASE rq' = [rq EXCEPT ![r].pc = "gone"]
    <3> DEFINE q == [rq[r] EXCEPT !.pc = "gone"]
    <3>1. rq' = [rq EXCEPT ![r] = q] /\ q.pc = "gone" /\ ~Open(q)
      BY <1>1, <2>3 DEF Request, Open
    <3> HIDE DEF q
    <3> QED
      BY <1>1, <1>2, <2>1, <2>2, <3>1
  <2>4. ASSUME NEW p, NEW s, s = Promote(rq[r].cands, p),
               rq' = [rq EXCEPT ![r].pc = "try", ![r].pinned = p,
                                ![r].cands = IF rq[r].big THEN <<s[1]>> ELSE s]
        PROVE  CountInv'
    <3>1. s \in Seq(Upstream) /\ s # <<>> /\ ToSet(s) = ToSet(inst[i].spec.ups)
      BY <2>1, <2>4, PromoteAll
    <3>2. s[1] \in ToSet(s)
      BY <3>1, HeadAndTail
    <3>3. ToSet(<<s[1]>>) = {s[1]}
      BY DEF ToSet
    <3> DEFINE c == IF rq[r].big THEN <<s[1]>> ELSE s
               q == [rq[r] EXCEPT !.pc = "try", !.pinned = p, !.cands = c]
    <3>4. ToSet(c) \subseteq ToSet(inst[i].spec.ups)
      BY <3>1, <3>2, <3>3
    <3> HIDE DEF c
    <3>5. rq' = [rq EXCEPT ![r] = q] /\ q.pc = "try" /\ q.g = i /\ q.cands = c /\ ~Open(q)
      BY <1>1, <2>4 DEF Request, Open, c
    <3> HIDE DEF q
    <3> QED
      BY <1>1, <1>2, <2>1, <2>2, <3>4, <3>5
  <2> QED
    BY <1>6, <2>3, <2>4 DEF Pin
<1> QED
  BY <1>3, <1>4, <1>5, <1>6

\* A client that has an attempt open before or after the step: every way into it
\* counts up and every way out of it counts down, once.
LEMMA OpenCounted ==
    ASSUME PoolInv, CountInv, NEW r \in Req,
           Try(r) \/ Answer(r) \/ ConnectFails(r) \/ OtherError(r) \/ CloseBody(r)
    PROVE  CountInv'
<1> DEFINE i == rq[r].g
           g == inst[i]
           s == rq[r].cands
           u == Head(s)
<1>1. /\ rq \in [Req -> Request] /\ rq[r] \in Request /\ Asking(r) /\ Within(r)
      /\ rq[r].pc \in {"try", "dial", "body"}
  BY DEF PoolInv, Requests, CountInv, Try, Answer, ConnectFails, OtherError, CloseBody
<1>2. /\ i \in DOMAIN inst /\ s \in Seq(Upstream) /\ s # <<>>
      /\ ToSet(s) \subseteq ToSet(g.spec.ups)
  BY <1>1 DEF Asking, Live, Request, Within, Members
<1>3. Proper(g) /\ Steered(g)
  BY <1>2 DEF PoolInv, States, CountInv, Counted
<1>4. u \in ToSet(g.spec.ups) /\ ToSet(Tail(s)) \subseteq ToSet(g.spec.ups)
  BY <1>2, HeadAndTail
<1>5. g.active[u] \in Int
  BY <1>3, <1>4 DEF Steered
<1> DEFINE up == WithActive(g, u, g.active[u] + 1)
           dn == WithActive(g, u, g.active[u] - 1)
<1>6. /\ Steered(up) /\ up.spec = g.spec /\ up.active = [g.active EXCEPT ![u] = @ + 1]
  <2>1. g.active[u] + 1 \in Int
    BY <1>5
  <2> HIDE DEF g, u
  <2> QED
    BY <1>3, <1>4, <2>1, ActiveSteered
<1>7. /\ Steered(dn) /\ Proper(dn) /\ dn.spec = g.spec /\ dn.active = [g.active EXCEPT ![u] = @ - 1]
  <2>1. g.active[u] - 1 \in Int
    BY <1>5
  <2> HIDE DEF g, u
  <2> QED
    BY <1>3, <1>4, <2>1, ActiveSteered
<1> HIDE DEF up, dn
<1>8. ASSUME NEW q, rq' = [rq EXCEPT ![r] = q], NEW h, Becomes(i, h),
             Steered(h), h.spec = g.spec,
             Open(q) => q.g = i /\ q.cands = s,
             h.active = IF Open(q) = Open(rq[r]) THEN g.active
                        ELSE IF Open(q) THEN [g.active EXCEPT ![u] = @ + 1]
                        ELSE [g.active EXCEPT ![u] = @ - 1],
             q.pc = "try" => q.g = i /\ q.cands = Tail(s),
             q.pc # "pin"
      PROVE  CountInv'
  <2>1. Open(rq[r]) => rq[r].g = i /\ Head(rq[r].cands) = u
    OBVIOUS
  <2>2. q.pc \in {"pin", "try", "dial", "body"} =>
            q.g = i /\ ToSet(q.cands) \subseteq ToSet(h.spec.ups)
    BY <1>2, <1>4, <1>8 DEF Open
  <2>3. Attempted(r, i, u, h, q)
    BY <1>2, <1>8, <2>1, <2>2 DEF Attempted
  <2> QED
    BY <2>3, AttemptCounted
<1>9. CASE Try(r)
  <2>0. rq[r].pc = "try" /\ ~Open(rq[r])
    BY <1>9 DEF Try, Open
  <2>1. CASE rq' = [rq EXCEPT ![r].pc = "dial"] /\ inst' = [inst EXCEPT ![i].active[u] = @ + 1]
    <3> DEFINE q == [rq[r] EXCEPT !.pc = "dial"]
    <3>1. rq' = [rq EXCEPT ![r] = q] /\ q.pc = "dial" /\ q.g = i /\ q.cands = s /\ Open(q)
      BY <1>1, <2>1 DEF Request, Open
    <3>2. Becomes(i, up)
      BY <1>2, <2>1 DEF up, WithActive, Becomes
    <3> HIDE DEF q
    <3> QED
      BY <1>6, <1>8, <2>0, <3>1, <3>2
  <2>2. CASE rq' = [rq EXCEPT ![r].pc = "gone"] /\ UNCHANGED inst
    <3> DEFINE q == [rq[r] EXCEPT !.pc = "gone"]
    <3>1. rq' = [rq EXCEPT ![r] = q] /\ q.pc = "gone" /\ ~Open(q)
      BY <1>1, <2>2 DEF Request, Open
    <3>2. Becomes(i, g)
      BY <1>2, <2>2 DEF Becomes
    <3>3. Open(q) = Open(rq[r])
      BY <2>0, <3>1 DEF Open
    <3> HIDE DEF q
    <3> QED
      BY <1>3, <1>8, <3>1, <3>2, <3>3
  <2> QED
    BY <1>9, <2>1, <2>2 DEF Try
<1>10. CASE Answer(r)
  <2> DEFINE q == [rq[r] EXCEPT !.pc = "body"]
             h == ReportSuccess(g, u)
  <2>1. rq[r].pc = "dial" /\ Becomes(i, h) /\ rq' = [rq EXCEPT ![r].pc = "body"]
    BY <1>2, <1>10 DEF Answer, Becomes
  <2>2. rq' = [rq EXCEPT ![r] = q] /\ q.pc = "body" /\ q.g = i /\ q.cands = s /\ Open(q)
    BY <1>1, <2>1 DEF Request, Open
  <2>3. Steered(h) /\ h.active = g.active /\ h.spec = g.spec
    BY <1>3, <1>4, ReportSteered, ReportFields DEF Proper
  <2>4. Open(q) = Open(rq[r])
    BY <2>1, <2>2 DEF Open
  <2> HIDE DEF q, h
  <2> QED
    BY <1>8, <2>1, <2>2, <2>3, <2>4
<1>11. CASE ConnectFails(r)
  <2> DEFINE q == [rq[r] EXCEPT !.pc = IF Len(s) = 1 THEN "refused" ELSE "try",
                                !.cands = Tail(s), !.tried = @ \cup {u}]
             h == ReportFailure(dn, u)
  <2>1. rq[r].pc = "dial" /\ Becomes(i, h) /\ rq' = [rq EXCEPT ![r] = q]
    BY <1>1, <1>2, <1>11 DEF ConnectFails, dn, WithActive, Becomes
  <2>2. q.pc \in {"refused", "try"} /\ q.g = i /\ q.cands = Tail(s) /\ ~Open(q) /\ Open(rq[r])
    BY <1>1, <2>1 DEF Request, Open
  <2>3. Steered(h) /\ h.active = dn.active /\ h.spec = g.spec
    BY <1>4, <1>7, ReportSteered, ReportFields DEF Proper
  <2> HIDE DEF q, h
  <2> QED
    BY <1>7, <1>8, <2>1, <2>2, <2>3
<1>12. CASE OtherError(r)
  <2> DEFINE q == [rq[r] EXCEPT !.pc = "gone"]
  <2>1. rq[r].pc = "dial" /\ rq' = [rq EXCEPT ![r] = q] /\ Becomes(i, dn)
    BY <1>1, <1>2, <1>12 DEF OtherError, dn, WithActive, Becomes
  <2>2. q.pc = "gone" /\ ~Open(q) /\ Open(rq[r])
    BY <1>1, <2>1 DEF Request, Open
  <2> HIDE DEF q
  <2> QED
    BY <1>7, <1>8, <2>1, <2>2
<1>13. CASE CloseBody(r)
  <2>1. rq[r].pc = "body" /\ rq' = [rq EXCEPT ![r] = Idle] /\ Becomes(i, dn)
    BY <1>1, <1>2, <1>13 DEF CloseBody, dn, WithActive, Becomes
  <2>2. Idle.pc = "idle" /\ ~Open(Idle) /\ Open(rq[r])
    BY <2>1 DEF Idle, Open
  <2> QED
    BY <1>7, <1>8, <2>1, <2>2
<1> QED
  BY <1>9, <1>10, <1>11, <1>12, <1>13

\* Every step keeps the counters.
LEMMA CountNext ==
    ASSUME PoolInv, PoolInv', CountInv, [PoolNext]_poolVars
    PROVE  CountInv'
<1>1. mix.big \subseteq BOOLEAN /\ mix.reqs \subseteq Req
  BY PoolAssumption DEF PoolInv, States
<1>2. ASSUME UNCHANGED <<inst, rq>> PROVE CountInv'
  <2>1. \A i \in DOMAIN inst' : Carried(i)
    BY <1>2 DEF Carried, CountInv, Counted
  <2> QED
    BY <1>2, <2>1, StatesCounted
<1>3. ASSUME NEW r \in mix.reqs, Forward(r) PROVE CountInv'
  BY <1>1, <1>3, ChoiceCounted, OpenCounted DEF Forward
<1>4. ASSUME NEW u, Flap(u) PROVE CountInv'
  BY <1>2, <1>4 DEF Flap
<1>5. CASE UNCHANGED poolVars
  BY <1>2, <1>5 DEF poolVars
<1> QED
  BY <1>3, <1>4, <1>5, ProbeCounted, ReloadCounted DEF PoolNext

\* However probes, requests, failures and reloads interleave, and for every
\* group: each state's active counts are the requests that hold its upstreams,
\* and its round-robin weights sum to zero.
THEOREM CountersStayExact == PoolSpec => []CountersExact
<1>1. PoolInit => CountInv
  <2> SUFFICES ASSUME PoolInit PROVE CountInv
    OBVIOUS
  <2>1. DOMAIN inst = {} /\ \A r \in Req : rq[r].pc = "idle"
    BY DEF PoolInit, Idle
  <2> QED
    BY <2>1 DEF CountInv, Within
<1>2. PoolInv /\ PoolInv' /\ CountInv /\ [PoolNext]_poolVars => CountInv'
  BY CountNext
<1>3. CountInv => CountersExact
  BY DEF CountInv, Counted, Steered, Holding, CountersExact
<1> QED
  BY <1>1, <1>2, <1>3, PoolThroughout, PTL DEF PoolSpec

=============================================================================
