------------------------------ MODULE DNSSync ------------------------------
(***************************************************************************)
(* The DNS reconciler (internal/dnssync) and its ownership ledger.         *)
(*                                                                         *)
(* A reconcile reads the configuration, then the ledger, then the records  *)
(* a backend holds, decides, and writes record by record; at the end it    *)
(* saves the ledger, compare-and-swap on the store's revision.  Operators  *)
(* edit the zone and the configuration at any moment in between, a revert  *)
(* rewrites the ledger, and any call may fail.                             *)
(*                                                                         *)
(* One backend is modelled.  Pi-hole and Cloudflare share the decisions    *)
(* and the order of the writes; they differ in the mark a record can carry *)
(* and in what names the record a delete is for.                           *)
(***************************************************************************)
EXTENDS Naturals, FiniteSets

CONSTANTS
    Domain,    \* names a host may publish
    Target,    \* the values apexTarget takes
    Foreign,   \* a target of the operator's own
    First,     \* apexTarget at start
    Backend,   \* "pihole" or "cloudflare"
    Ops,       \* what operators do
    Faults,    \* what may fail
    MaxEdits,  \* bound on what operators do
    MaxFails,  \* bound on the failures
    None       \* no record, no claim

OpKinds == {"config", "commit", "revert", "now", "create", "repoint", "delete"}
FaultKinds == {"backend", "lost", "save", "crash"}

Record == [target : Target \cup {Foreign}, by : {"gpm", "operator"}, mark : BOOLEAN]
Claim == [target : Target, adopted : BOOLEAN]
Ledger == [Domain -> Claim \cup {None}]

ASSUME DNSSyncAssumption ==
    /\ First \in Target /\ Foreign \notin Target /\ None \notin Domain \cup Record \cup Claim
    /\ Backend \in {"pihole", "cloudflare"}
    /\ Ops \subseteq OpKinds /\ Faults \subseteq FaultKinds
    /\ MaxEdits \in Nat /\ MaxFails \in Nat

VARIABLES
    zone,    \* the backend's records; by is a history variable: who wrote it
    want,    \* configuration: the names to publish
    apex,    \* configuration: the target to publish them with
    ledger,  \* the stored ledger: a claim per name
    rev,     \* the store's revision
    past,    \* the configurations and ledgers a revert can go back to
    run,     \* the reconcile in flight, or the last one
    drain,   \* the goroutine Trigger starts: "off", "waiting" for single, "busy"
    queued,  \* a trigger came while it ran
    owed,    \* a change was applied and its Trigger is still to come
    gone,    \* records the operator removed since the reconcile listed them
    edits,   \* operator actions so far
    fails,   \* failures so far
    lossy    \* history: claims were lost on the way to the ledger or reverted

config == <<want, apex, rev, past>>
gate == <<drain, queued, owed>>
bounds == <<edits, fails, lossy>>
vars == <<zone, config, ledger, run, gate, gone, bounds>>

Created(t) == [target |-> t, adopted |-> FALSE]
Adopted(t) == [target |-> t, adopted |-> TRUE]
Written(t) == [target |-> t, by |-> "gpm", mark |-> TRUE]
NoLedger == [n \in Domain |-> None]
NoRecords == [n \in Domain |-> None]

----------------------------------------------------------------------------
(* decide: the desired names W, the records P found, the apex t and the    *)
(* claims O held.                                                          *)

\* Mutant: the comment is not looked at.
MarkAll(r) == TRUE

\* mark: the comment on Cloudflare, always true on Pi-hole.
Mark(r) == Backend = "pihole" \/ r.mark

ToCreate(W, P) == {n \in W : P[n] = None}

ToAdopt(W, P, t, O) ==
    {n \in W : P[n] # None /\ P[n].target = t /\ O[n] = None /\ Mark(P[n])}

\* Mutant: adopted records are retargeted and removed like created ones.
OwnAdopted(P, O, n) ==
    /\ P[n] # None /\ O[n] # None
    /\ P[n].target = O[n].target /\ Mark(P[n])

\* A record that is still what a created claim says.
Own(P, O, n) ==
    /\ P[n] # None /\ O[n] # None
    /\ ~O[n].adopted /\ P[n].target = O[n].target /\ Mark(P[n])

ToRetarget(W, P, t, O) == {n \in W : Own(P, O, n) /\ P[n].target # t}

ToDelete(W, P, O) == {n \in Domain \ W : Own(P, O, n)}

\* The claims when every step succeeds; every other claim is dropped.
Planned(W, P, t, O) ==
    [n \in Domain |->
        IF n \in ToCreate(W, P) \cup ToRetarget(W, P, t, O) THEN Created(t)
        ELSE IF n \in ToAdopt(W, P, t, O) THEN Adopted(t)
        ELSE IF n \in W /\ P[n].target = t /\ O[n] # None
             THEN [target |-> t, adopted |-> O[n].adopted]
        ELSE None]

\* mergeLedgerEntries: what the run ended with, without the claims that were
\* withdrawn since it read the ledger.
Merge(base, current, next) ==
    [n \in Domain |-> IF base[n] # None /\ current[n] = None THEN None ELSE next[n]]

----------------------------------------------------------------------------

NoRun == [at |-> "idle", who |-> "now", want |-> {}, apex |-> First,
          base |-> NoLedger, rev |-> 0, seen |-> NoRecords,
          retarget |-> {}, create |-> {}, del |-> {}, hole |-> None,
          live |-> NoLedger, ok |-> TRUE]

Init ==
    /\ zone \in [Domain -> {None, [target |-> First, by |-> "operator", mark |-> FALSE],
                            [target |-> Foreign, by |-> "operator", mark |-> FALSE]}]
    /\ want = {} /\ apex = First /\ ledger = NoLedger /\ rev = 0 /\ past = {}
    /\ run = NoRun
    /\ drain = "off" /\ queued = FALSE /\ owed = FALSE
    /\ gone = {} /\ edits = 0 /\ fails = 0 /\ lossy = FALSE

----------------------------------------------------------------------------
(* Operators.                                                              *)

Edit(op) ==
    /\ op \in Ops /\ edits < MaxEdits
    /\ edits' = edits + 1
    /\ UNCHANGED <<run, drain, queued, fails>>

Snapshot == past \cup {[want |-> want, apex |-> apex, ledger |-> ledger]}

\* A host or settings write is committed and applied; OnEvent will trigger.
ChangeConfig(w, t) ==
    /\ Edit("config")
    /\ <<w, t>> # <<want, apex>>
    /\ want' = w /\ apex' = t /\ rev' = rev + 1 /\ past' = Snapshot
    /\ owed' = TRUE
    /\ UNCHANGED <<zone, ledger, gone, lossy>>

\* Some other object is committed.
OtherCommit ==
    /\ Edit("commit")
    /\ rev' = rev + 1
    /\ UNCHANGED <<zone, want, apex, past, ledger, owed, gone, lossy>>

\* A whole-tree revert takes the ledger back with everything else.
RevertConfig(p) ==
    /\ Edit("revert")
    /\ want' = p.want /\ apex' = p.apex /\ ledger' = p.ledger
    /\ rev' = rev + 1 /\ past' = Snapshot
    /\ owed' = TRUE /\ lossy' = (lossy \/ p.ledger # ledger)
    /\ UNCHANGED <<zone, gone>>

\* The operator writes a record by hand.  On Pi-hole, where nothing tells two
\* equal records apart, not over a name gpm holds as its own creation.
HandWritable(n) ==
    Backend = "pihole" => \A l \in {ledger, run.live} : l[n] # None => l[n].adopted

OperatorCreates(n, t) ==
    /\ Edit("create")
    /\ zone[n] = None /\ HandWritable(n)
    /\ zone' = [zone EXCEPT ![n] = [target |-> t, by |-> "operator", mark |-> FALSE]]
    /\ UNCHANGED <<config, ledger, owed, gone, lossy>>

\* An edit in place: the record stays the same record, comment included.
OperatorRepoints(n) ==
    /\ Edit("repoint")
    /\ zone[n] # None /\ zone[n].target # Foreign
    /\ zone' = [zone EXCEPT ![n].target = Foreign, ![n].by = "operator"]
    /\ UNCHANGED <<config, ledger, owed, gone, lossy>>

OperatorDeletes(n) ==
    /\ Edit("delete")
    /\ zone[n] # None
    /\ zone' = [zone EXCEPT ![n] = None]
    /\ gone' = gone \cup {n}
    /\ UNCHANGED <<config, ledger, owed, lossy>>

----------------------------------------------------------------------------
(* Trigger, drain and the mutex single.                                    *)

\* Mutant: a trigger during a run is dropped.
TriggerLossy ==
    /\ owed /\ owed' = FALSE
    /\ drain' = IF drain = "off" THEN "waiting" ELSE drain
    /\ UNCHANGED <<zone, config, ledger, run, queued, gone, bounds>>

Trigger ==
    /\ owed /\ owed' = FALSE
    /\ IF drain = "off" THEN drain' = "waiting" /\ UNCHANGED queued
       ELSE queued' = TRUE /\ UNCHANGED drain
    /\ UNCHANGED <<zone, config, ledger, run, gone, bounds>>

\* single is taken; the configuration is read under it.
StartRun(who) ==
    /\ run.at = "idle"
    /\ run' = [NoRun EXCEPT !.at = "ledger", !.who = who, !.want = want, !.apex = apex]
    /\ UNCHANGED <<zone, config, ledger, queued, owed, gone>>

Reconcile ==
    /\ drain = "waiting"
    /\ StartRun("drain")
    /\ drain' = "busy"
    /\ UNCHANGED bounds

ReconcileNow ==
    /\ "now" \in Ops /\ edits < MaxEdits
    /\ StartRun("now")
    /\ edits' = edits + 1
    /\ UNCHANGED <<drain, fails, lossy>>

\* single is released; drain goes round again if a trigger came meanwhile.
EndRun(ended) ==
    /\ run' = [ended EXCEPT !.at = "idle", !.retarget = {}, !.create = {}, !.del = {}]
    /\ IF run.who = "now" THEN UNCHANGED <<drain, queued>>
       ELSE /\ drain' = IF queued THEN "waiting" ELSE "off"
            /\ queued' = FALSE

----------------------------------------------------------------------------
(* reconcileLocked, syncPihole and syncCloudflare.                         *)

LoadLedger ==
    /\ run.at = "ledger"
    /\ run' = [run EXCEPT !.at = "connect", !.base = ledger, !.live = ledger, !.rev = rev]
    /\ UNCHANGED <<zone, config, ledger, gate, gone, bounds>>

\* The records are listed and the decisions taken; adoptions are claimed before
\* any write.
Connect ==
    /\ run.at = "connect"
    /\ LET W == run.want
           O == run.base
           adopt == ToAdopt(W, zone, run.apex, O)
       IN  run' = [run EXCEPT
               !.at = "write", !.seen = zone,
               !.retarget = ToRetarget(W, zone, run.apex, O),
               !.create = ToCreate(W, zone),
               !.del = ToDelete(W, zone, O),
               !.live = [n \in Domain |-> IF n \in adopt THEN Adopted(run.apex) ELSE O[n]]]
    /\ gone' = {}
    /\ UNCHANGED <<zone, config, ledger, gate, bounds>>

\* One more failure; l: the run cannot record what it did.
Fail(fault, l) ==
    /\ fault \in Faults /\ fails < MaxFails
    /\ fails' = fails + 1
    /\ lossy' = (lossy \/ l)

\* External: a create is refused when the name has a record; a delete names the
\* raw entry on Pi-hole and the record's id on Cloudflare.
Creatable(n) == zone[n] = None
Deletable(n) ==
    /\ zone[n] # None
    /\ Backend = "pihole" => zone[n].target = run.seen[n].target
    /\ Backend = "cloudflare" => n \notin gone

Landed(n, record) ==
    /\ zone' = [zone EXCEPT ![n] = record]
    /\ UNCHANGED <<config, ledger, gate, gone, bounds>>

\* A call that is not known to have worked: the run goes on to save what it has
\* (or, in a retarget, to put the old record back).
CallFails(worked, n, record, after) ==
    /\ \/ worked /\ Fail("backend", FALSE) /\ UNCHANGED zone
       \/ worked /\ Fail("lost", TRUE) /\ zone' = [zone EXCEPT ![n] = record]
       \/ ~worked /\ UNCHANGED <<zone, fails, lossy>>
    /\ run' = [after EXCEPT !.ok = FALSE]
    /\ UNCHANGED <<config, ledger, gate, gone, edits>>

Retarget(n) ==
    /\ run.at = "write" /\ n \in run.retarget
    /\ \/ /\ Deletable(n) /\ Landed(n, None)
          /\ run' = [run EXCEPT !.at = "readd", !.hole = n,
                                !.retarget = @ \ {n}, !.live[n] = None]
       \/ CallFails(Deletable(n), n, None, [run EXCEPT !.at = "save"])

\* The second half of a retarget, and the rollback when it fails.
Readd(n) ==
    /\ run.at = "readd" /\ n = run.hole
    /\ \/ /\ Creatable(n) /\ Landed(n, Written(run.apex))
          /\ run' = [run EXCEPT !.at = "write", !.hole = None,
                                !.live[n] = Created(run.apex)]
       \/ CallFails(Creatable(n), n, Written(run.apex), [run EXCEPT !.at = "putback"])

PutBack(n) ==
    /\ run.at = "putback" /\ n = run.hole
    /\ \/ /\ Creatable(n) /\ Landed(n, Written(run.seen[n].target))
          /\ run' = [run EXCEPT !.at = "save", !.hole = None, !.live[n] = run.base[n]]
       \/ CallFails(Creatable(n), n, Written(run.seen[n].target),
                    [run EXCEPT !.at = "save", !.hole = None])

\* Mutant: what landed before a failure is forgotten.
CreateForgets(n) ==
    /\ run.at = "write" /\ run.retarget = {} /\ n \in run.create
    /\ \/ /\ Creatable(n) /\ Landed(n, Written(run.apex))
          /\ run' = [run EXCEPT !.create = @ \ {n}]
       \/ CallFails(Creatable(n), n, Written(run.apex), [run EXCEPT !.at = "save"])

Create(n) ==
    /\ run.at = "write" /\ run.retarget = {} /\ n \in run.create
    /\ \/ /\ Creatable(n) /\ Landed(n, Written(run.apex))
          /\ run' = [run EXCEPT !.create = @ \ {n}, !.live[n] = Created(run.apex)]
       \/ CallFails(Creatable(n), n, Written(run.apex), [run EXCEPT !.at = "save"])

Remove(n) ==
    /\ run.at = "write" /\ run.retarget = {} /\ run.create = {} /\ n \in run.del
    /\ \/ /\ Deletable(n) /\ Landed(n, None)
          /\ run' = [run EXCEPT !.del = @ \ {n}, !.live[n] = None]
       \/ CallFails(Deletable(n), n, None, [run EXCEPT !.at = "save"])

\* Every write landed: the ledger is the planned one.
Finished ==
    /\ run.at = "write" /\ run.retarget = {} /\ run.create = {} /\ run.del = {}
    /\ run' = [run EXCEPT !.at = "save",
                          !.live = Planned(run.want, run.seen, run.apex, run.base)]
    /\ UNCHANGED <<zone, config, ledger, gate, gone, bounds>>

\* The ledger or the backend cannot be read: nothing is decided or changed.
ConnectFails ==
    /\ run.at \in {"ledger", "connect"}
    /\ Fail("backend", FALSE)
    /\ EndRun([run EXCEPT !.ok = FALSE])
    /\ UNCHANGED <<zone, config, ledger, owed, gone, edits>>

----------------------------------------------------------------------------
(* saveLedger: the store refuses the save when its revision moved; the run *)
(* reads the ledger again and tries once more.                             *)

Store(l) == ledger' = l /\ rev' = rev + 1

SaveLedger ==
    /\ run.at = "save" /\ run.live # run.base
    /\ rev = run.rev
    /\ Store(run.live)
    /\ EndRun(run)
    /\ UNCHANGED <<zone, want, apex, past, owed, gone, bounds>>

\* Nothing to save.
LedgerUnchanged ==
    /\ run.at = "save" /\ run.live = run.base
    /\ EndRun(run)
    /\ UNCHANGED <<zone, config, ledger, owed, gone, bounds>>

\* Mutant: the second attempt saves the run's ledger as it is.
RereadKeepsAll ==
    /\ run.at = "save" /\ run.live # run.base
    /\ rev # run.rev
    /\ run' = [run EXCEPT !.at = "resave", !.rev = rev]
    /\ UNCHANGED <<zone, config, ledger, gate, gone, bounds>>

RereadLedger ==
    /\ run.at = "save" /\ run.live # run.base
    /\ rev # run.rev
    /\ run' = [run EXCEPT !.at = "resave", !.rev = rev,
                          !.live = Merge(run.base, ledger, run.live)]
    /\ UNCHANGED <<zone, config, ledger, gate, gone, bounds>>

ResaveLedger ==
    /\ run.at = "resave"
    /\ \/ rev = run.rev /\ Store(run.live) /\ UNCHANGED lossy
       \/ rev # run.rev /\ lossy' = TRUE /\ UNCHANGED <<ledger, rev>>
    /\ EndRun(run)
    /\ UNCHANGED <<zone, want, apex, past, owed, gone, edits, fails>>

\* The save fails for another reason: the run reports it and gives up.
SaveFails ==
    /\ run.at \in {"save", "resave"} /\ run.live # run.base
    /\ Fail("save", TRUE)
    /\ EndRun(run)
    /\ UNCHANGED <<zone, config, ledger, owed, gone, edits>>

\* The process dies and restarts; a trigger that was owed is forgotten.
Crash ==
    /\ Fail("crash", TRUE)
    /\ run' = NoRun
    /\ drain' = "off" /\ queued' = FALSE /\ owed' = FALSE
    /\ UNCHANGED <<zone, config, ledger, gone, edits>>

----------------------------------------------------------------------------

Operators ==
    \/ \E w \in SUBSET Domain, t \in Target : ChangeConfig(w, t)
    \/ OtherCommit
    \/ \E p \in past : RevertConfig(p)
    \/ \E n \in Domain, t \in Target \cup {Foreign} : OperatorCreates(n, t)
    \/ \E n \in Domain : OperatorRepoints(n) \/ OperatorDeletes(n)
    \/ ReconcileNow

Writes == \E n \in Domain : Retarget(n) \/ Readd(n) \/ PutBack(n) \/ Create(n) \/ Remove(n)

\* What the reconciler does on its own.
Sync ==
    \/ Trigger \/ Reconcile
    \/ LoadLedger \/ Connect \/ Writes \/ Finished
    \/ SaveLedger \/ LedgerUnchanged \/ RereadLedger \/ ResaveLedger

Next == Operators \/ Sync \/ ConnectFails \/ SaveFails \/ Crash

\* The goroutines run: a trigger that is owed comes, a started run ends.
Spec == Init /\ [][Next]_vars /\ WF_vars(Sync)

----------------------------------------------------------------------------
(* Properties.                                                             *)

\* The reconciler never removes or changes a record the operator wrote or
\* re-pointed: not one it adopted, not one that stood there before, not one
\* written while it ran, whatever failed or crashed before.
OperatorRecordsKept ==
    [][edits' = edits =>
          \A n \in Domain : zone[n] # None /\ zone[n].by = "operator" => zone'[n] = zone[n]]_vars

\* A claim a revert withdrew while a reconcile was in flight is not put back by
\* that reconcile: a claim is a licence to delete.
WithdrawnStaysWithdrawn ==
    [][edits' = edits =>
          \A n \in Domain : run.base[n] # None /\ ledger[n] = None => ledger'[n] = None]_vars

\* Between reconciles every record gpm wrote is claimed in the ledger: a later
\* run must not take it for the operator's and leave it for ever.
RecordedAsOwned ==
    run.at = "idle" =>
        \A n \in Domain : zone[n] # None /\ zone[n].by = "gpm" => ledger[n] # None

\* The same, also after runs whose backend calls failed half way, unless a
\* crash, a lost answer, a save given up or a revert came between the zone and
\* the ledger.
PublishedIsClaimed == ~lossy => RecordedAsOwned

\* Once the configuration is left alone the zone follows it, unless the last
\* run met a failing call or claims were lost: every name it wants has a record
\* (or lost it to the operator since the listing), gpm's own records point to
\* the current apex, and none of them is left for a name it does not want.  No
\* trigger is lost, however it meets the runs in flight, and a run that works
\* repairs what a failed one left.
ZoneConverges ==
    <>[](run.ok /\ ~lossy =>
            /\ \A n \in want \ gone : zone[n] # None
            /\ \A n \in Domain : zone[n] # None /\ zone[n].by = "gpm" =>
                  n \in want /\ zone[n].target = apex)

=============================================================================
