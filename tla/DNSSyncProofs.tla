--------------------------- MODULE DNSSyncProofs ---------------------------
(***************************************************************************)
(* Proofs about DNSSync, for any names, targets, bounds and faults: gpm    *)
(* knows which records are its own, a record the operator wrote is safe    *)
(* from every run, and a claim that was withdrawn is not put back.         *)
(***************************************************************************)
EXTENDS DNSSync, TLAPS

At == {"idle", "ledger", "connect", "write", "readd", "putback", "save", "resave"}
Zone == [Domain -> Record \cup {None}]
Run == [at : At, who : {"now", "drain"}, want : SUBSET Domain, apex : Target,
        base : Ledger, rev : Nat, seen : Zone,
        retarget : SUBSET Domain, create : SUBSET Domain, del : SUBSET Domain,
        hole : Domain \cup {None}, live : Ledger, ok : BOOLEAN]

DNSTypeOK ==
    /\ zone \in Zone /\ ledger \in Ledger /\ run \in Run
    /\ want \in SUBSET Domain /\ apex \in Target /\ rev \in Nat
    /\ past \subseteq [want : SUBSET Domain, apex : Target, ledger : Ledger]
    /\ drain \in {"off", "waiting", "busy"} /\ queued \in BOOLEAN /\ owed \in BOOLEAN
    /\ gone \subseteq Domain /\ edits \in Nat /\ fails \in Nat /\ lossy \in BOOLEAN

----------------------------------------------------------------------------
(* What a run decided when it listed the zone.                             *)

Creating == ToCreate(run.want, run.seen)
Retargeting == ToRetarget(run.want, run.seen, run.apex, run.base)
Deleting == ToDelete(run.want, run.seen, run.base)

\* What is left to do was decided, and its claims still stand; a name whose
\* record is away while it is retargeted is done with and has no claim.
Pending ==
    /\ run.at = "connect" => run.live = run.base
    /\ run.at \in {"write", "readd"} =>
           /\ run.retarget \subseteq Retargeting
           /\ run.create \subseteq Creating
           /\ run.del \subseteq Deleting
           /\ \A n \in run.retarget \cup run.del : run.live[n] = run.base[n]
    /\ run.at \in {"readd", "putback"} =>
           run.hole \in Retargeting /\ run.hole \notin run.retarget
    /\ run.at \in {"ledger", "connect", "write"} => run.hole = None

----------------------------------------------------------------------------
(* Claims of gpm's own records.                                            *)

Ours(n) == zone[n] # None /\ zone[n].by = "gpm"

\* A ledger knows every record gpm wrote, by its target.
Knows(l) == \A n \in Domain :
    Ours(n) => l[n] = Created(zone[n].target) /\ zone[n].target \in Target /\ zone[n].mark

\* A record of gpm's is the one that was listed, or one this run has written.
Accounted(n) ==
    \/ /\ zone[n] = run.seen[n] /\ run.live[n] = run.base[n]
       /\ run.base[n] = Created(run.seen[n].target)
       /\ n \in Retargeting => n \in run.retarget
       /\ n \in Deleting => n \in run.del
    \/ n \in Creating \cup Retargeting /\ zone[n].target = run.apex /\ run.live[n] = Created(run.apex)

Recorded ==
    /\ run.at \in {"idle", "ledger"} => Knows(ledger)
    /\ run.at \notin {"idle", "ledger"} => Knows(run.live) /\ ledger = run.base
    /\ run.at \in {"write", "readd"} => \A n \in Domain : Ours(n) => Accounted(n)
    /\ run.at \in {"readd", "putback"} => ~Ours(run.hole)

Owning == ~lossy => Recorded

----------------------------------------------------------------------------
(* The operator's records.                                                 *)

\* What tells gpm's records from the operator's: on Cloudflare the record's id,
\* which an edit in place keeps; on Pi-hole the ledger, which a revert rewrites.
Separable ==
    /\ Backend = "cloudflare" => "repoint" \notin Ops
    /\ Backend = "pihole" => "revert" \notin Ops

Licence(l, n) == l[n] # None /\ ~l[n].adopted

Theirs(n) == zone[n] # None /\ zone[n].by = "operator"

\* A created claim on a name is no claim on what the operator points there.
Spares(l) == \A n \in Domain : Theirs(n) /\ Licence(l, n) => zone[n].target = Foreign

\* The claims a run plans to leave are the ones it holds or is about to make.
Backed ==
    run.at \in {"write", "readd"} =>
        \A n \in Domain : Licence(Planned(run.want, run.seen, run.apex, run.base), n) =>
            n \in run.create \cup run.retarget \cup {run.hole} \/ Licence(run.live, n)

\* Pi-hole: the claims tell.
ClaimsTell == Spares(ledger) /\ Spares(run.live) /\ Backed

\* Cloudflare: the comment tells at the listing, the id from then on.
IdsTell ==
    /\ \A n \in Domain : zone[n] # None /\ zone[n].mark => zone[n].by = "gpm"
    /\ run.at \in {"write", "readd"} =>
           \A n \in (run.retarget \cup run.del) \ gone : Ours(n)

Separate == (Backend = "pihole" => ClaimsTell) /\ (Backend = "cloudflare" => IdsTell)

----------------------------------------------------------------------------
(* The revision a run read.                                                *)

\* While the revision stands, the ledger is the one that was read; after the
\* second read, the claims that were gone by then are not in what is saved.
Versioned ==
    /\ run.rev <= rev
    /\ run.at \notin {"idle", "ledger", "resave"} /\ rev = run.rev => ledger = run.base
    /\ run.at = "resave" /\ rev = run.rev =>
           \A n \in Domain : run.base[n] # None /\ ledger[n] = None => run.live[n] = None

----------------------------------------------------------------------------
(* The operators and the types.                                            *)

\* The claims and records gpm makes are claims and records.
LEMMA Made ==
    ASSUME NEW t \in Target
    PROVE  /\ Created(t) \in Claim /\ Adopted(t) \in Claim /\ Created(t) # None /\ Adopted(t) # None
           /\ Written(t) \in Record /\ Written(t) # None
           /\ Created(t).target = t /\ ~Created(t).adopted /\ Adopted(t).adopted
           /\ Written(t).target = t /\ Written(t).by = "gpm" /\ Written(t).mark
<1>1. Created(t) \in Claim /\ Adopted(t) \in Claim /\ Written(t) \in Record
  BY DEF Created, Adopted, Written, Claim, Record
<1>2. QED
  BY <1>1, DNSSyncAssumption DEF Created, Adopted, Written

\* A plan is a ledger.
LEMMA PlannedLedger ==
    ASSUME NEW W \in SUBSET Domain, NEW P \in Zone, NEW t \in Target, NEW O \in Ledger
    PROVE  Planned(W, P, t, O) \in Ledger
<1> SUFFICES ASSUME NEW n \in Domain PROVE Planned(W, P, t, O)[n] \in Claim \cup {None}
  BY DEF Planned, Ledger
<1>1. O[n] # None => [target |-> t, adopted |-> O[n].adopted] \in Claim
  BY DEF Ledger, Claim
<1>2. QED
  BY <1>1, Made DEF Planned

\* A merge is a ledger.
LEMMA MergeLedger ==
    ASSUME NEW b \in Ledger, NEW c \in Ledger, NEW l \in Ledger
    PROVE  Merge(b, c, l) \in Ledger
BY DEF Merge, Ledger

\* An idle run is a run.
LEMMA NoRunType == NoRun \in Run
BY DNSSyncAssumption DEF NoRun, Run, At, NoLedger, NoRecords, Ledger, Zone

\* The start is well-typed.
LEMMA DNSInitType == Init => DNSTypeOK
<1> SUFFICES ASSUME Init PROVE DNSTypeOK
  OBVIOUS
<1>1. zone \in Zone
  <2> SUFFICES ASSUME NEW n \in Domain PROVE zone[n] \in Record \cup {None}
    BY DEF Init, Zone
  <2>1. \A t \in {First, Foreign} : [target |-> t, by |-> "operator", mark |-> FALSE] \in Record
    BY DNSSyncAssumption DEF Record
  <2>2. QED
    BY <2>1 DEF Init
<1>2. QED
  BY <1>1, NoRunType, DNSSyncAssumption DEF Init, DNSTypeOK, NoLedger, Ledger

\* The operators' actions keep the types.
LEMMA OperatorsType ==
    ASSUME DNSTypeOK, Operators
    PROVE  DNSTypeOK'
<1> USE DEF Edit
<1>s. Snapshot \subseteq [want : SUBSET Domain, apex : Target, ledger : Ledger]
  BY DEF DNSTypeOK, Snapshot
<1>1. ASSUME NEW w \in SUBSET Domain, NEW t \in Target, ChangeConfig(w, t) PROVE DNSTypeOK'
  BY <1>1, <1>s DEF ChangeConfig, DNSTypeOK
<1>2. CASE OtherCommit
  BY <1>2 DEF OtherCommit, DNSTypeOK
<1>3. ASSUME NEW p \in past, RevertConfig(p) PROVE DNSTypeOK'
  BY <1>3, <1>s DEF RevertConfig, DNSTypeOK
<1>4. ASSUME NEW n \in Domain, NEW t \in Target \cup {Foreign}, OperatorCreates(n, t) PROVE DNSTypeOK'
  <2>1. [target |-> t, by |-> "operator", mark |-> FALSE] \in Record
    BY DEF Record
  <2>2. QED
    BY <1>4, <2>1 DEF OperatorCreates, DNSTypeOK, Zone, config
<1>5. ASSUME NEW n \in Domain, OperatorRepoints(n) PROVE DNSTypeOK'
  <2>1. zone[n] \in Record
    BY <1>5 DEF OperatorRepoints, DNSTypeOK, Zone
  <2>2. [zone[n] EXCEPT !.target = Foreign, !.by = "operator"] \in Record
    BY <2>1 DEF Record
  <2>3. zone' = [zone EXCEPT ![n] = [zone[n] EXCEPT !.target = Foreign, !.by = "operator"]]
    BY <1>5 DEF OperatorRepoints
  <2>4. QED
    BY <1>5, <2>2, <2>3 DEF OperatorRepoints, DNSTypeOK, Zone, config
<1>6. ASSUME NEW n \in Domain, OperatorDeletes(n) PROVE DNSTypeOK'
  BY <1>6 DEF OperatorDeletes, DNSTypeOK, Zone, config
<1>7. CASE ReconcileNow
  <2>1. run' \in Run
    BY <1>7, NoRunType DEF ReconcileNow, StartRun, DNSTypeOK, Run, At
  <2>2. QED
    BY <1>7, <2>1 DEF ReconcileNow, StartRun, DNSTypeOK, config
<1>8. QED
  BY <1>1, <1>2, <1>3, <1>4, <1>5, <1>6, <1>7 DEF Operators

\* The end of a run keeps the types of the run and of the drain.
LEMMA EndRunType ==
    ASSUME DNSTypeOK, NEW e \in Run, EndRun(e)
    PROVE  run' \in Run /\ drain' \in {"off", "waiting", "busy"} /\ queued' \in BOOLEAN
<1>1. run' \in Run
  BY DEF EndRun, Run, At
<1>2. QED
  BY <1>1 DEF EndRun, DNSTypeOK

\* A write's effect on the types: the zone takes a record or loses one.
LEMMA WriteType ==
    ASSUME DNSTypeOK, NEW n \in Domain, NEW record \in Record \cup {None}, NEW after \in Run,
           NEW worked \in BOOLEAN,
           (Landed(n, record) /\ run' \in Run) \/ CallFails(worked, n, record, after)
    PROVE  DNSTypeOK'
<1>1. CASE Landed(n, record) /\ run' \in Run
  BY <1>1 DEF Landed, DNSTypeOK, Zone, config, gate, bounds
<1>2. CASE CallFails(worked, n, record, after)
  <2>1. run' \in Run
    BY <1>2 DEF CallFails, Run
  <2>2. zone' \in Zone /\ fails' \in Nat /\ lossy' \in BOOLEAN
    BY <1>2 DEF CallFails, Fail, DNSTypeOK, Zone
  <2>3. QED
    BY <1>2, <2>1, <2>2 DEF CallFails, DNSTypeOK, config, gate
<1>3. QED
  BY <1>1, <1>2

\* A claim may be written into the run's ledger.
LEMMA LiveType ==
    ASSUME NEW l \in Ledger, NEW n \in Domain, NEW c \in Claim \cup {None}
    PROVE  [l EXCEPT ![n] = c] \in Ledger
BY DEF Ledger

\* The reconciler's writes keep the types.
LEMMA WritesType ==
    ASSUME DNSTypeOK, Pending, NEW n \in Domain,
           Retarget(n) \/ Readd(n) \/ PutBack(n) \/ Create(n) \/ Remove(n)
    PROVE  DNSTypeOK'
<1>1. run \in Run /\ run.apex \in Target /\ run.live \in Ledger /\ run.base \in Ledger /\ run.seen \in Zone
  BY DEF DNSTypeOK, Run
<1>2. Written(run.apex) \in Record /\ Created(run.apex) \in Claim
  BY <1>1, Made
<1>3. run.base[n] \in Claim \cup {None}
  BY <1>1 DEF Ledger
<1>4. Deletable(n) \in BOOLEAN /\ Creatable(n) \in BOOLEAN
  BY DEF Deletable, Creatable
<1>5. [run EXCEPT !.at = "save"] \in Run /\ [run EXCEPT !.at = "putback"] \in Run
      /\ [run EXCEPT !.at = "save", !.hole = None] \in Run
  BY <1>1 DEF Run, At
<1>6. ASSUME NEW c \in Claim \cup {None} PROVE [run.live EXCEPT ![n] = c] \in Ledger
  BY <1>1, LiveType
<1>7. CASE Retarget(n)
  <2>1. CASE Landed(n, None) /\ run' = [run EXCEPT !.at = "readd", !.hole = n, !.retarget = @ \ {n}, !.live[n] = None]
    <3>1. run' \in Run
      BY <1>1, <1>6, <2>1 DEF Run, At
    <3>2. QED
      BY <1>1, <1>4, <2>1, <3>1, WriteType
  <2>2. QED
    BY <1>4, <1>5, <1>7, <2>1, WriteType DEF Retarget
<1>8. CASE Readd(n)
  <2>1. CASE Landed(n, Written(run.apex)) /\ run' = [run EXCEPT !.at = "write", !.hole = None, !.live[n] = Created(run.apex)]
    <3>1. run' \in Run
      BY <1>1, <1>2, <1>6, <2>1 DEF Run, At
    <3>2. QED
      BY <1>1, <1>2, <1>4, <2>1, <3>1, WriteType
  <2>2. QED
    BY <1>2, <1>4, <1>5, <1>8, <2>1, WriteType DEF Readd
<1>9. CASE PutBack(n)
  <2>0. Written(run.seen[n].target) \in Record
    <3>1. n \in Retargeting
      BY <1>9 DEF PutBack, Pending
    <3>2. run.seen[n] # None /\ run.base[n] # None /\ run.seen[n].target = run.base[n].target
      BY <3>1 DEF Retargeting, ToRetarget, Own
    <3>3. run.seen[n].target \in Target
      BY <1>3, <3>2 DEF Claim
    <3>4. QED
      BY <3>3, Made
  <2>1. CASE Landed(n, Written(run.seen[n].target)) /\ run' = [run EXCEPT !.at = "save", !.hole = None, !.live[n] = run.base[n]]
    <3>1. run' \in Run
      BY <1>1, <1>3, <1>6, <2>1 DEF Run, At
    <3>2. QED
      BY <1>1, <1>4, <2>0, <2>1, <3>1, WriteType
  <2>2. QED
    BY <1>4, <1>5, <1>9, <2>0, <2>1, WriteType DEF PutBack
<1>10. CASE Create(n)
  <2>1. CASE Landed(n, Written(run.apex)) /\ run' = [run EXCEPT !.create = @ \ {n}, !.live[n] = Created(run.apex)]
    <3>1. run' \in Run
      BY <1>1, <1>2, <1>6, <2>1 DEF Run, At
    <3>2. QED
      BY <1>1, <1>2, <1>4, <2>1, <3>1, WriteType
  <2>2. QED
    BY <1>2, <1>4, <1>5, <1>10, <2>1, WriteType DEF Create
<1>11. CASE Remove(n)
  <2>1. CASE Landed(n, None) /\ run' = [run EXCEPT !.del = @ \ {n}, !.live[n] = None]
    <3>1. run' \in Run
      BY <1>1, <1>6, <2>1 DEF Run, At
    <3>2. QED
      BY <1>1, <1>4, <2>1, <3>1, WriteType
  <2>2. QED
    BY <1>4, <1>5, <1>11, <2>1, WriteType DEF Remove
<1>12. QED
  BY <1>7, <1>8, <1>9, <1>10, <1>11

\* The rest of a run, and the gate in front of it.
LEMMA RunType ==
    ASSUME DNSTypeOK,
           \/ Trigger \/ Reconcile \/ LoadLedger \/ Connect \/ Finished
           \/ SaveLedger \/ LedgerUnchanged \/ RereadLedger \/ ResaveLedger
           \/ ConnectFails \/ SaveFails \/ Crash
    PROVE  DNSTypeOK'
<1> USE DEF config, gate, bounds
<1>t. /\ run \in Run /\ run.want \in SUBSET Domain /\ run.apex \in Target
      /\ run.live \in Ledger /\ run.base \in Ledger /\ run.seen \in Zone
      /\ zone \in Zone /\ ledger \in Ledger /\ rev \in Nat
  BY DEF DNSTypeOK, Run
<1>e. run \in Run /\ [run EXCEPT !.ok = FALSE] \in Run
  BY <1>t DEF Run
<1>1. CASE Trigger
  BY <1>1 DEF Trigger, DNSTypeOK
<1>2. CASE Reconcile
  <2>1. run' \in Run
    BY <1>2, NoRunType DEF Reconcile, StartRun, DNSTypeOK, Run, At
  <2>2. QED
    BY <1>2, <2>1 DEF Reconcile, StartRun, DNSTypeOK
<1>3. CASE LoadLedger
  <2>1. run' \in Run
    BY <1>3, <1>t DEF LoadLedger, Run, At
  <2>2. QED
    BY <1>3, <2>1 DEF LoadLedger, DNSTypeOK
<1>4. CASE Connect
  <2>1. PICK R, C, D \in SUBSET Domain, l \in Ledger :
            run' = [run EXCEPT !.at = "write", !.seen = zone, !.retarget = R, !.create = C,
                               !.del = D, !.live = l]
    <3>1. \A n \in Domain : run.base[n] \in Claim \cup {None}
      BY <1>t DEF Ledger
    <3>2. [n \in Domain |-> IF n \in ToAdopt(run.want, zone, run.apex, run.base)
                            THEN Adopted(run.apex) ELSE run.base[n]] \in Ledger
      BY <1>t, <3>1, Made DEF Ledger
    <3>3. /\ ToRetarget(run.want, zone, run.apex, run.base) \in SUBSET Domain
          /\ ToCreate(run.want, zone) \in SUBSET Domain
          /\ ToDelete(run.want, zone, run.base) \in SUBSET Domain
      BY <1>t DEF ToRetarget, ToCreate, ToDelete
    <3>4. QED
      BY <1>4, <3>2, <3>3 DEF Connect
  <2>2. run' \in Run
    BY <1>t, <2>1 DEF Run, At
  <2>3. QED
    BY <1>4, <2>2 DEF Connect, DNSTypeOK
<1>5. CASE Finished
  <2>1. PICK l \in Ledger : run' = [run EXCEPT !.at = "save", !.live = l]
    BY <1>5, <1>t, PlannedLedger DEF Finished
  <2>2. run' \in Run
    BY <1>t, <2>1 DEF Run, At
  <2>3. QED
    BY <1>5, <2>2 DEF Finished, DNSTypeOK
<1>6. CASE SaveLedger
  BY <1>6, <1>t, EndRunType DEF SaveLedger, Store, DNSTypeOK
<1>7. CASE LedgerUnchanged
  BY <1>7, <1>t, EndRunType DEF LedgerUnchanged, DNSTypeOK
<1>8. CASE RereadLedger
  <2>1. PICK l \in Ledger : run' = [run EXCEPT !.at = "resave", !.rev = rev, !.live = l]
    BY <1>8, <1>t, MergeLedger DEF RereadLedger
  <2>2. run' \in Run
    BY <1>t, <2>1 DEF Run, At
  <2>3. QED
    BY <1>8, <2>2 DEF RereadLedger, DNSTypeOK
<1>9. CASE ResaveLedger
  <2>1. run' \in Run /\ drain' \in {"off", "waiting", "busy"} /\ queued' \in BOOLEAN
    BY <1>9, <1>t, EndRunType DEF ResaveLedger
  <2>2. ledger' \in Ledger /\ rev' \in Nat /\ lossy' \in BOOLEAN
    <3>1. lossy \in BOOLEAN
      BY DEF DNSTypeOK
    <3>2. lossy' \in BOOLEAN
      BY <1>9, <3>1 DEF ResaveLedger
    <3>3. ledger' \in Ledger /\ rev' \in Nat
      BY <1>9, <1>t DEF ResaveLedger, Store
    <3>4. QED
      BY <3>2, <3>3
  <2>3. QED
    BY <1>9, <2>1, <2>2 DEF ResaveLedger, DNSTypeOK
<1>10. CASE ConnectFails
  BY <1>10, <1>e, EndRunType DEF ConnectFails, Fail, DNSTypeOK
<1>11. CASE SaveFails
  BY <1>11, <1>e, EndRunType DEF SaveFails, Fail, DNSTypeOK
<1>12. CASE Crash
  <2>1. run' \in Run /\ fails' \in Nat
    BY <1>12, NoRunType DEF Crash, Fail, DNSTypeOK
  <2>2. lossy' \in BOOLEAN
    BY <1>12 DEF Crash, Fail
  <2>3. drain' \in {"off", "waiting", "busy"} /\ queued' \in BOOLEAN /\ owed' \in BOOLEAN
    BY <1>12 DEF Crash
  <2>4. QED
    BY <1>12, <2>1, <2>2, <2>3 DEF Crash, DNSTypeOK
<1>13. QED
  BY <1>1, <1>2, <1>3, <1>4, <1>5, <1>6, <1>7, <1>8, <1>9, <1>10, <1>11, <1>12

\* A step of nothing.
LEMMA DNSStutterType ==
    ASSUME DNSTypeOK, UNCHANGED vars
    PROVE  DNSTypeOK'
BY DEF DNSTypeOK, vars, config, gate, bounds

\* Every step keeps the types.
LEMMA DNSNextType ==
    ASSUME DNSTypeOK, Pending, [Next]_vars
    PROVE  DNSTypeOK'
BY OperatorsType, WritesType, RunType, DNSStutterType DEF Next, Sync, Writes

----------------------------------------------------------------------------
(* The plan of a run.                                                      *)

\* A step that leaves the run alone leaves its plan alone.
LEMMA PendingFrame ==
    ASSUME Pending, UNCHANGED run
    PROVE  Pending'
BY DEF Pending, Creating, Retargeting, Deleting

\* A run that is over, or about to save, has nothing pending.
LEMMA PendingOver ==
    ASSUME run'.at \in {"idle", "ledger", "save", "resave"}, run'.at = "ledger" => run'.hole = None
    PROVE  Pending'
BY DEF Pending

\* Where a run can be after its end.
LEMMA EndRunAt ==
    ASSUME NEW e \in Run, EndRun(e)
    PROVE  run'.at = "idle" /\ run'.base = e.base /\ run'.live = e.live /\ run'.rev = e.rev
BY DEF EndRun, Run

\* What the operators do to a run: nothing, or they start one.
LEMMA OperatorsRun ==
    ASSUME Operators
    PROVE  UNCHANGED run \/ ReconcileNow
BY DEF Operators, Edit, ChangeConfig, OtherCommit, RevertConfig, OperatorCreates,
       OperatorRepoints, OperatorDeletes

\* Everything an operator does is counted.
LEMMA OperatorsCount == Operators => edits' = edits + 1
<1>1. \A op : Edit(op) => edits' = edits + 1
  BY DEF Edit
<1>2. ReconcileNow => edits' = edits + 1
  BY DEF ReconcileNow
<1>3. QED
  BY <1>1, <1>2 DEF Operators, ChangeConfig, OtherCommit, RevertConfig, OperatorCreates,
                    OperatorRepoints, OperatorDeletes

\* The run after it was started.
LEMMA StartRunAt ==
    ASSUME NEW who, StartRun(who)
    PROVE  run'.at = "ledger" /\ run'.live = NoLedger /\ run'.rev = 0
           /\ run'.hole = None /\ run.at = "idle" /\ UNCHANGED <<zone, ledger, rev, gone>>
BY DEF StartRun, NoRun, config

\* The run after the listing.
LEMMA ConnectRun ==
    ASSUME DNSTypeOK, Connect
    PROVE  /\ run'.at = "write" /\ run'.seen = zone
           /\ run'.want = run.want /\ run'.apex = run.apex /\ run'.base = run.base
           /\ run'.retarget = ToRetarget(run.want, zone, run.apex, run.base)
           /\ run'.create = ToCreate(run.want, zone)
           /\ run'.del = ToDelete(run.want, zone, run.base)
           /\ run'.hole = run.hole /\ run'.rev = run.rev
           /\ run'.live = [n \in Domain |-> IF n \in ToAdopt(run.want, zone, run.apex, run.base)
                                            THEN Adopted(run.apex) ELSE run.base[n]]
<1>1. run \in Run
  BY DEF DNSTypeOK
<1>2. QED
  BY <1>1 DEF Connect, Run

\* The parts of a run no write changes.
Fixed ==
    /\ run'.want = run.want /\ run'.apex = run.apex /\ run'.base = run.base
    /\ run'.seen = run.seen /\ run'.rev = run.rev

\* A call that is not known to have worked leaves the run as it is given, apart
\* from the failure it notes.
LEMMA FailedRun ==
    ASSUME NEW e \in Run, run' = [e EXCEPT !.ok = FALSE]
    PROVE  /\ run'.at = e.at /\ run'.hole = e.hole /\ run'.live = e.live
           /\ run'.retarget = e.retarget /\ run'.create = e.create /\ run'.del = e.del
           /\ run'.want = e.want /\ run'.apex = e.apex /\ run'.base = e.base
           /\ run'.seen = e.seen /\ run'.rev = e.rev
BY DEF Run

\* A retarget takes the record away first.
LEMMA RetargetRun ==
    ASSUME DNSTypeOK, NEW n \in Domain, Retarget(n)
    PROVE  /\ Fixed /\ n \in run.retarget /\ run.at = "write"
           /\ ledger' = ledger /\ rev' = rev /\ gone' = gone /\ edits' = edits
           /\ run'.create = run.create /\ run'.del = run.del
           /\ \/ /\ Deletable(n) /\ zone' = [zone EXCEPT ![n] = None] /\ (lossy' <=> lossy)
                 /\ run'.at = "readd" /\ run'.hole = n /\ run'.retarget = run.retarget \ {n}
                 /\ run'.live = [run.live EXCEPT ![n] = None]
              \/ /\ run'.at = "save" /\ run'.live = run.live
                 /\ \/ zone' = zone /\ (lossy' <=> lossy)
                    \/ Deletable(n) /\ zone' = [zone EXCEPT ![n] = None] /\ lossy'
<1>1. run \in Run /\ n \in run.retarget /\ run.at = "write"
  BY DEF DNSTypeOK, Retarget
<1>2. CASE Deletable(n) /\ Landed(n, None)
           /\ run' = [run EXCEPT !.at = "readd", !.hole = n, !.retarget = @ \ {n}, !.live[n] = None]
  BY <1>1, <1>2 DEF Run, Landed, Fixed, config, bounds
<1>3. CASE CallFails(Deletable(n), n, None, [run EXCEPT !.at = "save"])
  <2>1. PICK e \in Run : e = [run EXCEPT !.at = "save"]
    BY <1>1 DEF Run, At
  <2>2. /\ e.at = "save" /\ e.live = run.live /\ e.create = run.create /\ e.del = run.del
        /\ e.want = run.want /\ e.apex = run.apex /\ e.base = run.base
        /\ e.seen = run.seen /\ e.rev = run.rev
    BY <1>1, <2>1 DEF Run
  <2>3. /\ run' = [e EXCEPT !.ok = FALSE]
        /\ ledger' = ledger /\ rev' = rev /\ gone' = gone /\ edits' = edits
        /\ \/ zone' = zone /\ (lossy' <=> lossy)
           \/ Deletable(n) /\ zone' = [zone EXCEPT ![n] = None] /\ lossy'
    <3>1. lossy \in BOOLEAN
      BY DEF DNSTypeOK
    <3>2. ASSUME NEW l \in BOOLEAN, lossy' = (lossy \/ l) PROVE lossy' <=> (lossy \/ l)
      BY <3>1, <3>2
    <3>3. QED
      BY <1>3, <2>1, <3>1, <3>2 DEF CallFails, Fail, config
  <2>4. QED
    BY <1>1, <2>1, <2>2, <2>3, FailedRun DEF Fixed
<1>4. QED
  BY <1>2, <1>3 DEF Retarget

\* The new record is put in its place.
LEMMA ReaddRun ==
    ASSUME DNSTypeOK, NEW n \in Domain, Readd(n)
    PROVE  /\ Fixed /\ n = run.hole /\ run.at = "readd"
           /\ ledger' = ledger /\ rev' = rev /\ gone' = gone /\ edits' = edits
           /\ run'.retarget = run.retarget /\ run'.create = run.create /\ run'.del = run.del
           /\ \/ /\ Creatable(n) /\ zone' = [zone EXCEPT ![n] = Written(run.apex)] /\ (lossy' <=> lossy)
                 /\ run'.at = "write" /\ run'.hole = None
                 /\ run'.live = [run.live EXCEPT ![n] = Created(run.apex)]
              \/ /\ run'.at = "putback" /\ run'.hole = n /\ run'.live = run.live
                 /\ \/ zone' = zone /\ (lossy' <=> lossy)
                    \/ Creatable(n) /\ zone' = [zone EXCEPT ![n] = Written(run.apex)] /\ lossy'
<1>1. run \in Run /\ n = run.hole /\ run.at = "readd"
  BY DEF DNSTypeOK, Readd
<1>2. CASE Creatable(n) /\ Landed(n, Written(run.apex))
           /\ run' = [run EXCEPT !.at = "write", !.hole = None, !.live[n] = Created(run.apex)]
  BY <1>1, <1>2 DEF Run, Landed, Fixed, config, bounds
<1>3. CASE CallFails(Creatable(n), n, Written(run.apex), [run EXCEPT !.at = "putback"])
  <2>1. PICK e \in Run : e = [run EXCEPT !.at = "putback"]
    BY <1>1 DEF Run, At
  <2>2. /\ e.at = "putback" /\ e.live = run.live /\ e.hole = run.hole /\ e.retarget = run.retarget
        /\ e.create = run.create /\ e.del = run.del
        /\ e.want = run.want /\ e.apex = run.apex /\ e.base = run.base
        /\ e.seen = run.seen /\ e.rev = run.rev
    BY <1>1, <2>1 DEF Run
  <2>3. /\ run' = [e EXCEPT !.ok = FALSE]
        /\ ledger' = ledger /\ rev' = rev /\ gone' = gone /\ edits' = edits
        /\ \/ zone' = zone /\ (lossy' <=> lossy)
           \/ Creatable(n) /\ zone' = [zone EXCEPT ![n] = Written(run.apex)] /\ lossy'
    <3>1. lossy \in BOOLEAN
      BY DEF DNSTypeOK
    <3>2. ASSUME NEW l \in BOOLEAN, lossy' = (lossy \/ l) PROVE lossy' <=> (lossy \/ l)
      BY <3>1, <3>2
    <3>3. QED
      BY <1>3, <2>1, <3>1, <3>2 DEF CallFails, Fail, config
  <2>4. QED
    BY <1>1, <2>1, <2>2, <2>3, FailedRun DEF Fixed
<1>4. QED
  BY <1>2, <1>3 DEF Readd

\* The old record is put back after a failed retarget.
LEMMA PutBackRun ==
    ASSUME DNSTypeOK, NEW n \in Domain, PutBack(n)
    PROVE  /\ Fixed /\ n = run.hole /\ run.at = "putback" /\ run'.at = "save"
           /\ ledger' = ledger /\ rev' = rev /\ gone' = gone /\ edits' = edits
           /\ \/ /\ Creatable(n) /\ zone' = [zone EXCEPT ![n] = Written(run.seen[n].target)]
                 /\ (lossy' <=> lossy) /\ run'.live = [run.live EXCEPT ![n] = run.base[n]]
              \/ /\ run'.live = run.live
                 /\ \/ zone' = zone /\ (lossy' <=> lossy)
                    \/ Creatable(n) /\ zone' = [zone EXCEPT ![n] = Written(run.seen[n].target)] /\ lossy'
<1>1. run \in Run /\ n = run.hole /\ run.at = "putback"
  BY DEF DNSTypeOK, PutBack
<1>2. CASE Creatable(n) /\ Landed(n, Written(run.seen[n].target))
           /\ run' = [run EXCEPT !.at = "save", !.hole = None, !.live[n] = run.base[n]]
  BY <1>1, <1>2 DEF Run, Landed, Fixed, config, bounds
<1>3. CASE CallFails(Creatable(n), n, Written(run.seen[n].target), [run EXCEPT !.at = "save", !.hole = None])
  <2>1. PICK e \in Run : e = [run EXCEPT !.at = "save", !.hole = None]
    BY <1>1 DEF Run, At
  <2>2. /\ e.at = "save" /\ e.live = run.live
        /\ e.want = run.want /\ e.apex = run.apex /\ e.base = run.base
        /\ e.seen = run.seen /\ e.rev = run.rev
    BY <1>1, <2>1 DEF Run
  <2>3. /\ run' = [e EXCEPT !.ok = FALSE]
        /\ ledger' = ledger /\ rev' = rev /\ gone' = gone /\ edits' = edits
        /\ \/ zone' = zone /\ (lossy' <=> lossy)
           \/ Creatable(n) /\ zone' = [zone EXCEPT ![n] = Written(run.seen[n].target)] /\ lossy'
    <3>1. lossy \in BOOLEAN
      BY DEF DNSTypeOK
    <3>2. ASSUME NEW l \in BOOLEAN, lossy' = (lossy \/ l) PROVE lossy' <=> (lossy \/ l)
      BY <3>1, <3>2
    <3>3. QED
      BY <1>3, <2>1, <3>1, <3>2 DEF CallFails, Fail, config
  <2>4. QED
    BY <1>1, <2>1, <2>2, <2>3, FailedRun DEF Fixed
<1>4. QED
  BY <1>2, <1>3 DEF PutBack

\* A missing record is created.
LEMMA CreateRun ==
    ASSUME DNSTypeOK, NEW n \in Domain, Create(n)
    PROVE  /\ Fixed /\ n \in run.create /\ run.at = "write" /\ run.retarget = {}
           /\ ledger' = ledger /\ rev' = rev /\ gone' = gone /\ edits' = edits
           /\ run'.retarget = run.retarget /\ run'.del = run.del /\ run'.hole = run.hole
           /\ \/ /\ Creatable(n) /\ zone' = [zone EXCEPT ![n] = Written(run.apex)] /\ (lossy' <=> lossy)
                 /\ run'.at = "write" /\ run'.create = run.create \ {n}
                 /\ run'.live = [run.live EXCEPT ![n] = Created(run.apex)]
              \/ /\ run'.at = "save" /\ run'.live = run.live
                 /\ \/ zone' = zone /\ (lossy' <=> lossy)
                    \/ Creatable(n) /\ zone' = [zone EXCEPT ![n] = Written(run.apex)] /\ lossy'
<1>1. run \in Run /\ n \in run.create /\ run.at = "write" /\ run.retarget = {}
  BY DEF DNSTypeOK, Create
<1>2. CASE Creatable(n) /\ Landed(n, Written(run.apex))
           /\ run' = [run EXCEPT !.create = @ \ {n}, !.live[n] = Created(run.apex)]
  BY <1>1, <1>2 DEF Run, Landed, Fixed, config, bounds
<1>3. CASE CallFails(Creatable(n), n, Written(run.apex), [run EXCEPT !.at = "save"])
  <2>1. PICK e \in Run : e = [run EXCEPT !.at = "save"]
    BY <1>1 DEF Run, At
  <2>2. /\ e.at = "save" /\ e.live = run.live /\ e.retarget = run.retarget /\ e.del = run.del
        /\ e.want = run.want /\ e.apex = run.apex /\ e.base = run.base
        /\ e.seen = run.seen /\ e.rev = run.rev /\ e.hole = run.hole
    BY <1>1, <2>1 DEF Run
  <2>3. /\ run' = [e EXCEPT !.ok = FALSE]
        /\ ledger' = ledger /\ rev' = rev /\ gone' = gone /\ edits' = edits
        /\ \/ zone' = zone /\ (lossy' <=> lossy)
           \/ Creatable(n) /\ zone' = [zone EXCEPT ![n] = Written(run.apex)] /\ lossy'
    <3>1. lossy \in BOOLEAN
      BY DEF DNSTypeOK
    <3>2. ASSUME NEW l \in BOOLEAN, lossy' = (lossy \/ l) PROVE lossy' <=> (lossy \/ l)
      BY <3>1, <3>2
    <3>3. QED
      BY <1>3, <2>1, <3>1, <3>2 DEF CallFails, Fail, config
  <2>4. QED
    BY <1>1, <2>1, <2>2, <2>3, FailedRun DEF Fixed
<1>4. QED
  BY <1>2, <1>3 DEF Create

\* A record nobody wants any more is removed.
LEMMA RemoveRun ==
    ASSUME DNSTypeOK, NEW n \in Domain, Remove(n)
    PROVE  /\ Fixed /\ n \in run.del /\ run.at = "write" /\ run.retarget = {} /\ run.create = {}
           /\ ledger' = ledger /\ rev' = rev /\ gone' = gone /\ edits' = edits
           /\ run'.retarget = run.retarget /\ run'.create = run.create /\ run'.hole = run.hole
           /\ \/ /\ Deletable(n) /\ zone' = [zone EXCEPT ![n] = None] /\ (lossy' <=> lossy)
                 /\ run'.at = "write" /\ run'.del = run.del \ {n}
                 /\ run'.live = [run.live EXCEPT ![n] = None]
              \/ /\ run'.at = "save" /\ run'.live = run.live
                 /\ \/ zone' = zone /\ (lossy' <=> lossy)
                    \/ Deletable(n) /\ zone' = [zone EXCEPT ![n] = None] /\ lossy'
<1>1. run \in Run /\ n \in run.del /\ run.at = "write" /\ run.retarget = {} /\ run.create = {}
  BY DEF DNSTypeOK, Remove
<1>2. CASE Deletable(n) /\ Landed(n, None)
           /\ run' = [run EXCEPT !.del = @ \ {n}, !.live[n] = None]
  BY <1>1, <1>2 DEF Run, Landed, Fixed, config, bounds
<1>3. CASE CallFails(Deletable(n), n, None, [run EXCEPT !.at = "save"])
  <2>1. PICK e \in Run : e = [run EXCEPT !.at = "save"]
    BY <1>1 DEF Run, At
  <2>2. /\ e.at = "save" /\ e.live = run.live /\ e.retarget = run.retarget /\ e.create = run.create
        /\ e.want = run.want /\ e.apex = run.apex /\ e.base = run.base
        /\ e.seen = run.seen /\ e.rev = run.rev /\ e.hole = run.hole
    BY <1>1, <2>1 DEF Run
  <2>3. /\ run' = [e EXCEPT !.ok = FALSE]
        /\ ledger' = ledger /\ rev' = rev /\ gone' = gone /\ edits' = edits
        /\ \/ zone' = zone /\ (lossy' <=> lossy)
           \/ Deletable(n) /\ zone' = [zone EXCEPT ![n] = None] /\ lossy'
    <3>1. lossy \in BOOLEAN
      BY DEF DNSTypeOK
    <3>2. ASSUME NEW l \in BOOLEAN, lossy' = (lossy \/ l) PROVE lossy' <=> (lossy \/ l)
      BY <3>1, <3>2
    <3>3. QED
      BY <1>3, <2>1, <3>1, <3>2 DEF CallFails, Fail, config
  <2>4. QED
    BY <1>1, <2>1, <2>2, <2>3, FailedRun DEF Fixed
<1>4. QED
  BY <1>2, <1>3 DEF Remove

\* What a run decided stays decided while it writes.
LEMMA FixedPlan ==
    ASSUME Fixed
    PROVE  Creating' = Creating /\ Retargeting' = Retargeting /\ Deleting' = Deleting
BY DEF Fixed, Creating, Retargeting, Deleting

\* No name is decided twice.
LEMMA DecidedOnce ==
    Retargeting \cap Deleting = {} /\ Creating \cap Retargeting = {} /\ Creating \cap Deleting = {}
BY DEF Creating, Retargeting, Deleting, ToCreate, ToRetarget, ToDelete, Own

\* The writes keep to the plan.
LEMMA WritesPending ==
    ASSUME DNSTypeOK, Pending, NEW n \in Domain,
           Retarget(n) \/ Readd(n) \/ PutBack(n) \/ Create(n) \/ Remove(n)
    PROVE  Pending'
<1>1. run \in Run /\ run.live \in Ledger /\ n # None
  BY DNSSyncAssumption DEF DNSTypeOK, Run
<1>2. ASSUME NEW m \in Domain, NEW c, m # n PROVE [run.live EXCEPT ![n] = c][m] = run.live[m]
  BY <1>1, <1>2 DEF Ledger
<1>3. run.retarget \subseteq Domain /\ run.del \subseteq Domain
  BY <1>1 DEF Run
<1>4. CASE Retarget(n)
  <2>1. Fixed /\ n \in run.retarget /\ run.at = "write"
    BY <1>4, RetargetRun
  <2>2. CASE run'.at = "save"
    BY <2>2, PendingOver
  <2>3. CASE run'.at # "save"
    <3>1. /\ run'.at = "readd" /\ run'.hole = n /\ run'.retarget = run.retarget \ {n}
          /\ run'.live = [run.live EXCEPT ![n] = None] /\ run'.create = run.create /\ run'.del = run.del
      BY <1>4, <2>3, RetargetRun
    <3>2. n \in Retargeting /\ n \notin run.del
      BY <2>1, DecidedOnce DEF Pending
    <3>3. QED
      BY <1>2, <1>3, <2>1, <3>1, <3>2, FixedPlan DEF Pending, Fixed
  <2>4. QED
    BY <2>2, <2>3
<1>5. CASE Readd(n)
  <2>1. /\ Fixed /\ n = run.hole /\ run.at = "readd"
        /\ run'.retarget = run.retarget /\ run'.create = run.create /\ run'.del = run.del
    BY <1>5, ReaddRun
  <2>2. n \in Retargeting /\ n \notin run.retarget /\ n \notin run.del
    BY <2>1, DecidedOnce DEF Pending
  <2>3. CASE run'.at = "putback" /\ run'.hole = n
    BY <2>1, <2>2, <2>3, FixedPlan DEF Pending
  <2>4. CASE run'.at = "write" /\ run'.hole = None /\ run'.live = [run.live EXCEPT ![n] = Created(run.apex)]
    BY <1>2, <1>3, <2>1, <2>2, <2>4, FixedPlan DEF Pending, Fixed
  <2>5. QED
    BY <1>5, <2>3, <2>4, ReaddRun
<1>6. CASE PutBack(n)
  BY <1>6, PutBackRun, PendingOver
<1>7. CASE Create(n)
  <2>1. /\ Fixed /\ n \in run.create /\ run.at = "write"
        /\ run'.retarget = run.retarget /\ run'.del = run.del /\ run'.hole = run.hole
    BY <1>7, CreateRun
  <2>2. n \notin run.retarget /\ n \notin run.del
    BY <2>1, DecidedOnce DEF Pending
  <2>3. CASE run'.at = "save"
    BY <2>3, PendingOver
  <2>4. CASE run'.at = "write" /\ run'.create = run.create \ {n} /\ run'.live = [run.live EXCEPT ![n] = Created(run.apex)]
    BY <1>2, <1>3, <2>1, <2>2, <2>4, FixedPlan DEF Pending, Fixed
  <2>5. QED
    BY <1>7, <2>3, <2>4, CreateRun
<1>8. CASE Remove(n)
  <2>1. /\ Fixed /\ n \in run.del /\ run.at = "write" /\ run.retarget = {}
        /\ run'.retarget = run.retarget /\ run'.create = run.create /\ run'.hole = run.hole
    BY <1>8, RemoveRun
  <2>3. CASE run'.at = "save"
    BY <2>3, PendingOver
  <2>4. CASE run'.at = "write" /\ run'.del = run.del \ {n} /\ run'.live = [run.live EXCEPT ![n] = None]
    BY <1>2, <1>3, <2>1, <2>4, FixedPlan DEF Pending, Fixed
  <2>5. QED
    BY <1>8, <2>3, <2>4, RemoveRun
<1>9. QED
  BY <1>4, <1>5, <1>6, <1>7, <1>8

\* The listing takes the decisions.
LEMMA ConnectPending ==
    ASSUME DNSTypeOK, Pending, Connect
    PROVE  Pending'
<1>1. run'.at = "write" /\ run'.hole = None
  BY ConnectRun DEF Connect, Pending
<1>2. run'.retarget = Retargeting' /\ run'.create = Creating' /\ run'.del = Deleting'
  BY ConnectRun DEF Retargeting, Creating, Deleting
<1>3. run'.base = run.base /\ run.want \subseteq Domain
  BY ConnectRun DEF DNSTypeOK, Run
<1>4. ASSUME NEW n \in run'.retarget \cup run'.del PROVE run'.live[n] = run'.base[n]
  <2>1. n \in Domain /\ run.base[n] # None
    BY <1>3, <1>4, ConnectRun DEF ToRetarget, ToDelete, Own
  <2>2. n \notin ToAdopt(run.want, zone, run.apex, run.base)
    BY <2>1 DEF ToAdopt
  <2>3. QED
    BY <1>3, <2>1, <2>2, ConnectRun
<1>5. QED
  BY <1>1, <1>2, <1>4 DEF Pending

\* Every step keeps to the plan.
LEMMA PendingNext ==
    ASSUME DNSTypeOK, Pending, [Next]_vars
    PROVE  Pending'
<1>1. run \in Run /\ [run EXCEPT !.ok = FALSE] \in Run
  BY DEF DNSTypeOK, Run
<1>2. CASE UNCHANGED vars \/ Trigger
  BY <1>2, PendingFrame DEF vars, Trigger
<1>3. CASE Operators \/ Reconcile
  BY <1>3, OperatorsRun, PendingFrame, StartRunAt, PendingOver DEF ReconcileNow, Reconcile
<1>4. CASE LoadLedger
  <2>1. run'.at = "connect" /\ run'.live = run'.base /\ run'.hole = run.hole /\ run.at = "ledger"
    BY <1>1, <1>4 DEF LoadLedger, Run
  <2>2. QED
    BY <2>1 DEF Pending
<1>5. CASE Connect
  BY <1>5, ConnectPending
<1>6. CASE Writes
  BY <1>6, WritesPending DEF Writes
<1>7. CASE Finished \/ RereadLedger
  BY <1>1, <1>7, PendingOver DEF Finished, RereadLedger, Run
<1>8. CASE SaveLedger \/ LedgerUnchanged \/ ResaveLedger \/ ConnectFails \/ SaveFails
  BY <1>1, <1>8, EndRunAt, PendingOver DEF SaveLedger, LedgerUnchanged, ResaveLedger, ConnectFails, SaveFails
<1>9. CASE Crash
  BY <1>9, PendingOver DEF Crash, NoRun
<1>10. QED
  BY <1>2, <1>3, <1>4, <1>5, <1>6, <1>7, <1>8, <1>9 DEF Next, Sync

\* The types hold and the plan is kept.
LEMMA DNSThroughout == Spec => [](DNSTypeOK /\ Pending)
<1>1. Init => DNSTypeOK /\ Pending
  BY DNSInitType DEF Init, NoRun, Pending
<1>2. DNSTypeOK /\ Pending /\ [Next]_vars => (DNSTypeOK /\ Pending)'
  BY DNSNextType, PendingNext
<1>3. QED
  BY <1>1, <1>2, PTL DEF Spec

\* The state of the reconciler and of what it works on is well-typed.
THEOREM DNSTypeCorrect == Spec => []DNSTypeOK
BY DNSThroughout, PTL

----------------------------------------------------------------------------
(* Withdrawn claims.                                                       *)

\* A step that leaves the run, the ledger and the revision alone.
LEMMA VersionedFrame ==
    ASSUME Versioned, UNCHANGED <<run, ledger, rev>>
    PROVE  Versioned'
BY DEF Versioned

\* The revision grows with every change of the ledger.
LEMMA VersionedNext ==
    ASSUME DNSTypeOK, Versioned, [Next]_vars
    PROVE  Versioned'
<1>1. run \in Run /\ [run EXCEPT !.ok = FALSE] \in Run /\ rev \in Nat /\ run.rev \in Nat
  BY DEF DNSTypeOK, Run
<1> USE DEF config, gate, bounds
<1>2. CASE UNCHANGED vars \/ Trigger
  BY <1>2, VersionedFrame DEF vars, Trigger
<1>3. CASE Operators
  <2>1. CASE ReconcileNow
    BY <1>1, <2>1, StartRunAt DEF ReconcileNow, Versioned
  <2>2. CASE UNCHANGED run /\ rev' = rev + 1
    BY <1>1, <2>2 DEF Versioned
  <2>3. CASE UNCHANGED <<run, ledger, rev>>
    BY <2>3, VersionedFrame
  <2>4. QED
    BY <1>3, <2>1, <2>2, <2>3 DEF Operators, Edit, ChangeConfig, OtherCommit, RevertConfig,
                                  OperatorCreates, OperatorRepoints, OperatorDeletes
<1>4. CASE Reconcile
  BY <1>1, <1>4, StartRunAt DEF Reconcile, Versioned
<1>5. CASE LoadLedger
  <2>1. run'.at = "connect" /\ run'.base = ledger /\ run'.rev = rev /\ ledger' = ledger /\ rev' = rev
    BY <1>1, <1>5 DEF LoadLedger, Run
  <2>2. QED
    BY <1>1, <2>1 DEF Versioned
<1>6. CASE Connect
  BY <1>6, ConnectRun DEF Connect, Versioned
<1>7. ASSUME NEW n \in Domain, Retarget(n) \/ Readd(n) \/ PutBack(n) \/ Create(n) \/ Remove(n)
      PROVE  Versioned'
  <2>1. /\ Fixed /\ ledger' = ledger /\ rev' = rev
        /\ run.at \in {"write", "readd", "putback"} /\ run'.at # "resave"
    BY <1>7, RetargetRun, ReaddRun, PutBackRun, CreateRun, RemoveRun
  <2>2. QED
    BY <2>1 DEF Versioned, Fixed
<1>8. CASE Finished
  <2>1. /\ run'.at = "save" /\ run'.base = run.base /\ run'.rev = run.rev
        /\ run.at = "write" /\ ledger' = ledger /\ rev' = rev
    BY <1>1, <1>8 DEF Finished, Run
  <2>2. QED
    BY <2>1 DEF Versioned
<1>9. CASE RereadLedger
  <2>1. /\ run'.at = "resave" /\ run'.base = run.base /\ run'.rev = rev
        /\ run'.live = Merge(run.base, ledger, run.live) /\ ledger' = ledger /\ rev' = rev
    BY <1>1, <1>9 DEF RereadLedger, Run
  <2>2. QED
    BY <1>1, <2>1 DEF Versioned, Merge
<1>10. CASE SaveLedger \/ LedgerUnchanged \/ ResaveLedger \/ ConnectFails \/ SaveFails
  <2>1. run'.at = "idle" /\ run'.rev = run.rev
    <3>1. [run EXCEPT !.ok = FALSE].rev = run.rev
      BY <1>1 DEF Run
    <3>2. QED
      BY <1>1, <1>10, <3>1, EndRunAt DEF SaveLedger, LedgerUnchanged, ResaveLedger, ConnectFails, SaveFails
  <2>2. rev' \in Nat /\ rev' >= rev
    <3>1. rev' = rev \/ rev' = rev + 1
      BY <1>10 DEF SaveLedger, LedgerUnchanged, ResaveLedger, ConnectFails, SaveFails, Store
    <3>2. QED
      BY <1>1, <3>1
  <2>3. QED
    BY <1>1, <2>1, <2>2 DEF Versioned
<1>11. CASE Crash
  BY <1>1, <1>11 DEF Crash, NoRun, Versioned
<1>12. QED
  BY <1>2, <1>3, <1>4, <1>5, <1>6, <1>7, <1>8, <1>9, <1>10, <1>11 DEF Next, Sync, Writes

\* What a run read is what stands while the revision stands.
LEMMA VersionedThroughout == Spec => []Versioned
<1>1. Init => Versioned
  BY DEF Init, NoRun, Versioned
<1>2. QED
  BY <1>1, VersionedNext, DNSThroughout, PTL DEF Spec

\* A claim that a revert withdrew while a reconcile was in flight is not put
\* back by that reconcile, whatever else is committed and whatever fails:
\* saveLedger's compare-and-swap and the merge after it see to that.
THEOREM WithdrawalsStand == Spec => WithdrawnStaysWithdrawn
<1> DEFINE Step ==
    edits' = edits => \A n \in Domain : run.base[n] # None /\ ledger[n] = None => ledger'[n] = None
<1>1. DNSTypeOK /\ Versioned /\ [Next]_vars => [Step]_vars
  <2> SUFFICES ASSUME DNSTypeOK, Versioned, Next, edits' = edits,
                      NEW n \in Domain, run.base[n] # None, ledger[n] = None
               PROVE  ledger'[n] = None
    OBVIOUS
  <2> USE DEF config, gate, bounds
  <2>1. edits \in Nat
    BY DEF DNSTypeOK
  <2>2. CASE UNCHANGED ledger
    BY <2>2
  <2>3. ~Operators
    BY <2>1, OperatorsCount
  <2>4. CASE SaveLedger
    BY <2>4 DEF SaveLedger, Versioned
  <2>5. CASE ResaveLedger
    BY <2>5 DEF ResaveLedger, Store, Versioned
  <2>6. Writes => UNCHANGED ledger
    BY RetargetRun, ReaddRun, PutBackRun, CreateRun, RemoveRun DEF Writes
  <2>7. QED
    BY <2>2, <2>3, <2>4, <2>5, <2>6 DEF Next, Sync, Trigger, Reconcile, StartRun, LoadLedger, Connect,
       Finished, LedgerUnchanged, RereadLedger, ConnectFails, SaveFails, Crash
<1>2. Spec => [][Step]_vars
  BY <1>1, DNSThroughout, VersionedThroughout, PTL DEF Spec
<1>3. QED
  BY <1>2 DEF WithdrawnStaysWithdrawn

----------------------------------------------------------------------------
(* Published records are claimed.                                          *)

\* A step that does not touch the run or the ledger, and after which gpm has no
\* record it did not have.
LEMMA RecordedFewer ==
    ASSUME Recorded, UNCHANGED <<run, ledger>>,
           \A n \in Domain \cup {run.hole} : zone'[n] = zone[n] \/ ~(zone'[n] # None /\ zone'[n].by = "gpm")
    PROVE  Recorded'
<1>1. Creating' = Creating /\ Retargeting' = Retargeting /\ Deleting' = Deleting
  BY DEF Creating, Retargeting, Deleting
<1>2. \A n \in Domain \cup {run.hole} : Ours(n)' => Ours(n) /\ zone'[n] = zone[n]
  BY DEF Ours
<1>3. (run.at \in {"idle", "ledger"} => Knows(ledger)') /\ (run.at \notin {"idle", "ledger"} => Knows(run.live)')
  BY <1>1, <1>2 DEF Recorded, Knows
<1>4. run.at \in {"write", "readd"} => \A n \in Domain : Ours(n)' => Accounted(n)'
  BY <1>1, <1>2 DEF Recorded, Accounted
<1>5. QED
  BY <1>1, <1>2, <1>3, <1>4 DEF Recorded

\* The operators write no record of gpm's.
LEMMA RecordedOperators ==
    ASSUME DNSTypeOK, Recorded, Operators, ~lossy', ~lossy
    PROVE  Recorded'
<1> USE DEF config, gate, bounds
<1>1. zone \in Zone
  BY DEF DNSTypeOK
<1>2. CASE ReconcileNow
  <2>1. run.at = "idle" /\ run'.at = "ledger" /\ zone' = zone /\ ledger' = ledger
    BY <1>2, StartRunAt DEF ReconcileNow
  <2>2. QED
    BY <2>1 DEF Recorded, Knows, Ours
<1>3. CASE UNCHANGED <<run, ledger, zone>>
  BY <1>3, RecordedFewer
<1>4. ASSUME NEW p \in past, RevertConfig(p) PROVE UNCHANGED <<run, ledger, zone>>
  BY <1>4 DEF RevertConfig, Edit
<1>5. ASSUME NEW n \in Domain, UNCHANGED <<run, ledger>>, NEW r,
             zone' = [zone EXCEPT ![n] = r], ~(r # None /\ r.by = "gpm")
      PROVE  Recorded'
  <2>1. ASSUME NEW m, zone'[m] # zone[m] PROVE zone'[m] = r
    BY <1>1, <1>5, <2>1 DEF Zone
  <2>2. QED
    BY <1>5, <2>1, RecordedFewer
<1>6. ASSUME NEW n \in Domain, NEW t, OperatorCreates(n, t) PROVE Recorded'
  BY <1>5, <1>6 DEF OperatorCreates, Edit
<1>7. ASSUME NEW n \in Domain, OperatorRepoints(n) PROVE Recorded'
  <2>1. zone[n] \in Record
    BY <1>1, <1>7 DEF OperatorRepoints, Zone
  <2>2. PICK r : r = [zone[n] EXCEPT !.target = Foreign, !.by = "operator"]
    OBVIOUS
  <2>3. r.by = "operator"
    BY <2>1, <2>2 DEF Record
  <2>4. zone' = [zone EXCEPT ![n] = r]
    BY <1>7, <2>2 DEF OperatorRepoints
  <2>5. QED
    BY <1>5, <1>7, <2>3, <2>4 DEF OperatorRepoints, Edit
<1>8. ASSUME NEW n \in Domain, OperatorDeletes(n) PROVE Recorded'
  BY <1>5, <1>8 DEF OperatorDeletes, Edit
<1>9. QED
  BY <1>2, <1>3, <1>4, <1>6, <1>7, <1>8 DEF Operators, ChangeConfig, OtherCommit, Edit

\* At the listing every record of gpm's is one the ledger knows.
LEMMA RecordedConnect ==
    ASSUME DNSTypeOK, Pending, Recorded, Connect
    PROVE  Recorded'
<1>1. run.at = "connect" /\ run.live = run.base /\ ledger = run.base /\ Knows(run.base)
  BY DEF Connect, Pending, Recorded
<1>2. zone' = zone /\ ledger' = ledger
  BY DEF Connect, config
<1>3. run'.at = "write" /\ run'.seen = zone /\ run'.base = run.base
  BY ConnectRun
<1>4. run'.retarget = Retargeting' /\ run'.create = Creating' /\ run'.del = Deleting'
  BY ConnectRun DEF Retargeting, Creating, Deleting
<1>5. ASSUME NEW n \in Domain, Ours(n) PROVE run'.live[n] = run.base[n] /\ run.base[n] = Created(zone[n].target)
  <2>1. run.base[n] = Created(zone[n].target)
    BY <1>1, <1>5 DEF Knows
  <2>2. run.base[n] # None
    BY <1>1, <1>5, <2>1, Made DEF Knows
  <2>3. n \notin ToAdopt(run.want, zone, run.apex, run.base)
    BY <2>2 DEF ToAdopt
  <2>4. QED
    BY <2>1, <2>3, ConnectRun
<1>6. Knows(run.live)'
  BY <1>1, <1>2, <1>5 DEF Knows, Ours
<1>7. \A n \in Domain : Ours(n)' => Accounted(n)'
  BY <1>2, <1>3, <1>4, <1>5 DEF Accounted, Ours
<1>8. QED
  BY <1>1, <1>2, <1>3, <1>6, <1>7 DEF Recorded

\* A write puts away one record, or puts one there with its claim.
LEMMA RecordedWrites ==
    ASSUME DNSTypeOK, Pending, Recorded, ~lossy, ~lossy', NEW n \in Domain,
           Retarget(n) \/ Readd(n) \/ PutBack(n) \/ Create(n) \/ Remove(n)
    PROVE  Recorded'
<1>1. /\ run \in Run /\ run.live \in Ledger /\ run.apex \in Target /\ run.base \in Ledger
      /\ zone \in Zone /\ run.seen \in Zone
  BY DEF DNSTypeOK, Run
<1>2. Fixed /\ ledger' = ledger /\ run.at \in {"write", "readd", "putback"}
  BY RetargetRun, ReaddRun, PutBackRun, CreateRun, RemoveRun
<1>3. ledger' = run'.base /\ run'.base = run.base /\ run'.seen = run.seen /\ run'.apex = run.apex
  BY <1>2 DEF Recorded, Fixed
<1>4. Creating' = Creating /\ Retargeting' = Retargeting /\ Deleting' = Deleting
  BY <1>2, FixedPlan
<1>5. Knows(run.live)
  BY <1>2 DEF Recorded
<1>6. Written(run.apex).target = run.apex /\ Written(run.apex).mark
  BY <1>1, Made
\* The record is taken away and its claim with it.
<1>7. ASSUME zone' = [zone EXCEPT ![n] = None], run'.live = [run.live EXCEPT ![n] = None]
      PROVE  /\ \A m \in Domain : Ours(m)' => m # n /\ Ours(m) /\ zone'[m] = zone[m] /\ run'.live[m] = run.live[m]
             /\ Knows(run.live)'
  <2>1. \A m \in Domain : Ours(m)' => m # n /\ Ours(m) /\ zone'[m] = zone[m] /\ run'.live[m] = run.live[m]
    BY <1>1, <1>7 DEF Ours, Zone, Ledger
  <2>2. QED
    BY <1>5, <2>1 DEF Knows
\* A record is put there and claimed.
<1>8. ASSUME NEW t \in Target, zone' = [zone EXCEPT ![n] = Written(t)],
             run'.live = [run.live EXCEPT ![n] = Created(t)]
      PROVE  /\ \A m \in Domain : m # n => zone'[m] = zone[m] /\ run'.live[m] = run.live[m]
             /\ zone'[n] = Written(t) /\ run'.live[n] = Created(t)
             /\ Knows(run.live)'
  <2>1. \A m \in Domain : m # n => zone'[m] = zone[m] /\ run'.live[m] = run.live[m]
    BY <1>1, <1>8 DEF Zone, Ledger
  <2>2. zone'[n] = Written(t) /\ run'.live[n] = Created(t)
    BY <1>1, <1>8 DEF Zone, Ledger
  <2>3. Written(t).target = t /\ Written(t).mark
    BY Made
  <2>4. QED
    BY <1>5, <2>1, <2>2, <2>3 DEF Knows, Ours
\* The call failed: the run goes on to save what it has.
<1>9. ASSUME zone' = zone, run'.live = run.live, run'.at = "save" PROVE Recorded'
  BY <1>3, <1>5, <1>9 DEF Recorded, Knows, Ours
<1>10. CASE Retarget(n)
  <2>1. run.at = "write" /\ n \in run.retarget
    BY <1>10, RetargetRun
  <2>2. CASE run'.at = "save"
    BY <1>9, <1>10, <2>2, RetargetRun
  <2>3. CASE run'.at # "save"
    <3>1. /\ run'.at = "readd" /\ run'.hole = n /\ run'.retarget = run.retarget \ {n} /\ run'.del = run.del
          /\ zone' = [zone EXCEPT ![n] = None] /\ run'.live = [run.live EXCEPT ![n] = None]
      BY <1>10, <2>3, RetargetRun
    <3>2. ASSUME NEW m \in Domain, Ours(m)' PROVE Accounted(m)'
      <4>1. m # n /\ Ours(m) /\ zone'[m] = zone[m] /\ run'.live[m] = run.live[m]
        BY <1>7, <3>1, <3>2
      <4>2. Accounted(m)
        BY <2>1, <4>1 DEF Recorded
      <4>3. QED
        BY <1>3, <1>4, <3>1, <4>1, <4>2 DEF Accounted
    <3>3. ~Ours(n)'
      BY <1>7, <3>1
    <3>4. QED
      BY <1>3, <1>7, <3>1, <3>2, <3>3 DEF Recorded
  <2>4. QED
    BY <2>2, <2>3
<1>11. CASE Readd(n)
  <2>1. run.at = "readd" /\ n = run.hole /\ n \in Retargeting
    BY <1>11, ReaddRun DEF Pending
  <2>2. CASE run'.at = "putback"
    <3>1. zone' = zone /\ run'.live = run.live /\ run'.hole = n
      BY <1>11, <2>2, ReaddRun
    <3>2. QED
      BY <1>3, <1>5, <2>1, <2>2, <3>1 DEF Recorded, Knows, Ours
  <2>3. CASE run'.at # "putback"
    <3>1. /\ run'.at = "write" /\ run'.retarget = run.retarget /\ run'.del = run.del
          /\ zone' = [zone EXCEPT ![n] = Written(run.apex)]
          /\ run'.live = [run.live EXCEPT ![n] = Created(run.apex)]
      BY <1>11, <2>3, ReaddRun
    <3>2. ASSUME NEW m \in Domain, m # n, Ours(m)' PROVE Accounted(m)'
      <4>1. Ours(m) /\ zone'[m] = zone[m] /\ run'.live[m] = run.live[m]
        BY <1>1, <1>8, <3>1, <3>2 DEF Ours
      <4>2. Accounted(m)
        BY <2>1, <4>1 DEF Recorded
      <4>3. QED
        BY <1>3, <1>4, <3>1, <4>1, <4>2 DEF Accounted
    <3>3. Accounted(n)'
      BY <1>1, <1>3, <1>4, <1>6, <1>8, <2>1, <3>1 DEF Accounted
    <3>4. Knows(run.live)'
      BY <1>1, <1>8, <3>1
    <3>5. QED
      BY <1>3, <3>1, <3>2, <3>3, <3>4 DEF Recorded
  <2>4. QED
    BY <2>2, <2>3
<1>12. CASE PutBack(n)
  <2>1. run.at = "putback" /\ run'.at = "save" /\ n \in Retargeting
    BY <1>12, PutBackRun DEF Pending
  <2>2. PICK t \in Target : t = run.seen[n].target /\ run.base[n] = Created(t)
    <3>1. run.base[n] # None /\ ~run.base[n].adopted /\ run.seen[n].target = run.base[n].target
      BY <2>1 DEF Retargeting, ToRetarget, Own
    <3>2. run.base[n] \in Claim
      BY <1>1, <3>1 DEF Ledger
    <3>3. run.base[n] = Created(run.base[n].target) /\ run.base[n].target \in Target
      BY <3>1, <3>2 DEF Claim, Created
    <3>4. QED
      BY <3>1, <3>3
  <2>3. CASE zone' = zone /\ run'.live = run.live
    BY <1>9, <2>1, <2>3
  <2>4. CASE zone' = [zone EXCEPT ![n] = Written(t)] /\ run'.live = [run.live EXCEPT ![n] = Created(t)]
    <3>1. Knows(run.live)'
      BY <1>8, <2>4
    <3>2. QED
      BY <1>3, <2>1, <3>1 DEF Recorded
  <2>5. QED
    BY <1>12, <2>2, <2>3, <2>4, PutBackRun
<1>13. CASE Create(n)
  <2>1. run.at = "write" /\ n \in Creating
    BY <1>13, CreateRun DEF Pending
  <2>2. CASE run'.at = "save"
    BY <1>9, <1>13, <2>2, CreateRun
  <2>3. CASE run'.at # "save"
    <3>1. /\ run'.at = "write" /\ run'.retarget = run.retarget /\ run'.del = run.del
          /\ zone' = [zone EXCEPT ![n] = Written(run.apex)]
          /\ run'.live = [run.live EXCEPT ![n] = Created(run.apex)]
      BY <1>13, <2>3, CreateRun
    <3>2. ASSUME NEW m \in Domain, m # n, Ours(m)' PROVE Accounted(m)'
      <4>1. Ours(m) /\ zone'[m] = zone[m] /\ run'.live[m] = run.live[m]
        BY <1>1, <1>8, <3>1, <3>2 DEF Ours
      <4>2. Accounted(m)
        BY <2>1, <4>1 DEF Recorded
      <4>3. QED
        BY <1>3, <1>4, <3>1, <4>1, <4>2 DEF Accounted
    <3>3. Accounted(n)'
      BY <1>1, <1>3, <1>4, <1>6, <1>8, <2>1, <3>1 DEF Accounted
    <3>4. Knows(run.live)'
      BY <1>1, <1>8, <3>1
    <3>5. QED
      BY <1>3, <3>1, <3>2, <3>3, <3>4 DEF Recorded
  <2>4. QED
    BY <2>2, <2>3
<1>14. CASE Remove(n)
  <2>1. run.at = "write"
    BY <1>14, RemoveRun
  <2>2. CASE run'.at = "save"
    BY <1>9, <1>14, <2>2, RemoveRun
  <2>3. CASE run'.at # "save"
    <3>1. /\ run'.at = "write" /\ run'.retarget = run.retarget /\ run'.del = run.del \ {n}
          /\ zone' = [zone EXCEPT ![n] = None] /\ run'.live = [run.live EXCEPT ![n] = None]
      BY <1>14, <2>3, RemoveRun
    <3>2. ASSUME NEW m \in Domain, Ours(m)' PROVE Accounted(m)'
      <4>1. m # n /\ Ours(m) /\ zone'[m] = zone[m] /\ run'.live[m] = run.live[m]
        BY <1>7, <3>1, <3>2
      <4>2. Accounted(m)
        BY <2>1, <4>1 DEF Recorded
      <4>3. QED
        BY <1>3, <1>4, <3>1, <4>1, <4>2 DEF Accounted
    <3>3. QED
      BY <1>3, <1>7, <3>1, <3>2 DEF Recorded
  <2>4. QED
    BY <2>2, <2>3
<1>15. QED
  BY <1>10, <1>11, <1>12, <1>13, <1>14

\* The planned ledger knows what the run leaves behind: a record of gpm's that
\* stood there and is not wanted, or not with this target, was to be deleted or
\* retargeted, and is gone or replaced by now.
LEMMA RecordedFinished ==
    ASSUME DNSTypeOK, Pending, Recorded, Finished
    PROVE  Recorded'
<1>1. /\ run \in Run /\ run.apex \in Target /\ run.base \in Ledger /\ zone \in Zone
  BY DEF DNSTypeOK, Run
<1>2. /\ run.at = "write" /\ run.retarget = {} /\ run.create = {} /\ run.del = {}
      /\ zone' = zone /\ ledger' = ledger
  BY DEF Finished, config
<1>3. /\ run'.at = "save" /\ run'.base = run.base
      /\ run'.live = Planned(run.want, run.seen, run.apex, run.base)
  BY <1>1 DEF Finished, Run
<1>4. Knows(run.live) /\ ledger = run.base
  BY <1>2 DEF Recorded
<1>5. ASSUME NEW n \in Domain, Ours(n) PROVE run'.live[n] = Created(zone[n].target)
  <2>1. Accounted(n) /\ zone[n].mark /\ zone[n].target \in Target
    BY <1>2, <1>4, <1>5 DEF Recorded, Knows
  <2>2. CASE n \in Creating \cup Retargeting /\ zone[n].target = run.apex
    BY <1>3, <2>2 DEF Planned, Creating, Retargeting
  <2>3. CASE /\ zone[n] = run.seen[n] /\ run.base[n] = Created(run.seen[n].target)
             /\ n \notin Retargeting /\ n \notin Deleting
    <3>1. run.base[n] # None /\ ~run.base[n].adopted /\ run.base[n].target = run.seen[n].target
      BY <2>1, <2>3, Made
    <3>2. Own(run.seen, run.base, n)
      BY <1>5, <2>1, <2>3, <3>1 DEF Own, Ours, Mark
    <3>3. n \in run.want /\ run.seen[n].target = run.apex
      BY <2>3, <3>2 DEF Retargeting, Deleting, ToRetarget, ToDelete
    <3>4. n \notin Creating /\ n \notin ToAdopt(run.want, run.seen, run.apex, run.base)
      BY <1>5, <2>3, <3>1 DEF Creating, ToCreate, ToAdopt, Ours
    <3>5. run'.live[n] = [target |-> run.apex, adopted |-> run.base[n].adopted]
      BY <1>3, <2>3, <3>1, <3>3, <3>4 DEF Planned, Creating, Retargeting
    <3>6. run.base[n].adopted = FALSE
      BY <2>3 DEF Created
    <3>7. QED
      BY <2>3, <3>3, <3>5, <3>6 DEF Created
  <2>4. QED
    BY <1>2, <2>1, <2>2, <2>3 DEF Accounted
<1>6. QED
  BY <1>2, <1>3, <1>4, <1>5 DEF Recorded, Knows, Ours

\* Unless claims are lost, the ledger the run saves is the one it holds.
LEMMA RecordedSaves ==
    ASSUME DNSTypeOK, Pending, Recorded, ~lossy, ~lossy',
           \/ SaveLedger \/ LedgerUnchanged \/ RereadLedger \/ ResaveLedger
           \/ ConnectFails \/ SaveFails \/ Crash
    PROVE  Recorded'
<1>1. run \in Run /\ [run EXCEPT !.ok = FALSE] \in Run /\ run.live \in Ledger /\ run.base \in Ledger
  BY DEF DNSTypeOK, Run
<1> USE DEF config
<1>2. CASE RereadLedger
  <2>1. /\ run.at = "save" /\ run'.at = "resave" /\ run'.base = run.base /\ zone' = zone /\ ledger' = ledger
        /\ run'.live = Merge(run.base, ledger, run.live)
    BY <1>1, <1>2 DEF RereadLedger, Run
  <2>2. Knows(run.live) /\ ledger = run.base
    BY <2>1 DEF Recorded
  <2>3. \A n \in Domain : Merge(run.base, ledger, run.live)[n] = run.live[n]
    BY <2>2 DEF Merge
  <2>4. QED
    BY <2>1, <2>2, <2>3 DEF Recorded, Knows, Ours
<1>3. CASE SaveLedger \/ LedgerUnchanged \/ ResaveLedger
  <2>1. run'.at = "idle" /\ zone' = zone /\ run.at \in {"save", "resave"}
    BY <1>1, <1>3, EndRunAt DEF SaveLedger, LedgerUnchanged, ResaveLedger
  <2>2. Knows(run.live) /\ ledger = run.base
    BY <2>1 DEF Recorded
  <2>3. ledger' = run.live
    BY <1>3, <2>2 DEF SaveLedger, LedgerUnchanged, ResaveLedger, Store
  <2>4. QED
    BY <2>1, <2>2, <2>3 DEF Recorded, Knows, Ours
<1>4. CASE ConnectFails
  <2>1. run'.at = "idle" /\ zone' = zone /\ run.at \in {"ledger", "connect"} /\ ledger' = ledger
    BY <1>1, <1>4, EndRunAt DEF ConnectFails
  <2>2. QED
    <3>1. CASE run.at = "ledger"
      BY <2>1, <3>1 DEF Recorded, Knows, Ours
    <3>2. CASE run.at = "connect"
      BY <2>1, <3>2 DEF Pending, Recorded, Knows, Ours
    <3>3. QED
      BY <2>1, <3>1, <3>2
<1>5. ~SaveFails /\ ~Crash
  BY DEF SaveFails, Crash, Fail
<1>6. QED
  BY <1>2, <1>3, <1>4, <1>5

\* Every step keeps gpm's records known.
LEMMA OwningNext ==
    ASSUME DNSTypeOK, Pending, Owning, [Next]_vars
    PROVE  Owning'
<1> SUFFICES ASSUME ~lossy' PROVE Recorded'
  BY DEF Owning
<1> USE DEF config, gate, bounds
<1>1. ~lossy
  <2>1. lossy \in BOOLEAN
    BY DEF DNSTypeOK
  <2>2. lossy => lossy'
    <3> SUFFICES ASSUME lossy PROVE lossy'
      OBVIOUS
    <3>1. ASSUME Operators PROVE lossy'
      BY <2>1, <3>1 DEF Operators, Edit, ChangeConfig, OtherCommit, RevertConfig, OperatorCreates,
                OperatorRepoints, OperatorDeletes, ReconcileNow
    <3>2. ASSUME Writes PROVE lossy'
      BY <3>2, RetargetRun, ReaddRun, PutBackRun, CreateRun, RemoveRun DEF Writes
    <3>3. ASSUME ConnectFails \/ SaveFails \/ Crash PROVE lossy'
      BY <2>1, <3>3 DEF ConnectFails, SaveFails, Crash, Fail
    <3>4. QED
      BY <3>1, <3>2, <3>3 DEF Next, Sync, Trigger, Reconcile, LoadLedger, Connect, Finished, SaveLedger,
         LedgerUnchanged, RereadLedger, ResaveLedger, vars
  <2>3. QED
    BY <2>2
<1>2. Recorded
  BY <1>1 DEF Owning
<1>3. CASE UNCHANGED vars \/ Trigger
  BY <1>2, <1>3, RecordedFewer DEF vars, Trigger
<1>4. CASE Operators
  BY <1>1, <1>2, <1>4, RecordedOperators
<1>5. CASE Reconcile
  <2>1. run.at = "idle" /\ run'.at = "ledger" /\ zone' = zone /\ ledger' = ledger
    BY <1>5, StartRunAt DEF Reconcile
  <2>2. QED
    BY <1>2, <2>1 DEF Recorded, Knows, Ours
<1>6. CASE LoadLedger
  <2>1. /\ run.at = "ledger" /\ run'.at = "connect" /\ run'.base = ledger /\ run'.live = ledger
        /\ zone' = zone /\ ledger' = ledger
    BY <1>6 DEF LoadLedger, DNSTypeOK, Run
  <2>2. QED
    BY <1>2, <2>1 DEF Recorded, Knows, Ours
<1>7. CASE Connect
  BY <1>2, <1>7, RecordedConnect
<1>8. CASE Writes
  BY <1>1, <1>2, <1>8, RecordedWrites DEF Writes
<1>9. CASE Finished
  BY <1>2, <1>9, RecordedFinished
<1>10. QED
  BY <1>1, <1>2, <1>3, <1>4, <1>5, <1>6, <1>7, <1>8, <1>9, RecordedSaves DEF Next, Sync

\* Between reconciles every record gpm wrote is claimed in the ledger, also
\* after runs that failed half way, on either backend and whatever operators
\* do, unless a crash, a lost answer, a save given up or a revert came between
\* the zone and the ledger.
THEOREM PublishedStaysClaimed == Spec => []PublishedIsClaimed
<1>1. Init => Owning
  <2> SUFFICES ASSUME Init PROVE Recorded
    BY DEF Owning
  <2>1. \A n \in Domain : ~Ours(n)
    BY DEF Init, Ours
  <2>2. QED
    BY <2>1 DEF Init, NoRun, Recorded, Knows
<1>2. DNSTypeOK /\ Owning => PublishedIsClaimed
  BY Made DEF Owning, Recorded, Knows, PublishedIsClaimed, RecordedAsOwned, Ours
<1>3. QED
  BY <1>1, <1>2, OwningNext, DNSThroughout, PTL DEF Spec

----------------------------------------------------------------------------
(* The operator's records are kept.                                        *)

\* What a run may delete was listed as gpm's creation, with the target of its
\* claim.
LEMMA DeletableOwn ==
    ASSUME DNSTypeOK, Pending, run.at = "write", NEW n \in run.retarget \cup run.del
    PROVE  /\ n \in Domain /\ Licence(run.live, n)
           /\ run.seen[n].target \in Target
<1>1. run.base \in Ledger /\ run.retarget \subseteq Domain /\ run.del \subseteq Domain
  BY DEF DNSTypeOK, Run
<1>2. Own(run.seen, run.base, n) /\ run.live[n] = run.base[n]
  BY DEF Pending, Retargeting, Deleting, ToRetarget, ToDelete
<1>3. run.base[n] \in Claim
  BY <1>1, <1>2 DEF Own, Ledger
<1>4. QED
  BY <1>1, <1>2, <1>3 DEF Own, Licence, Claim

\* So what it deletes is not the operator's.
LEMMA DeletesOwn ==
    ASSUME DNSTypeOK, Pending, Separate, run.at = "write", NEW n \in run.retarget \cup run.del,
           Deletable(n)
    PROVE  ~Theirs(n)
<1>1. CASE Backend = "pihole"
  <2>1. zone[n].target = run.seen[n].target
    BY <1>1 DEF Deletable
  <2>2. Spares(run.live)
    BY <1>1 DEF Separate, ClaimsTell
  <2>3. QED
    BY <2>1, <2>2, DeletableOwn, DNSSyncAssumption DEF Spares
<1>2. CASE Backend = "cloudflare"
  <2>1. n \notin gone
    BY <1>2 DEF Deletable
  <2>2. Ours(n)
    BY <1>2, <2>1 DEF Separate, IdsTell
  <2>3. QED
    BY <2>2 DEF Ours, Theirs
<1>3. QED
  BY <1>1, <1>2, DNSSyncAssumption

\* A write leaves the operator's records alone, and writes gpm's.
LEMMA WritesSpare ==
    ASSUME DNSTypeOK, Pending, Separate, NEW n \in Domain,
           Retarget(n) \/ Readd(n) \/ PutBack(n) \/ Create(n) \/ Remove(n)
    PROVE  /\ \A m \in Domain : Theirs(m) => zone'[m] = zone[m]
           /\ \A m \in Domain : Theirs(m)' => zone'[m] = zone[m]
<1>1. zone \in Zone
  BY DEF DNSTypeOK
<1>2. CASE zone' = zone
  BY <1>2
<1>3. CASE zone' = [zone EXCEPT ![n] = None] /\ Deletable(n) /\ run.at = "write" /\ n \in run.retarget \cup run.del
  <2>1. ~Theirs(n)
    BY <1>3, DeletesOwn
  <2>2. QED
    BY <1>1, <1>3, <2>1 DEF Theirs, Zone
<1>4. ASSUME NEW t, zone' = [zone EXCEPT ![n] = Written(t)], Creatable(n)
      PROVE  /\ \A m \in Domain : Theirs(m) => zone'[m] = zone[m]
             /\ \A m \in Domain : Theirs(m)' => zone'[m] = zone[m]
  BY <1>1, <1>4 DEF Theirs, Creatable, Zone, Written
<1>5. QED
  BY <1>2, <1>3, <1>4, RetargetRun, ReaddRun, PutBackRun, CreateRun, RemoveRun

\* Cloudflare, where nobody edits a record in place.
LEMMA IdsTellNext ==
    ASSUME DNSTypeOK, Pending, IdsTell, Backend = "cloudflare", "repoint" \notin Ops, [Next]_vars
    PROVE  IdsTell'
<1> USE DEF config, gate, bounds
<1>1. /\ zone \in Zone /\ run \in Run /\ [run EXCEPT !.ok = FALSE] \in Run
      /\ run.retarget \subseteq Domain /\ run.del \subseteq Domain
  BY DEF DNSTypeOK, Run
<1>2. ASSUME UNCHANGED <<zone, gone>>, run' = run \/ run'.at \notin {"write", "readd"} PROVE IdsTell'
  BY <1>2 DEF IdsTell, Ours
<1>3. CASE UNCHANGED vars \/ Trigger \/ Reconcile \/ LoadLedger \/ Finished \/ RereadLedger
  <2>1. CASE Reconcile
    BY <1>2, <2>1, StartRunAt DEF Reconcile
  <2>2. CASE UNCHANGED vars \/ Trigger
    BY <1>2, <2>2 DEF vars, Trigger
  <2>3. CASE LoadLedger \/ Finished \/ RereadLedger
    <3>1. UNCHANGED <<zone, gone>> /\ run'.at \notin {"write", "readd"}
      BY <1>1, <2>3 DEF LoadLedger, Finished, RereadLedger, Run
    <3>2. QED
      BY <1>2, <3>1
  <2>4. QED
    BY <1>3, <2>1, <2>2, <2>3
<1>4. CASE SaveLedger \/ LedgerUnchanged \/ ResaveLedger \/ ConnectFails \/ SaveFails
  <2>1. UNCHANGED <<zone, gone>> /\ run'.at = "idle"
    BY <1>1, <1>4, EndRunAt DEF SaveLedger, LedgerUnchanged, ResaveLedger, ConnectFails, SaveFails
  <2>2. QED
    BY <1>2, <2>1
<1>5. CASE Crash
  BY <1>2, <1>5 DEF Crash, NoRun
<1>6. CASE Operators
  <2>1. CASE ReconcileNow
    BY <1>2, <2>1, StartRunAt DEF ReconcileNow
  <2>2. CASE UNCHANGED <<zone, gone, run>>
    BY <1>2, <2>2
  <2>3. ASSUME NEW n \in Domain, NEW t, OperatorCreates(n, t) PROVE IdsTell'
    <3>1. /\ zone[n] = None /\ run' = run /\ gone' = gone
          /\ zone' = [zone EXCEPT ![n] = [target |-> t, by |-> "operator", mark |-> FALSE]]
      BY <2>3 DEF OperatorCreates, Edit
    <3>2. \A m \in Domain : m # n => zone'[m] = zone[m]
      BY <1>1, <3>1 DEF Zone
    <3>3. zone'[n].mark = FALSE
      BY <1>1, <3>1 DEF Zone
    <3>4. ~Ours(n)
      BY <3>1 DEF Ours
    <3>5. QED
      BY <1>1, <3>1, <3>2, <3>3, <3>4 DEF IdsTell, Ours
  <2>4. ASSUME NEW n \in Domain, OperatorDeletes(n) PROVE IdsTell'
    <3>1. run' = run /\ gone' = gone \cup {n} /\ zone' = [zone EXCEPT ![n] = None]
      BY <2>4 DEF OperatorDeletes, Edit
    <3>2. zone'[n] = None /\ \A m \in Domain : m # n => zone'[m] = zone[m]
      BY <1>1, <3>1 DEF Zone
    <3>3. QED
      BY <1>1, <3>1, <3>2 DEF IdsTell, Ours
  <2>5. ASSUME NEW n \in Domain PROVE ~OperatorRepoints(n)
    BY DEF OperatorRepoints, Edit
  <2>6. QED
    BY <1>6, <2>1, <2>2, <2>3, <2>4, <2>5 DEF Operators, ChangeConfig, OtherCommit, RevertConfig, Edit
<1>7. CASE Connect
  <2>1. zone' = zone /\ gone' = {}
    BY <1>7 DEF Connect
  <2>2. ASSUME NEW n \in run'.retarget \cup run'.del PROVE n \in Domain /\ Ours(n)
    <3>1. n \in Domain /\ Own(zone, run.base, n)
      BY <1>1, <1>7, <2>2, ConnectRun DEF ToRetarget, ToDelete, Run
    <3>2. zone[n] # None /\ zone[n].mark
      BY <3>1 DEF Own, Mark
    <3>3. QED
      BY <3>1, <3>2 DEF IdsTell, Ours
  <2>3. QED
    BY <2>1, <2>2 DEF IdsTell, Ours
<1>8. ASSUME NEW n \in Domain, Retarget(n) \/ Readd(n) \/ PutBack(n) \/ Create(n) \/ Remove(n)
      PROVE  IdsTell'
  <2>0. gone' = gone
    BY <1>8, RetargetRun, ReaddRun, PutBackRun, CreateRun, RemoveRun
  <2>1. ASSUME NEW t, zone' = [zone EXCEPT ![n] = Written(t)], Creatable(n),
               run'.at \in {"write", "readd"} =>
                   run'.retarget = run.retarget /\ run'.del = run.del /\ run.at \in {"write", "readd"}
        PROVE  IdsTell'
    <3>1. /\ \A m \in Domain : m # n => zone'[m] = zone[m]
          /\ zone'[n] = Written(t)
      BY <1>1, <2>1 DEF Zone
    <3>2. ~Ours(n)
      BY <2>1 DEF Ours, Creatable
    <3>3. zone'[n].by = "gpm"
      BY <3>1 DEF Written
    <3>4. run.at \in {"write", "readd"} => n \notin (run.retarget \cup run.del) \ gone
      BY <3>2 DEF IdsTell
    <3>5. QED
      BY <1>1, <2>0, <2>1, <3>1, <3>3, <3>4 DEF IdsTell, Ours
  <2>2. ASSUME zone' = [zone EXCEPT ![n] = None],
               run'.at \in {"write", "readd"} =>
                   /\ run.at \in {"write", "readd"}
                   /\ run'.retarget \cup run'.del \subseteq (run.retarget \cup run.del) \ {n}
        PROVE  IdsTell'
    <3>1. zone'[n] = None /\ \A m \in Domain : m # n => zone'[m] = zone[m]
      BY <1>1, <2>2 DEF Zone
    <3>2. QED
      BY <1>1, <2>0, <2>2, <3>1 DEF IdsTell, Ours
  <2>3. CASE Retarget(n)
    <3>1. n \notin run.del
      BY <2>3, RetargetRun, DecidedOnce DEF Pending
    <3>2. QED
      BY <1>2, <2>0, <2>2, <2>3, <3>1, RetargetRun
  <2>4. CASE Readd(n)
    BY <1>2, <2>0, <2>1, <2>4, ReaddRun
  <2>5. CASE PutBack(n)
    BY <1>2, <2>0, <2>1, <2>5, PutBackRun
  <2>6. CASE Create(n)
    BY <1>2, <2>0, <2>1, <2>6, CreateRun
  <2>7. CASE Remove(n)
    BY <1>2, <2>0, <2>2, <2>7, RemoveRun
  <2>8. QED
    BY <1>8, <2>3, <2>4, <2>5, <2>6, <2>7
<1>9. QED
  BY <1>3, <1>4, <1>5, <1>6, <1>7, <1>8 DEF Next, Sync, Writes

\* Pi-hole: what a run plans to leave is backed from the listing on.
LEMMA BackedNext ==
    ASSUME DNSTypeOK, Pending, Backed, [Next]_vars
    PROVE  Backed'
<1> USE DEF config, gate, bounds
<1>1. /\ run \in Run /\ [run EXCEPT !.ok = FALSE] \in Run /\ run.apex \in Target
      /\ run.live \in Ledger /\ run.base \in Ledger /\ run.want \subseteq Domain
  BY DEF DNSTypeOK, Run
<1>2. ASSUME run' = run \/ run'.at \notin {"write", "readd"} PROVE Backed'
  BY <1>2 DEF Backed
<1>3. CASE UNCHANGED vars \/ Trigger
  BY <1>2, <1>3 DEF vars, Trigger
<1>4. CASE Operators \/ Reconcile
  BY <1>2, <1>4, OperatorsRun, StartRunAt DEF ReconcileNow, Reconcile
<1>5. CASE LoadLedger \/ Finished \/ RereadLedger
  <2>1. run'.at \notin {"write", "readd"}
    BY <1>1, <1>5 DEF LoadLedger, Finished, RereadLedger, Run
  <2>2. QED
    BY <1>2, <2>1
<1>6. CASE SaveLedger \/ LedgerUnchanged \/ ResaveLedger \/ ConnectFails \/ SaveFails
  <2>1. run'.at = "idle"
    BY <1>1, <1>6, EndRunAt DEF SaveLedger, LedgerUnchanged, ResaveLedger, ConnectFails, SaveFails
  <2>2. QED
    BY <1>2, <2>1
<1>7. CASE Crash
  BY <1>2, <1>7 DEF Crash, NoRun
<1>8. CASE Connect
  <2> SUFFICES ASSUME NEW n \in Domain, Licence(Planned(run.want, zone, run.apex, run.base), n),
                      n \notin ToCreate(run.want, zone), n \notin ToRetarget(run.want, zone, run.apex, run.base)
               PROVE  Licence(run'.live, n)
    BY <1>8, ConnectRun DEF Backed
  <2>1. n \notin ToAdopt(run.want, zone, run.apex, run.base)
    BY <1>1, Made DEF Planned, Licence
  <2>2. /\ run.base[n] # None
        /\ Planned(run.want, zone, run.apex, run.base)[n] = [target |-> run.apex, adopted |-> run.base[n].adopted]
    BY <2>1 DEF Planned, Licence
  <2>3. ~run.base[n].adopted
    BY <2>2 DEF Licence
  <2>4. run'.live[n] = run.base[n]
    BY <1>8, <2>1, ConnectRun
  <2>5. QED
    BY <2>2, <2>3, <2>4 DEF Licence
<1>9. ASSUME NEW n \in Domain, Retarget(n) \/ Readd(n) \/ PutBack(n) \/ Create(n) \/ Remove(n)
      PROVE  Backed'
  <2>1. ASSUME NEW m \in Domain, NEW c, m # n PROVE Licence([run.live EXCEPT ![n] = c], m) <=> Licence(run.live, m)
    BY <1>1, <2>1 DEF Ledger, Licence
  <2>2. Licence([run.live EXCEPT ![n] = Created(run.apex)], n)
    BY <1>1, Made DEF Ledger, Licence
  <2>3. Fixed
    BY <1>9, RetargetRun, ReaddRun, PutBackRun, CreateRun, RemoveRun
  <2> DEFINE plan == Planned(run.want, run.seen, run.apex, run.base)
  <2>4. Planned(run'.want, run'.seen, run'.apex, run'.base) = plan
    BY <2>3 DEF Fixed
  <2> SUFFICES ASSUME run'.at \in {"write", "readd"}, NEW m \in Domain, Licence(plan, m)
               PROVE  m \in run'.create \cup run'.retarget \cup {run'.hole} \/ Licence(run'.live, m)
    BY <2>4 DEF Backed
  <2> HIDE DEF plan
  <2>5. run.at \in {"write", "readd"}
    BY <1>9, RetargetRun, ReaddRun, PutBackRun, CreateRun, RemoveRun
  <2>6. m \in run.create \cup run.retarget \cup {run.hole} \/ Licence(run.live, m)
    BY <2>5 DEF Backed, plan
  <2>7. m # None
    BY DNSSyncAssumption
  <2>8. CASE Retarget(n)
    <3>1. run.hole = None
      BY <2>8, RetargetRun DEF Pending
    <3>2. /\ run'.create = run.create /\ run'.retarget = run.retarget \ {n} /\ run'.hole = n
          /\ run'.live = [run.live EXCEPT ![n] = None]
      BY <2>8, RetargetRun
    <3>3. m # n => (Licence(run'.live, m) <=> Licence(run.live, m))
      BY <2>1, <3>2
    <3>4. QED
      BY <2>6, <2>7, <3>1, <3>2, <3>3
  <2>9. CASE Readd(n)
    BY <2>1, <2>2, <2>6, <2>9, ReaddRun
  <2>10. CASE PutBack(n)
    BY <2>10, PutBackRun
  <2>11. CASE Create(n)
    BY <2>1, <2>2, <2>6, <2>11, CreateRun
  <2>12. CASE Remove(n)
    <3>1. n \in Deleting
      BY <2>12, RemoveRun DEF Pending
    <3>2. ~Licence(plan, n)
      BY <3>1 DEF plan, Planned, Licence, Deleting, ToDelete, ToCreate, ToRetarget, ToAdopt
    <3>3. /\ run'.create = run.create /\ run'.retarget = run.retarget /\ run'.hole = run.hole
          /\ run'.live = [run.live EXCEPT ![n] = None]
      BY <2>12, RemoveRun
    <3>4. Licence(run'.live, m) <=> Licence(run.live, m)
      BY <2>1, <3>2, <3>3
    <3>5. QED
      BY <2>6, <3>3, <3>4
  <2>13. QED
    BY <1>9, <2>8, <2>9, <2>10, <2>11, <2>12
<1>10. QED
  BY <1>3, <1>4, <1>5, <1>6, <1>7, <1>8, <1>9 DEF Next, Sync, Writes

\* Pi-hole, where no revert rewrites the ledger.
LEMMA ClaimsTellNext ==
    ASSUME DNSTypeOK, Pending, ClaimsTell, Backend = "pihole", "revert" \notin Ops, [Next]_vars
    PROVE  ClaimsTell'
<1> USE DEF config, gate, bounds
<1>1. /\ zone \in Zone /\ run \in Run /\ [run EXCEPT !.ok = FALSE] \in Run /\ run.apex \in Target
      /\ run.live \in Ledger /\ run.base \in Ledger /\ ledger \in Ledger
  BY DEF DNSTypeOK, Run
<1>2. Spares(ledger) /\ Spares(run.live) /\ Backed /\ Backed'
  BY BackedNext DEF ClaimsTell
<1>s. ASSUME zone' = zone, ledger' \in {ledger, run.live},
             \A n \in Domain : Licence(run'.live, n) => Licence(ledger, n) \/ Licence(run.live, n)
      PROVE  ClaimsTell'
  BY <1>2, <1>s DEF ClaimsTell, Spares, Theirs
<1>n. \A n \in Domain : ~Licence(NoLedger, n)
  BY DEF Licence, NoLedger
<1>3. CASE UNCHANGED vars \/ Trigger
  BY <1>3, <1>s DEF vars, Trigger
<1>4. CASE Reconcile \/ ReconcileNow
  <2>1. zone' = zone /\ ledger' = ledger /\ run'.live = NoLedger
    BY <1>4, StartRunAt DEF Reconcile, ReconcileNow
  <2>2. QED
    BY <1>n, <1>s, <2>1
<1>5. CASE LoadLedger
  <2>1. zone' = zone /\ ledger' = ledger /\ run'.live = ledger
    BY <1>1, <1>5 DEF LoadLedger, Run
  <2>2. QED
    BY <1>s, <2>1
<1>6. CASE Connect
  <2>1. zone' = zone /\ ledger' = ledger /\ run.live = run.base
    BY <1>6 DEF Connect, Pending
  <2>2. ASSUME NEW n \in Domain, Licence(run'.live, n) PROVE Licence(run.live, n)
    BY <1>1, <1>6, <2>1, <2>2, ConnectRun, Made DEF Licence
  <2>3. QED
    BY <1>s, <2>1, <2>2
<1>7. CASE Finished
  <2>1. /\ zone' = zone /\ ledger' = ledger /\ run.at = "write"
        /\ run.retarget = {} /\ run.create = {} /\ run.hole = None
        /\ run'.live = Planned(run.want, run.seen, run.apex, run.base)
    BY <1>1, <1>7 DEF Finished, Run, Pending
  <2>2. ASSUME NEW n \in Domain, Licence(run'.live, n) PROVE Licence(run.live, n)
    BY <1>2, <2>1, <2>2, DNSSyncAssumption DEF Backed
  <2>3. QED
    BY <1>s, <2>1, <2>2
<1>8. CASE RereadLedger
  <2>1. zone' = zone /\ ledger' = ledger /\ run'.live = Merge(run.base, ledger, run.live)
    BY <1>1, <1>8 DEF RereadLedger, Run
  <2>2. ASSUME NEW n \in Domain, Licence(run'.live, n) PROVE Licence(run.live, n)
    BY <2>1, <2>2 DEF Merge, Licence
  <2>3. QED
    BY <1>s, <2>1, <2>2
<1>9. CASE SaveLedger \/ LedgerUnchanged \/ ResaveLedger \/ ConnectFails \/ SaveFails
  <2>0. [run EXCEPT !.ok = FALSE].live = run.live
    BY <1>1 DEF Run
  <2>1. run'.live = run.live
    BY <1>1, <1>9, <2>0, EndRunAt DEF SaveLedger, LedgerUnchanged, ResaveLedger, ConnectFails, SaveFails
  <2>2. zone' = zone /\ ledger' \in {ledger, run.live}
    BY <1>9 DEF SaveLedger, LedgerUnchanged, ResaveLedger, ConnectFails, SaveFails, Store
  <2>3. QED
    BY <1>s, <2>1, <2>2
<1>10. CASE Crash
  <2>1. zone' = zone /\ ledger' = ledger /\ run'.live = NoLedger
    BY <1>10 DEF Crash, NoRun
  <2>2. QED
    BY <1>n, <1>s, <2>1
<1>11. CASE Operators
  <2>1. CASE ReconcileNow
    BY <1>4, <2>1
  <2>2. CASE UNCHANGED <<zone, ledger, run>>
    BY <1>s, <2>2
  <2>z. ASSUME NEW n \in Domain, NEW r, zone' = [zone EXCEPT ![n] = r], UNCHANGED <<ledger, run>>,
               \/ ~(r # None /\ r.by = "operator")
               \/ r.target = Foreign
               \/ ~Licence(ledger, n) /\ ~Licence(run.live, n)
        PROVE  ClaimsTell'
    <3>1. zone'[n] = r /\ \A m \in Domain : m # n => zone'[m] = zone[m]
      BY <1>1, <2>z DEF Zone
    <3>2. QED
      BY <1>2, <2>z, <3>1 DEF ClaimsTell, Spares, Theirs
  <2>3. ASSUME NEW n \in Domain, NEW t, OperatorCreates(n, t) PROVE ClaimsTell'
    <3>1. ~Licence(ledger, n) /\ ~Licence(run.live, n)
      BY <2>3 DEF OperatorCreates, HandWritable, Licence
    <3>2. QED
      BY <2>3, <2>z, <3>1 DEF OperatorCreates, Edit
  <2>4. ASSUME NEW n \in Domain, OperatorRepoints(n) PROVE ClaimsTell'
    <3>1. zone[n] \in Record
      BY <1>1, <2>4 DEF OperatorRepoints, Zone
    <3>2. PICK r : r = [zone[n] EXCEPT !.target = Foreign, !.by = "operator"]
      OBVIOUS
    <3>3. r.target = Foreign
      BY <3>1, <3>2 DEF Record
    <3>4. zone' = [zone EXCEPT ![n] = r]
      BY <2>4, <3>2 DEF OperatorRepoints
    <3>5. QED
      BY <2>4, <2>z, <3>3, <3>4 DEF OperatorRepoints, Edit
  <2>5. ASSUME NEW n \in Domain, OperatorDeletes(n) PROVE ClaimsTell'
    BY <2>5, <2>z DEF OperatorDeletes, Edit
  <2>6. ASSUME NEW p \in past PROVE ~RevertConfig(p)
    BY DEF RevertConfig, Edit
  <2>7. QED
    BY <1>11, <2>1, <2>2, <2>3, <2>4, <2>5, <2>6 DEF Operators, ChangeConfig, OtherCommit, Edit
<1>12. ASSUME NEW n \in Domain, Retarget(n) \/ Readd(n) \/ PutBack(n) \/ Create(n) \/ Remove(n)
       PROVE  ClaimsTell'
  <2>1. ledger' = ledger
    BY <1>12, RetargetRun, ReaddRun, PutBackRun, CreateRun, RemoveRun
  <2>2. \A m \in Domain : Theirs(m)' => zone'[m] = zone[m]
    BY <1>12, WritesSpare DEF Separate
  <2>3. ASSUME NEW m \in Domain, Theirs(m)', Licence(run'.live, m) PROVE Licence(run.live, m)
    <3>1. m # n => \A c : Licence([run.live EXCEPT ![n] = c], m) => Licence(run.live, m)
      BY <1>1 DEF Ledger, Licence
    <3>2. ASSUME m = n PROVE ~Licence([run.live EXCEPT ![n] = None], m)
      BY <1>1, <3>2 DEF Ledger, Licence
    <3>3. ASSUME NEW t, m = n, zone' = [zone EXCEPT ![n] = Written(t)] PROVE FALSE
      BY <1>1, <2>3, <3>3 DEF Zone, Theirs, Written
    <3>4. CASE run'.live = run.live
      BY <2>3, <3>4
    <3>5. CASE run'.live = [run.live EXCEPT ![n] = None]
      BY <2>3, <3>1, <3>2, <3>5
    <3>6. ASSUME NEW t, NEW c, zone' = [zone EXCEPT ![n] = Written(t)], run'.live = [run.live EXCEPT ![n] = c]
          PROVE  Licence(run.live, m)
      BY <2>3, <3>1, <3>3, <3>6
    <3>7. CASE Retarget(n) \/ Remove(n)
      BY <3>4, <3>5, <3>7, RetargetRun, RemoveRun
    <3>8. CASE Readd(n)
      BY <3>4, <3>6, <3>8, ReaddRun
    <3>9. CASE PutBack(n)
      BY <3>4, <3>6, <3>9, PutBackRun
    <3>10. CASE Create(n)
      BY <3>4, <3>6, <3>10, CreateRun
    <3>11. QED
      BY <1>12, <3>7, <3>8, <3>9, <3>10
  <2>4. QED
    BY <1>2, <2>1, <2>2, <2>3 DEF ClaimsTell, Spares, Theirs
<1>13. QED
  BY <1>3, <1>4, <1>5, <1>6, <1>7, <1>8, <1>9, <1>10, <1>11, <1>12 DEF Next, Sync, Writes

\* No step removes or changes what the operator wrote, unless the operator
\* takes it.
LEMMA StepSpares ==
    ASSUME DNSTypeOK, Pending, Separate, [Next]_vars, edits' = edits, NEW n \in Domain, Theirs(n)
    PROVE  zone'[n] = zone[n]
<1>1. ~Operators
  BY OperatorsCount DEF DNSTypeOK
<1>2. Writes => zone'[n] = zone[n]
  BY WritesSpare DEF Writes
<1>3. QED
  BY <1>1, <1>2 DEF Next, Sync, Trigger, Reconcile, StartRun, LoadLedger, Connect, Finished, SaveLedger,
     LedgerUnchanged, RereadLedger, ResaveLedger, ConnectFails, SaveFails, Crash, vars

\* The reconciler never removes or changes a record the operator wrote, adopted
\* or not, whatever failed, was lost or crashed before: on Pi-hole as long as no
\* revert rewrites the ledger, on Cloudflare as long as no record is edited in
\* place while a run is under way.
THEOREM OperatorsRecordsStay ==
    ASSUME Separable PROVE Spec => OperatorRecordsKept
<1>1. Init => Separate
  BY DEF Init, NoRun, NoLedger, Separate, ClaimsTell, Spares, Backed, Licence, IdsTell
<1>2. DNSTypeOK /\ Pending /\ Separate /\ [Next]_vars => Separate'
  BY ClaimsTellNext, IdsTellNext DEF Separate, Separable
<1>3. Spec => []Separate
  BY <1>1, <1>2, DNSThroughout, PTL DEF Spec
<1> DEFINE Step ==
    edits' = edits =>
        \A n \in Domain : zone[n] # None /\ zone[n].by = "operator" => zone'[n] = zone[n]
<1>4. DNSTypeOK /\ Pending /\ Separate /\ [Next]_vars => [Step]_vars
  BY StepSpares DEF Theirs
<1>5. Spec => [][Step]_vars
  BY <1>3, <1>4, DNSThroughout, PTL DEF Spec
<1>6. QED
  BY <1>5 DEF OperatorRecordsKept

=============================================================================
