------------------------- MODULE ConfigStoreProofs -------------------------
(***************************************************************************)
(* Proofs about ConfigStore, for every set of objects, contents, history   *)
(* and bound.                                                              *)
(***************************************************************************)
EXTENDS ConfigStore, TLAPS

\* The faults under which the store keeps its promise: git commands may fail,
\* and single files may fail to be written, but no request is cancelled and
\* the process does not die in the middle of an operation.  SaveBatch has no
\* rollback, so with it no write may fail.
Reliable ==
    /\ Faults \cap {"cancel", "crash"} = {}
    /\ "write" \in Faults => "batch" \notin Ops

\* The operations that write one file and validate it against the tree.
SingleFile == {"save", "create", "delete", "token", "edit", "settings", "ledger"}

\* Every commit since the start, and the one it started from, passes the gates.
GoodHistory ==
    /\ Len(log) >= Len(First) /\ job.head >= Len(First)
    /\ \A i \in 1..Len(log) : i >= Len(First) => Restorable(log[i])

\* Which operation can be in which phase.
PhaseOfOp ==
    /\ job.phase = "write" =>
          job.op \in SingleFile \cup {"batch", "apply", "restore"}
    /\ job.phase = "wipe" => job.op = "restore"
    /\ job.phase \in {"readTree", "clean"} => job.op = "revert"
    /\ job.phase = "preserve" => job.op \in {"restore", "revert"}
    /\ job.phase # "idle" => job.op \in Ops

\* What each phase knows about the tree: where it is whole, that it passes the
\* gates; while files are being written, that both the tree before and the
\* tree after do, and that the working tree is between them.
GoodPhase ==
    /\ job.live
    /\ job.phase \in {"idle", "commit", "head"} => Restorable(tree)
    /\ job.phase = "write" /\ job.op # "restore" =>
          /\ Restorable(job.to) /\ Restorable(job.keep)
          /\ tree = [p \in Path |-> IF p \in job.todo THEN job.keep[p]
                                    ELSE job.to[p]]
          /\ job.op \in SingleFile =>
                tree = job.keep /\ \E p \in Path : job.todo = {p}
    /\ job.phase # "idle" /\ job.op = "apply" => Restorable(job.keep)

IInv == TypeOK /\ GoodHistory /\ PhaseOfOp /\ GoodPhase

----------------------------------------------------------------------------
(* Type correctness.                                                       *)

\* A path's new value keeps a tree a tree.
LEMMA TreeExcept ==
    ASSUME NEW t \in Tree, NEW p \in Path, NEW v \in Blob \cup {None}
    PROVE  [t EXCEPT ![p] = v] \in Tree
BY DEF Tree

\* Begin, Finish and Goto only ever put a well-formed operation in place.
LEMMA BeginType ==
    ASSUME TypeOK, NEW op, NEW phase, NEW to, NEW todo,
           to \in Tree, todo \in SUBSET Path,
           phase \in {"write", "wipe", "readTree", "checkout"},
           Begin(op, phase, to, todo)
    PROVE  /\ tree' \in Tree
           /\ log' \in Seq(Tree) /\ Len(log') > 0
           /\ job' \in Jobs /\ job'.head <= Len(log')
           /\ revoked' \subseteq STRING
<1>1. op \in OpKinds
  BY ConfigStoreAssumption DEF Begin
<1>2. QED
  BY <1>1 DEF Begin, TypeOK, Jobs

\* The digests a finished operation withdraws are digests.
LEMMA WithdrawnType ==
    ASSUME TypeOK
    PROVE  Withdrawn \subseteq STRING
<1>1. SUFFICES ASSUME NEW n \in Token, job.keep[n] # None
               PROVE  job.keep[n].digest \in STRING
  BY DEF Withdrawn
<1>2. job.keep[n] \in Blob
  BY <1>1, ConfigStoreAssumption DEF TypeOK, Jobs, Tree, Path
<1>3. QED
  BY <1>2, ConfigStoreAssumption DEF Contents

\* The end of an operation.
LEMMA FinishType ==
    ASSUME TypeOK, NEW res \in {"ok", "unchanged", "error", "crashed"},
           Finish(res)
    PROVE  /\ job' \in Jobs /\ job'.head = job.head
           /\ revoked' \subseteq STRING
BY WithdrawnType DEF Finish, TypeOK, Jobs

\* The next phase of an operation.
LEMMA GotoType ==
    ASSUME TypeOK,
           NEW phase \in {"write", "clean", "preserve", "check", "undo", "commit", "head"},
           Goto(phase)
    PROVE  /\ job' \in Jobs /\ job'.head = job.head
           /\ revoked' \subseteq STRING
BY DEF Goto, TypeOK, Jobs

\* A batch applied to a tree gives a tree.
LEMMA MergeType ==
    ASSUME NEW t \in Tree, NEW up, NEW del,
           \A n \in DOMAIN up : up[n] \in Blob
    PROVE  Merge(t, up, del) \in Tree
BY DEF Merge, Tree

\* The store starts well formed.
LEMMA InitType == Init => TypeOK
<1>1. First[Len(First)] \in Tree
  BY ConfigStoreAssumption
<1>2. QED
  BY <1>1, ConfigStoreAssumption DEF Init, TypeOK, NoJob, Jobs

\* Starting an operation keeps the state well formed.
LEMMA OperationType == ASSUME TypeOK, Operation PROVE TypeOK'
<1> USE ConfigStoreAssumption
<1>t. tree \in Tree
  BY DEF TypeOK
<1>u. \A p \in Path : Vals[p] \subseteq Blob
  OBVIOUS
<1>w. ASSUME NEW op, NEW n \in Name, NEW b \in Blob, SaveWrite(op, n, b)
      PROVE  /\ tree' \in Tree
             /\ log' \in Seq(Tree) /\ Len(log') > 0
             /\ job' \in Jobs /\ job'.head <= Len(log')
             /\ revoked' \subseteq STRING
  <2>1. [tree EXCEPT ![n] = b] \in Tree
    BY <1>t, TreeExcept DEF Path
  <2>2. QED
    BY <1>w, <2>1, BeginType DEF SaveWrite, Path
<1>x. ASSUME NEW op, NEW n \in Name, NEW b \in Blob, SaveUnchanged(op, n, b)
      PROVE  /\ tree' \in Tree
             /\ log' \in Seq(Tree) /\ Len(log') > 0
             /\ job' \in Jobs /\ job'.head <= Len(log')
             /\ revoked' \subseteq STRING
  <2>1. [tree EXCEPT ![n] = b] \in Tree
    BY <1>t, TreeExcept DEF Path
  <2>2. op \in OpKinds /\ Len(log) \in Nat \ {0}
    BY <1>x DEF SaveUnchanged, TypeOK
  <2>3. job \in Jobs /\ tree \in Tree
    BY DEF TypeOK
  <2>4. job' = [job EXCEPT !.op = op, !.to = [tree EXCEPT ![n] = b],
                           !.keep = tree, !.head = Len(log),
                           !.res = "unchanged"]
    BY <1>x DEF SaveUnchanged
  <2>5. job' \in Jobs /\ job'.head = Len(log)
    BY <2>1, <2>2, <2>3, <2>4 DEF Jobs
  <2>6. UNCHANGED <<tree, log, revoked>>
    BY <1>x DEF SaveUnchanged
  <2>7. QED
    BY <2>2, <2>5, <2>6 DEF TypeOK
<1>1. ASSUME NEW n \in Name \ Token, NEW b \in Vals[n], Save(n, b)
      PROVE  TypeOK'
  BY <1>1, <1>u, <1>w, <1>x DEF Save, TypeOK, clients, Path
<1>2. ASSUME NEW n \in Name \ Token, NEW b \in Vals[n], Create(n, b)
      PROVE  TypeOK'
  BY <1>2, <1>u, <1>w DEF Create, TypeOK, clients, Path
<1>3. ASSUME NEW n \in Name, Delete(n)
      PROVE  TypeOK'
  <2>1. [tree EXCEPT ![n] = None] \in Tree
    BY <1>t, TreeExcept DEF Path
  <2>2. QED
    BY <1>3, <2>1, BeginType DEF Delete, TypeOK, clients, Path
<1>4. ASSUME NEW n \in Token, NEW b \in Vals[n], MintToken(n, b)
      PROVE  TypeOK'
  BY <1>4, <1>u, <1>w DEF MintToken, TypeOK, clients, Path
<1>5. ASSUME NEW n \in Token, ReadTokenForEdit(n)
      PROVE  TypeOK'
  <2>1. tree[n] \in Blob
    BY <1>5, <1>t DEF ReadTokenForEdit, Tree, Path
  <2>2. tree[n].digest \in STRING
    BY <2>1 DEF Contents
  <2>3. QED
    BY <1>5, <2>2 DEF ReadTokenForEdit, TypeOK
<1>6. ASSUME NEW n \in Token, NEW b \in Vals[n], edit # None, n = edit.tok,
             SaveTokenEdit(b)
      PROVE  TypeOK'
  BY <1>6, <1>u, <1>w, <1>x DEF SaveTokenEdit, TypeOK, Path
<1>7. ASSUME NEW up \in Batches, SaveBatch(up)
      PROVE  TypeOK'
  <2>1. Merge(tree, up, {}) \in Tree
    BY <1>t, MergeType
  <2>2. DOMAIN up \in SUBSET Path
    BY DEF Path
  <2>3. QED
    BY <1>7, <2>1, <2>2, BeginType DEF SaveBatch, TypeOK, clients
<1>8. ASSUME NEW up \in Batches, NEW del \in SUBSET (Name \ Token),
             PlanDiscovery(up, del)
      PROVE  TypeOK'
  BY <1>8 DEF PlanDiscovery, TypeOK
<1>9. ASSUME ApplyBatch
      PROVE  TypeOK'
  <2> DEFINE up == [n \in PlannedUpserts |-> plan.up[n]]
             to == Merge(tree, up, PlannedRemovals)
             todo == PlannedUpserts \cup PlannedRemovals
  <2>1. plan # None /\ DOMAIN plan.up \subseteq Name \ Token
        /\ plan.del \subseteq Name \ Token
        /\ \A n \in DOMAIN plan.up : plan.up[n] \in Blob
    BY <1>9 DEF ApplyBatch, TypeOK
  <2>2. to \in Tree
    BY <2>1, <1>t, MergeType DEF PlannedUpserts
  <2>3. todo \in SUBSET Path
    BY <2>1 DEF PlannedUpserts, PlannedRemovals, Path
  <2>4. CASE Begin("apply", "write", to, todo)
    BY <1>9, <2>2, <2>3, <2>4, BeginType DEF ApplyBatch, TypeOK
  <2>5. CASE UNCHANGED <<tree, log, job, revoked>>
    BY <1>9, <2>5 DEF ApplyBatch, TypeOK
  <2>6. QED
    BY <1>9, <2>4, <2>5 DEF ApplyBatch
<1>10. ASSUME NEW i \in 1..Len(log), Revert(i)
       PROVE  TypeOK'
  <2>1. log[i] \in Tree
    BY DEF TypeOK
  <2>2. QED
    BY <1>10, <2>1, BeginType DEF Revert, TypeOK, clients
<1>11. ASSUME NEW n \in Name, NEW i \in 1..Len(log), RevertObject(n, i)
       PROVE  TypeOK'
  <2>1. log[i] \in Tree
    BY DEF TypeOK
  <2>2. [tree EXCEPT ![n] = log[i][n]] \in Tree
    BY <2>1, <1>t, TreeExcept DEF Path, Tree
  <2>3. QED
    BY <1>11, <2>2, BeginType DEF RevertObject, TypeOK, clients, Path
<1>12. ASSUME NEW b \in Vals[Settings], SaveSettings(b)
       PROVE  TypeOK'
  <2>1. [tree EXCEPT ![Settings] = b] \in Tree
    BY <1>t, <1>u, TreeExcept DEF Path
  <2>2. QED
    BY <1>12, <2>1, BeginType DEF SaveSettings, TypeOK, clients, Path
<1>13. ASSUME LoadDNSLedger
       PROVE  TypeOK'
  BY <1>13 DEF LoadDNSLedger, TypeOK, Tree, Path
<1>14. ASSUME NEW b \in Vals[Ledger], SaveDNSLedger(b)
       PROVE  TypeOK'
  <2>1. [tree EXCEPT ![Ledger] = b] \in Tree
    BY <1>t, <1>u, TreeExcept DEF Path
  <2>2. CASE Begin("ledger", "write", [tree EXCEPT ![Ledger] = b], {Ledger})
    <3>1. {Ledger} \in SUBSET Path
      BY DEF Path
    <3>2. /\ tree' \in Tree
          /\ log' \in Seq(Tree) /\ Len(log') > 0
          /\ job' \in Jobs /\ job'.head <= Len(log')
          /\ revoked' \subseteq STRING
      BY <2>1, <2>2, <3>1, BeginType
    <3>3. QED
      BY <1>14, <3>2 DEF SaveDNSLedger, TypeOK
  <2>3. CASE UNCHANGED <<tree, log, job, revoked>>
    BY <1>14, <2>3 DEF SaveDNSLedger, TypeOK
  <2>4. QED
    BY <1>14, <2>2, <2>3 DEF SaveDNSLedger
<1>15. ASSUME NEW i \in 1..Len(log), Restore(i)
       PROVE  TypeOK'
  <2>1. log[i] \in Tree /\ tree[Ledger] \in Blob \cup {None}
    BY <1>t DEF TypeOK, Tree, Path
  <2>2. [log[i] EXCEPT ![Ledger] = tree[Ledger]] \in Tree
    BY <2>1, TreeExcept DEF Path
  <2>3. QED
    BY <1>15, <2>2, BeginType DEF Restore, TypeOK, clients
<1>16. QED
  BY <1>1, <1>2, <1>3, <1>4, <1>5, <1>6, <1>7, <1>8, <1>9, <1>10, <1>11,
     <1>12, <1>13, <1>14, <1>15 DEF Operation

\* A step of the operation that holds the lock keeps the state well formed.
LEMMA StepType == ASSUME TypeOK, Step PROVE TypeOK'
<1> USE ConfigStoreAssumption
<1>t. /\ tree \in Tree /\ job.to \in Tree /\ job.keep \in Tree
      /\ log[job.head] \in Tree /\ job.head \in 1..Len(log)
      /\ job \in Jobs /\ log \in Seq(Tree) /\ Len(log) \in Nat
  BY DEF TypeOK, Jobs
<1>f. ASSUME NEW res \in {"ok", "unchanged", "error", "crashed"}, Finish(res)
      PROVE  /\ job' \in Jobs /\ job'.head = job.head
             /\ revoked' \subseteq STRING
  BY <1>f, FinishType
<1>g. ASSUME NEW phase \in {"write", "clean", "preserve", "check", "undo", "commit", "head"},
             Goto(phase)
      PROVE  /\ job' \in Jobs /\ job'.head = job.head
             /\ revoked' \subseteq STRING
  BY <1>g, GotoType
<1>1. ASSUME NEW p \in Path, WriteFile(p)
      PROVE  TypeOK'
  <2>1. tree' \in Tree
    BY <1>1, <1>t DEF WriteFile, Tree
  <2>2. job' \in Jobs /\ job'.head = job.head
    BY <1>1, <1>t DEF WriteFile, Jobs
  <2>3. QED
    BY <1>1, <2>1, <2>2 DEF WriteFile, TypeOK, clients
<1>2. ASSUME WriteFails
      PROVE  TypeOK'
  <2>1. tree' \in Tree /\ (Finish("error") \/ Goto("undo"))
    BY <1>2, <1>t DEF WriteFails
  <2>2. QED
    BY <1>2, <2>1, <1>f, <1>g DEF WriteFails, TypeOK, clients
<1>3. ASSUME WipeConfig
      PROVE  TypeOK'
  <2>1. tree' \in Tree
    BY <1>3, <1>t DEF WipeConfig, Tree
  <2>2. QED
    BY <1>3, <2>1, <1>g DEF WipeConfig, TypeOK, clients
<1>4. ASSUME ReadTree
      PROVE  TypeOK'
  <2>1. tree' \in Tree
    BY <1>4, <1>t DEF ReadTree, Tree
  <2>2. QED
    BY <1>4, <2>1, <1>g DEF ReadTree, TypeOK, clients
<1>5. ASSUME CleanTree
      PROVE  TypeOK'
  BY <1>5, <1>t, <1>g DEF CleanTree, TypeOK, clients
<1>6. ASSUME CheckoutPath
      PROVE  TypeOK'
  <2>1. tree' \in Tree
    BY <1>6, <1>t DEF CheckoutPath, Tree
  <2>2. QED
    BY <1>6, <2>1, <1>g DEF CheckoutPath, TypeOK, clients
<1>7. ASSUME RestoreFails
      PROVE  TypeOK'
  BY <1>7, <1>f DEF RestoreFails, TypeOK, clients
<1>8. ASSUME PreserveTokens
      PROVE  TypeOK'
  <2>1. tree' \in Tree
    BY <1>8, <1>t DEF PreserveTokens, Tree
  <2>2. QED
    BY <1>8, <2>1, <1>g DEF PreserveTokens, TypeOK, clients
<1>9. ASSUME CheckRestored
      PROVE  TypeOK'
  <2>1. Goto("commit") \/ Goto("undo")
    BY <1>9 DEF CheckRestored
  <2>2. QED
    BY <1>9, <2>1, <1>g DEF CheckRestored, TypeOK, clients
<1>10. ASSUME Undo
       PROVE  TypeOK'
  BY <1>10, <1>t, <1>f DEF Undo, TypeOK, clients
<1>11. ASSUME Commit
       PROVE  TypeOK'
  <2>1. CASE Finish("unchanged") /\ UNCHANGED log
    BY <1>11, <2>1, <1>f DEF Commit, TypeOK, clients
  <2>2. CASE log' = Append(log, tree) /\ Goto("head")
    <3>1. log' \in Seq(Tree) /\ Len(log') = Len(log) + 1
      BY <2>2, <1>t
    <3>2. job' \in Jobs /\ job'.head = job.head /\ revoked' \subseteq STRING
      BY <2>2, <1>g
    <3>3. job'.head <= Len(log') /\ Len(log') > 0
      BY <3>1, <3>2, <1>t
    <3>4. QED
      BY <1>11, <3>1, <3>2, <3>3 DEF Commit, TypeOK, clients
  <2>3. QED
    BY <1>11, <2>1, <2>2 DEF Commit
<1>12. ASSUME ReadHead
       PROVE  TypeOK'
  BY <1>12, <1>f DEF ReadHead, TypeOK, clients
<1>13. ASSUME CommitFails
       PROVE  TypeOK'
  <2>1. tree' \in Tree /\ (Finish("error") \/ Goto("undo"))
    BY <1>13, <1>t DEF CommitFails
  <2>2. QED
    BY <1>13, <2>1, <1>f, <1>g DEF CommitFails, TypeOK, clients
<1>14. ASSUME Cancel
       PROVE  TypeOK'
  <2>1. job' \in Jobs /\ job'.head = job.head
    BY <1>14, <1>t DEF Cancel, Jobs
  <2>2. QED
    BY <1>14, <2>1 DEF Cancel, TypeOK, clients
<1>15. ASSUME Crash
       PROVE  TypeOK'
  <2>1. Settings \in Path /\ Defaults \in Blob
    BY ConfigStoreAssumption DEF Path
  <2>2. tree' \in Tree
    BY <1>15, <1>t, <2>1, TreeExcept DEF Crash
  <2>3. QED
    BY <1>15, <1>f, <2>2 DEF Crash, TypeOK
<1>16. QED
  BY <1>1, <1>2, <1>3, <1>4, <1>5, <1>6, <1>7, <1>8, <1>9, <1>10, <1>11,
     <1>12, <1>13, <1>14, <1>15 DEF Step

\* Every step keeps the state well formed.
LEMMA NextType == ASSUME TypeOK, [Next]_vars PROVE TypeOK'
<1>1. CASE Operation
  BY <1>1, OperationType
<1>2. CASE Step
  BY <1>2, StepType
<1>3. CASE UNCHANGED vars
  BY <1>3 DEF vars, TypeOK
<1>4. QED
  BY <1>1, <1>2, <1>3 DEF Next

\* The store's state is well formed in every reachable state, whatever fails,
\* is cancelled or crashes.
THEOREM TypeCorrect == Spec => []TypeOK
<1>1. Init => TypeOK
  BY InitType
<1>2. TypeOK /\ [Next]_vars => TypeOK'
  BY NextType
<1>3. QED
  BY <1>1, <1>2, PTL DEF Spec

----------------------------------------------------------------------------
(* What the gates do and do not depend on.                                 *)

\* A ledger write cannot change what any gate answers.
LEMMA LedgerIrrelevant ==
    ASSUME NEW t \in Tree, NEW b \in Blob, Restorable(t)
    PROVE  Restorable([t EXCEPT ![Ledger] = b])
<1> DEFINE u == [t EXCEPT ![Ledger] = b]
<1>1. \A p \in Name \cup {Settings} : u[p] = t[p]
  BY ConfigStoreAssumption DEF Tree, Path
<1> HIDE DEF u
<1>2. Present(u) = Present(t)
  BY <1>1 DEF Present
<1>3. Present(t) \subseteq Name
  BY DEF Present
<1>4. Validates(u) /\ EdgeOK(u) /\ CleanObjects(u) /\ CleanSettings(u)
  BY <1>1, <1>2, <1>3 DEF Restorable, Validates, EdgeOK, CleanObjects, CleanSettings
<1>5. QED
  BY <1>4 DEF Restorable, u

\* The settings gate together with a restorable tree.
LEMMA SettingsGate ==
    ASSUME NEW t \in Tree, NEW b \in Blob, Restorable(t),
           EdgeOK([t EXCEPT ![Settings] = b]), ~b.tainted
    PROVE  Restorable([t EXCEPT ![Settings] = b])
<1> DEFINE u == [t EXCEPT ![Settings] = b]
<1>1. (\A p \in Name : u[p] = t[p]) /\ u[Settings] = b
  BY ConfigStoreAssumption DEF Tree, Path
<1>2. EdgeOK(u)
  OBVIOUS
<1> HIDE DEF u
<1>3. Present(u) = Present(t) /\ Present(t) \subseteq Name
  BY <1>1 DEF Present
<1>4. Validates(u) /\ CleanObjects(u) /\ CleanSettings(u)
  BY <1>1, <1>3 DEF Restorable, Validates, CleanObjects, CleanSettings
<1>5. QED
  BY <1>2, <1>4 DEF Restorable, u

\* An object write that passed prepareSaveLocked's gates.
LEMMA SaveKeepsRestorable ==
    ASSUME TypeOK, NEW n \in Name, NEW b \in Blob, SaveGate(n, b), Restorable(tree)
    PROVE  Restorable([tree EXCEPT ![n] = b])
<1>1. [tree EXCEPT ![n] = b][Settings] = tree[Settings]
  BY ConfigStoreAssumption DEF TypeOK, Tree, Path
<1>2. QED
  BY <1>1 DEF SaveGate, Restorable, CleanSettings

\* Removing an object cannot introduce a refused secret.
LEMMA DeleteKeepsRestorable ==
    ASSUME TypeOK, NEW n \in Name, Restorable(tree),
           Validates([tree EXCEPT ![n] = None]), EdgeOK([tree EXCEPT ![n] = None])
    PROVE  Restorable([tree EXCEPT ![n] = None])
<1> DEFINE u == [tree EXCEPT ![n] = None]
<1>1. u[Settings] = tree[Settings] /\ \A m \in Name : u[m] = tree[m] \/ u[m] = None
  BY ConfigStoreAssumption DEF TypeOK, Tree, Path
<1>2. Validates(u) /\ EdgeOK(u)
  OBVIOUS
<1> HIDE DEF u
<1>3. CleanObjects(u) /\ CleanSettings(u)
  BY <1>1 DEF Restorable, CleanObjects, CleanSettings, Present
<1>4. QED
  BY <1>2, <1>3 DEF Restorable, u

\* A batch of objects that passed the gates.
LEMMA MergeKeepsRestorable ==
    ASSUME TypeOK, NEW up, NEW del, Restorable(tree),
           DOMAIN up \subseteq Name, del \subseteq Name,
           Validates(Merge(tree, up, del)), EdgeOK(Merge(tree, up, del)),
           CleanObjects(Merge(tree, up, del))
    PROVE  Restorable(Merge(tree, up, del))
<1>1. Merge(tree, up, del)[Settings] = tree[Settings]
  BY ConfigStoreAssumption DEF Merge, Path
<1>2. QED
  BY <1>1 DEF Restorable, CleanSettings

----------------------------------------------------------------------------
(* The inductive invariant.                                                *)

\* An operation that starts with its target validated.
LEMMA BeginWrite ==
    ASSUME IInv, NEW op, NEW to \in Tree, NEW todo \in SUBSET Path,
           Begin(op, "write", to, todo),
           op \in SingleFile \cup {"batch", "apply"},
           Restorable(to),
           \A p \in Path \ todo : to[p] = tree[p],
           op \in SingleFile => \E p \in Path : todo = {p}
    PROVE  GoodHistory' /\ PhaseOfOp' /\ GoodPhase'
<1>1. Restorable(tree) /\ tree \in Tree
  BY DEF IInv, GoodPhase, Begin, Idle, TypeOK
<1>2. job' = [op |-> op, phase |-> "write", to |-> to, todo |-> todo,
              keep |-> tree, head |-> Len(log), live |-> TRUE, res |-> "pending"]
      /\ tree' = tree /\ log' = log /\ op \in Ops
  BY DEF Begin
<1>3. tree = [p \in Path |-> IF p \in todo THEN tree[p] ELSE to[p]]
  BY <1>1 DEF Tree
<1>4. GoodHistory'
  BY <1>2 DEF IInv, GoodHistory
<1>5. PhaseOfOp'
  BY <1>2 DEF PhaseOfOp, SingleFile
<1>6. QED
  BY <1>1, <1>2, <1>3, <1>4, <1>5 DEF GoodPhase

\* An operation that starts by replacing the tree, to check it afterwards.
LEMMA BeginReplace ==
    ASSUME IInv, NEW op, NEW phase, NEW to, NEW todo,
           Begin(op, phase, to, todo),
           <<op, phase>> \in {<<"revert", "readTree">>, <<"restore", "wipe">>,
                             <<"revertObject", "checkout">>}
    PROVE  GoodHistory' /\ PhaseOfOp' /\ GoodPhase'
<1>2. job' = [op |-> op, phase |-> phase, to |-> to, todo |-> todo,
              keep |-> tree, head |-> Len(log), live |-> TRUE, res |-> "pending"]
      /\ tree' = tree /\ log' = log /\ op \in Ops
  BY DEF Begin
<1>3. (op = "revert" /\ phase = "readTree") \/ (op = "restore" /\ phase = "wipe")
      \/ (op = "revertObject" /\ phase = "checkout")
  OBVIOUS
<1>4. GoodHistory'
  BY <1>2 DEF IInv, GoodHistory
<1>5. PhaseOfOp'
  BY <1>2, <1>3 DEF PhaseOfOp, SingleFile
<1>6. GoodPhase'
  BY <1>2, <1>3 DEF GoodPhase
<1>7. QED
  BY <1>4, <1>5, <1>6

\* A step that leaves the lock free and the history alone.
LEMMA Idling ==
    ASSUME IInv, Idle, UNCHANGED <<tree, log>>,
           job' = job \/ (job'.phase = "idle" /\ job'.live = job.live /\ job'.head = Len(log))
    PROVE  GoodHistory' /\ PhaseOfOp' /\ GoodPhase'
BY DEF IInv, Idle, GoodHistory, PhaseOfOp, GoodPhase

\* The store starts from a tree that passes the gates.
LEMMA InitInv == Init => IInv
<1>1. First[Len(First)] \in Tree /\ Len(First) \in Nat \ {0}
      /\ Restorable(First[Len(First)])
  BY ConfigStoreAssumption
<1>2. QED
  BY <1>1, InitType DEF Init, IInv, GoodHistory, PhaseOfOp, GoodPhase, NoJob

\* Starting an operation.
LEMMA OperationInv ==
    ASSUME IInv, Operation
    PROVE  GoodHistory' /\ PhaseOfOp' /\ GoodPhase'
<1> USE ConfigStoreAssumption
<1>t. TypeOK /\ tree \in Tree /\ Len(log) \in Nat
  BY DEF IInv, TypeOK
<1>r. Idle => Restorable(tree)
  BY DEF IInv, GoodPhase, Idle
<1>u. \A p \in Path : Vals[p] \subseteq Blob
  OBVIOUS
<1>w. ASSUME NEW op \in {"save", "create", "token", "edit"}, NEW n \in Name,
             NEW b \in Blob, SaveWrite(op, n, b)
      PROVE  GoodHistory' /\ PhaseOfOp' /\ GoodPhase'
  <2> DEFINE to == [tree EXCEPT ![n] = b]
  <2>1. to \in Tree /\ n \in Path /\ {n} \in SUBSET Path
    BY <1>t, TreeExcept DEF Path
  <2>2. Restorable(to)
    BY <1>w, <1>t, <1>r, SaveKeepsRestorable DEF SaveWrite, Begin
  <2>3. \A p \in Path \ {n} : to[p] = tree[p]
    BY <1>t DEF Tree
  <2>4. Begin(op, "write", to, {n}) /\ op \in SingleFile
    BY <1>w DEF SaveWrite, SingleFile
  <2> HIDE DEF to
  <2>5. QED
    BY <2>1, <2>2, <2>3, <2>4, BeginWrite
<1>x. ASSUME NEW op, NEW n \in Name, NEW b \in Blob, SaveUnchanged(op, n, b)
      PROVE  GoodHistory' /\ PhaseOfOp' /\ GoodPhase'
  <2>1. job \in Jobs
    BY <1>t DEF TypeOK
  <2>2. job'.phase = job.phase /\ job'.live = job.live /\ job'.head = Len(log)
    BY <1>x, <2>1 DEF SaveUnchanged, Jobs
  <2>3. QED
    BY <1>x, <2>2, Idling DEF SaveUnchanged, Idle
<1>1. ASSUME NEW n \in Name \ Token, NEW b \in Vals[n], Save(n, b)
      PROVE  GoodHistory' /\ PhaseOfOp' /\ GoodPhase'
  BY <1>1, <1>u, <1>w, <1>x DEF Save, Path
<1>2. ASSUME NEW n \in Name \ Token, NEW b \in Vals[n], Create(n, b)
      PROVE  GoodHistory' /\ PhaseOfOp' /\ GoodPhase'
  BY <1>2, <1>u, <1>w DEF Create, Path
<1>3. ASSUME NEW n \in Name, Delete(n)
      PROVE  GoodHistory' /\ PhaseOfOp' /\ GoodPhase'
  <2> DEFINE to == [tree EXCEPT ![n] = None]
  <2>1. to \in Tree /\ n \in Path /\ {n} \in SUBSET Path
    BY <1>t, TreeExcept DEF Path
  <2>2. Restorable(to)
    BY <1>3, <1>t, <1>r, DeleteKeepsRestorable DEF Delete, Begin
  <2>3. \A p \in Path \ {n} : to[p] = tree[p]
    BY <1>t DEF Tree
  <2>4. Begin("delete", "write", to, {n}) /\ "delete" \in SingleFile
    BY <1>3 DEF Delete, SingleFile
  <2> HIDE DEF to
  <2>5. QED
    BY <2>1, <2>2, <2>3, <2>4, BeginWrite
<1>4. ASSUME NEW n \in Token, NEW b \in Vals[n], MintToken(n, b)
      PROVE  GoodHistory' /\ PhaseOfOp' /\ GoodPhase'
  BY <1>4, <1>u, <1>w DEF MintToken, Path
<1>5. ASSUME NEW n \in Token, ReadTokenForEdit(n)
      PROVE  GoodHistory' /\ PhaseOfOp' /\ GoodPhase'
  BY <1>5, Idling DEF ReadTokenForEdit
<1>6. ASSUME NEW n \in Token, NEW b \in Vals[n], edit # None, n = edit.tok,
             SaveTokenEdit(b)
      PROVE  GoodHistory' /\ PhaseOfOp' /\ GoodPhase'
  BY <1>6, <1>u, <1>w, <1>x DEF SaveTokenEdit, Path
<1>7. ASSUME NEW up \in Batches, SaveBatch(up)
      PROVE  GoodHistory' /\ PhaseOfOp' /\ GoodPhase'
  <2> DEFINE to == Merge(tree, up, {})
  <2>1. to \in Tree /\ DOMAIN up \in SUBSET Path /\ DOMAIN up \subseteq Name
    BY <1>t, MergeType DEF Path
  <2>2. Restorable(to)
    BY <1>7, <1>t, <1>r, <2>1, MergeKeepsRestorable DEF SaveBatch, Begin
  <2>3. \A p \in Path \ DOMAIN up : to[p] = tree[p]
    BY DEF Merge
  <2>4. Begin("batch", "write", to, DOMAIN up) /\ "batch" \notin SingleFile
    BY <1>7 DEF SaveBatch, SingleFile
  <2> HIDE DEF to
  <2>5. QED
    BY <2>1, <2>2, <2>3, <2>4, BeginWrite
<1>8. ASSUME NEW up \in Batches, NEW del \in SUBSET (Name \ Token),
             PlanDiscovery(up, del)
      PROVE  GoodHistory' /\ PhaseOfOp' /\ GoodPhase'
  BY <1>8, Idling DEF PlanDiscovery
<1>9. ASSUME ApplyBatch
      PROVE  GoodHistory' /\ PhaseOfOp' /\ GoodPhase'
  <2> DEFINE up == [n \in PlannedUpserts |-> plan.up[n]]
             to == Merge(tree, up, PlannedRemovals)
             todo == PlannedUpserts \cup PlannedRemovals
  <2>1. plan # None /\ DOMAIN plan.up \subseteq Name \ Token
        /\ plan.del \subseteq Name \ Token
        /\ \A n \in DOMAIN plan.up : plan.up[n] \in Blob
    BY <1>9, <1>t DEF ApplyBatch, TypeOK
  <2>2. to \in Tree /\ DOMAIN up \subseteq Name /\ PlannedRemovals \subseteq Name
    BY <2>1, <1>t, MergeType DEF PlannedUpserts, PlannedRemovals
  <2>3. todo \in SUBSET Path
    BY <2>1 DEF PlannedUpserts, PlannedRemovals, Path
  <2>4. ASSUME Validates(to), EdgeOK(to), CleanObjects(to),
               Begin("apply", "write", to, todo)
        PROVE  GoodHistory' /\ PhaseOfOp' /\ GoodPhase'
    <3>1. Restorable(to)
      BY <2>4, <1>9, <1>t, <1>r, <2>2, MergeKeepsRestorable DEF ApplyBatch
    <3>2. \A p \in Path \ todo : to[p] = tree[p]
      BY DEF Merge
    <3>3. "apply" \notin SingleFile
      BY DEF SingleFile
    <3> HIDE DEF to, todo
    <3>4. QED
      BY <2>2, <2>3, <2>4, <3>1, <3>2, <3>3, BeginWrite
  <2>5. CASE UNCHANGED <<tree, log, job, revoked>>
    BY <1>9, <2>5, Idling DEF ApplyBatch
  <2>6. QED
    BY <1>9, <2>4, <2>5 DEF ApplyBatch
<1>10. ASSUME NEW i \in 1..Len(log), Revert(i)
       PROVE  GoodHistory' /\ PhaseOfOp' /\ GoodPhase'
  BY <1>10, BeginReplace DEF Revert
<1>11. ASSUME NEW n \in Name, NEW i \in 1..Len(log), RevertObject(n, i)
       PROVE  GoodHistory' /\ PhaseOfOp' /\ GoodPhase'
  BY <1>11, BeginReplace DEF RevertObject
<1>12. ASSUME NEW b \in Vals[Settings], SaveSettings(b)
       PROVE  GoodHistory' /\ PhaseOfOp' /\ GoodPhase'
  <2> DEFINE to == [tree EXCEPT ![Settings] = b]
  <2>1. to \in Tree /\ Settings \in Path /\ {Settings} \in SUBSET Path /\ b \in Blob
    BY <1>t, <1>u, TreeExcept DEF Path
  <2>2. Restorable(to)
    BY <1>12, <1>t, <1>r, <2>1, SettingsGate DEF SaveSettings, Begin
  <2>3. \A p \in Path \ {Settings} : to[p] = tree[p]
    BY <1>t DEF Tree
  <2>4. Begin("settings", "write", to, {Settings}) /\ "settings" \in SingleFile
    BY <1>12 DEF SaveSettings, SingleFile
  <2> HIDE DEF to
  <2>5. QED
    BY <2>1, <2>2, <2>3, <2>4, BeginWrite
<1>13. ASSUME LoadDNSLedger
       PROVE  GoodHistory' /\ PhaseOfOp' /\ GoodPhase'
  BY <1>13, Idling DEF LoadDNSLedger
<1>14. ASSUME NEW b \in Vals[Ledger], SaveDNSLedger(b)
       PROVE  GoodHistory' /\ PhaseOfOp' /\ GoodPhase'
  <2> DEFINE to == [tree EXCEPT ![Ledger] = b]
  <2>1. to \in Tree /\ Ledger \in Path /\ {Ledger} \in SUBSET Path /\ b \in Blob
    BY <1>t, <1>u, TreeExcept DEF Path
  <2>2. Idle => Restorable(to)
    BY <1>t, <1>r, <2>1, LedgerIrrelevant
  <2>3. \A p \in Path \ {Ledger} : to[p] = tree[p]
    BY <1>t DEF Tree
  <2>4. CASE Begin("ledger", "write", to, {Ledger})
    <3>1. "ledger" \in SingleFile /\ Restorable(to)
      BY <1>14, <2>2 DEF SaveDNSLedger, SingleFile
    <3> HIDE DEF to
    <3>2. QED
      BY <2>1, <2>3, <2>4, <3>1, BeginWrite
  <2>5. CASE UNCHANGED <<tree, log, job, revoked>>
    BY <1>14, <2>5, Idling DEF SaveDNSLedger
  <2>6. QED
    BY <1>14, <2>4, <2>5 DEF SaveDNSLedger
<1>15. ASSUME NEW i \in 1..Len(log), Restore(i)
       PROVE  GoodHistory' /\ PhaseOfOp' /\ GoodPhase'
  BY <1>15, BeginReplace DEF Restore
<1>16. QED
  BY <1>1, <1>2, <1>3, <1>4, <1>5, <1>6, <1>7, <1>8, <1>9, <1>10, <1>11,
     <1>12, <1>13, <1>14, <1>15 DEF Operation

\* A step that keeps the history and ends with a restorable tree.
LEMMA FinishInv ==
    ASSUME IInv, NEW res, Finish(res), log' = log, Restorable(tree')
    PROVE  GoodHistory' /\ PhaseOfOp' /\ GoodPhase'
<1>1. job'.phase = "idle" /\ job'.live = job.live /\ job'.head = job.head
  BY DEF Finish, IInv, TypeOK, Jobs
<1>2. QED
  BY <1>1 DEF IInv, GoodHistory, PhaseOfOp, GoodPhase

\* A step into a phase in which nothing is assumed of the tree.
LEMMA GotoInv ==
    ASSUME IInv, NEW phase \in {"clean", "preserve", "check", "undo"}, Goto(phase),
           log' = log, job.phase # "idle",
           phase = "clean" => job.op = "revert",
           phase = "preserve" => job.op \in {"restore", "revert"}
    PROVE  GoodHistory' /\ PhaseOfOp' /\ GoodPhase'
<1>1. job' = [job EXCEPT !.phase = phase] /\ job \in Jobs
  BY DEF Goto, IInv, TypeOK
<1>2. job'.phase = phase /\ job'.op = job.op /\ job'.live = job.live
      /\ job'.head = job.head /\ job'.keep = job.keep
  BY <1>1 DEF Jobs
<1>3. GoodHistory'
  BY <1>2 DEF IInv, GoodHistory
<1>4. PhaseOfOp'
  BY <1>2 DEF IInv, PhaseOfOp
<1>5. GoodPhase'
  BY <1>2 DEF IInv, GoodPhase
<1>6. QED
  BY <1>3, <1>4, <1>5

\* A step of the operation that holds the lock.
LEMMA StepInv ==
    ASSUME Reliable, IInv, Step
    PROVE  GoodHistory' /\ PhaseOfOp' /\ GoodPhase'
<1>t. /\ TypeOK /\ tree \in Tree /\ job.to \in Tree /\ job.keep \in Tree
      /\ job \in Jobs /\ log \in Seq(Tree) /\ Len(log) \in Nat
      /\ job.head \in 1..Len(log) /\ job.live
      /\ Len(First) \in Nat
  BY ConfigStoreAssumption DEF IInv, TypeOK, Jobs, GoodPhase
<1>h. Restorable(log[job.head])
  BY <1>t DEF IInv, GoodHistory
<1>1. ASSUME NEW p \in Path, WriteFile(p)
      PROVE  GoodHistory' /\ PhaseOfOp' /\ GoodPhase'
  <2> DEFINE rest == job.todo \ {p}
  <2>1. /\ job'.op = job.op /\ job'.to = job.to /\ job'.keep = job.keep
        /\ job'.head = job.head /\ job'.live = job.live /\ job'.todo = rest
        /\ tree' = [tree EXCEPT ![p] = job.to[p]] /\ log' = log
        /\ job.phase = "write" /\ p \in job.todo
    BY <1>1, <1>t DEF WriteFile, Jobs
  <2>2. /\ rest # {} => job'.phase = "write"
        /\ rest = {} /\ job.op = "restore" => job'.phase = "preserve"
        /\ rest = {} /\ job.op # "restore" => job'.phase = "commit"
    BY <1>1, <1>t DEF WriteFile, Jobs
  <2>3. GoodHistory'
    BY <2>1 DEF IInv, GoodHistory
  <2>4. PhaseOfOp'
    BY <2>1, <2>2 DEF IInv, PhaseOfOp
  <2>5. CASE job.op = "restore"
    <3>1. job'.phase \in {"write", "preserve"} /\ job'.op = "restore" /\ job'.live
      BY <2>1, <2>2, <2>5, <1>t
    <3>2. GoodPhase'
      BY <3>1 DEF GoodPhase
    <3>3. QED
      BY <2>3, <2>4, <3>2
  <2>6. CASE job.op # "restore"
    <3>1. /\ Restorable(job.to) /\ Restorable(job.keep)
          /\ tree = [q \in Path |-> IF q \in job.todo THEN job.keep[q] ELSE job.to[q]]
          /\ job.op \in SingleFile => rest = {}
      BY <2>1, <2>6 DEF IInv, GoodPhase
    <3>2. tree' = [q \in Path |-> IF q \in rest THEN job.keep[q] ELSE job.to[q]]
      BY <2>1, <3>1, <1>t DEF Tree
    <3>3. rest = {} => tree' = job.to
      BY <3>2, <1>t DEF Tree
    <3> HIDE DEF rest
    <3>4. GoodPhase'
      BY <2>1, <2>2, <2>6, <3>1, <3>2, <3>3, <1>t DEF GoodPhase
    <3>5. QED
      BY <2>3, <2>4, <3>4
  <2>7. QED
    BY <2>3, <2>4, <2>5, <2>6
<1>2. ASSUME WriteFails
      PROVE  GoodHistory' /\ PhaseOfOp' /\ GoodPhase'
  <2>1. log' = log /\ job.phase \in {"write", "preserve"} /\ job.op \in Ops
        /\ job.op # "batch"
    BY <1>2 DEF WriteFails, clients, IInv, PhaseOfOp, Reliable
  <2>2. CASE job.op = "apply"
    <3>1. tree' = job.keep /\ Finish("error") /\ Restorable(job.keep)
      BY <1>2, <2>1, <2>2 DEF WriteFails, IInv, GoodPhase
    <3>2. QED
      BY <2>1, <3>1, FinishInv
  <2>3. CASE job.op \in {"restore", "revert"}
    <3>1. Goto("undo")
      BY <1>2, <2>3 DEF WriteFails
    <3>2. QED
      BY <2>1, <3>1, GotoInv
  <2>4. CASE job.op \notin {"apply", "restore", "revert"}
    <3>1. tree' = tree /\ Finish("error")
      BY <1>2, <2>4 DEF WriteFails
    <3>2. job.op \in SingleFile /\ job.phase = "write"
      BY <2>1, <2>4 DEF IInv, PhaseOfOp
    <3>3. Restorable(tree)
      BY <3>2, <2>4 DEF IInv, GoodPhase
    <3>4. QED
      BY <2>1, <3>1, <3>3, FinishInv
  <2>5. QED
    BY <2>2, <2>3, <2>4
<1>3. ASSUME WipeConfig
      PROVE  GoodHistory' /\ PhaseOfOp' /\ GoodPhase'
  <2>1. job'.phase = "write" /\ job'.op = "restore" /\ job'.live = job.live
        /\ job'.head = job.head /\ log' = log /\ "restore" \in Ops
    BY <1>3, <1>t DEF WipeConfig, Goto, clients, Jobs, IInv, PhaseOfOp
  <2>2. GoodHistory'
    BY <2>1 DEF IInv, GoodHistory
  <2>3. PhaseOfOp'
    BY <2>1 DEF PhaseOfOp
  <2>4. GoodPhase'
    BY <2>1, <1>t DEF GoodPhase
  <2>5. QED
    BY <2>2, <2>3, <2>4
<1>4. ASSUME ReadTree
      PROVE  GoodHistory' /\ PhaseOfOp' /\ GoodPhase'
  <2>1. job.op = "revert" /\ Goto("clean") /\ log' = log /\ job.phase # "idle"
    BY <1>4 DEF ReadTree, clients, IInv, PhaseOfOp
  <2>2. QED
    BY <2>1, GotoInv
<1>5. ASSUME CleanTree
      PROVE  GoodHistory' /\ PhaseOfOp' /\ GoodPhase'
  <2>1. job.op = "revert" /\ Goto("preserve") /\ log' = log /\ job.phase # "idle"
    BY <1>5 DEF CleanTree, clients, IInv, PhaseOfOp
  <2>2. QED
    BY <2>1, GotoInv
<1>6. ASSUME CheckoutPath
      PROVE  GoodHistory' /\ PhaseOfOp' /\ GoodPhase'
  BY <1>6, GotoInv DEF CheckoutPath, clients
<1>7. ASSUME RestoreFails
      PROVE  GoodHistory' /\ PhaseOfOp' /\ GoodPhase'
  BY <1>7, <1>t DEF RestoreFails
<1>8. ASSUME PreserveTokens
      PROVE  GoodHistory' /\ PhaseOfOp' /\ GoodPhase'
  BY <1>8, GotoInv DEF PreserveTokens, clients
<1>9. ASSUME CheckRestored
      PROVE  GoodHistory' /\ PhaseOfOp' /\ GoodPhase'
  <2>1. CASE Restorable(tree)
    <3>1. Goto("commit") /\ log' = log /\ tree' = tree /\ job.phase = "check"
      BY <1>9, <2>1 DEF CheckRestored, clients
    <3>2. job'.phase = "commit" /\ job'.op = job.op /\ job'.live = job.live
          /\ job'.head = job.head /\ job'.keep = job.keep
      BY <3>1, <1>t DEF Goto, Jobs
    <3>3. QED
      BY <2>1, <3>1, <3>2 DEF IInv, GoodHistory, PhaseOfOp, GoodPhase
  <2>2. CASE ~Restorable(tree)
    BY <1>9, <2>2, GotoInv DEF CheckRestored, clients
  <2>3. QED
    BY <2>1, <2>2
<1>10. ASSUME Undo
       PROVE  GoodHistory' /\ PhaseOfOp' /\ GoodPhase'
  <2>1. tree' = log[job.head] /\ Finish("error") /\ log' = log
    BY <1>10, <1>t DEF Undo, clients
  <2>2. QED
    BY <2>1, <1>h, FinishInv
<1>11. ASSUME Commit
       PROVE  GoodHistory' /\ PhaseOfOp' /\ GoodPhase'
  <2>1. Restorable(tree) /\ tree' = tree /\ job.phase = "commit"
    BY <1>11 DEF Commit, clients, IInv, GoodPhase
  <2>2. CASE Finish("unchanged") /\ log' = log
    BY <2>1, <2>2, FinishInv
  <2>3. CASE log' = Append(log, tree) /\ Goto("head")
    <3>1. Len(log') = Len(log) + 1 /\ log'[Len(log) + 1] = tree
          /\ \A i \in 1..Len(log) : log'[i] = log[i]
      BY <2>3, <1>t
    <3>2. job'.phase = "head" /\ job'.op = job.op /\ job'.live = job.live
          /\ job'.head = job.head /\ job'.keep = job.keep
      BY <2>3, <1>t DEF Goto, Jobs
    <3>3. ASSUME NEW i \in 1..Len(log'), i >= Len(First)
          PROVE  Restorable(log'[i])
      <4>1. CASE i = Len(log) + 1
        BY <3>1, <2>1, <4>1
      <4>2. CASE i \in 1..Len(log)
        BY <3>1, <3>3, <4>2 DEF IInv, GoodHistory
      <4>3. QED
        BY <3>1, <4>1, <4>2, <1>t
    <3>4. GoodHistory'
      BY <3>1, <3>2, <3>3, <1>t DEF IInv, GoodHistory
    <3>5. PhaseOfOp'
      BY <3>2, <2>1 DEF IInv, PhaseOfOp
    <3>6. GoodPhase'
      BY <3>2, <2>1 DEF IInv, GoodPhase
    <3>7. QED
      BY <3>4, <3>5, <3>6
  <2>4. QED
    BY <1>11, <2>2, <2>3 DEF Commit
<1>12. ASSUME ReadHead
       PROVE  GoodHistory' /\ PhaseOfOp' /\ GoodPhase'
  <2>1. Restorable(tree) /\ tree' = tree /\ log' = log /\ Finish("ok")
    BY <1>12 DEF ReadHead, clients, IInv, GoodPhase
  <2>2. QED
    BY <2>1, FinishInv
<1>13. ASSUME CommitFails
       PROVE  GoodHistory' /\ PhaseOfOp' /\ GoodPhase'
  <2>1. Restorable(tree) /\ log' = log /\ job.phase = "commit"
    BY <1>13, <1>t DEF CommitFails, clients, IInv, GoodPhase
  <2>2. CASE job.op = "apply"
    <3>1. tree' = job.keep /\ Finish("error") /\ Restorable(job.keep)
      BY <1>13, <2>1, <2>2 DEF CommitFails, IInv, GoodPhase
    <3>2. QED
      BY <2>1, <3>1, FinishInv
  <2>3. CASE job.op \in {"revert", "revertObject"}
    <3>1. Goto("undo")
      BY <1>13, <2>3 DEF CommitFails
    <3>2. QED
      BY <2>1, <3>1, GotoInv
  <2>4. CASE job.op \notin {"apply", "revert", "revertObject"}
    <3>1. tree' = tree /\ Finish("error")
      BY <1>13, <2>4 DEF CommitFails
    <3>2. QED
      BY <2>1, <3>1, FinishInv
  <2>5. QED
    BY <2>2, <2>3, <2>4
<1>14. ASSUME Cancel
       PROVE  GoodHistory' /\ PhaseOfOp' /\ GoodPhase'
  BY <1>14 DEF Cancel, Reliable
<1>15. ASSUME Crash
       PROVE  GoodHistory' /\ PhaseOfOp' /\ GoodPhase'
  BY <1>15 DEF Crash, Reliable
<1>16. QED
  BY <1>1, <1>2, <1>3, <1>4, <1>5, <1>6, <1>7, <1>8, <1>9, <1>10, <1>11,
     <1>12, <1>13, <1>14, <1>15 DEF Step

\* Every step keeps the inductive invariant.
LEMMA NextInv == ASSUME Reliable, IInv, [Next]_vars PROVE IInv'
<1>1. TypeOK'
  BY NextType DEF IInv
<1>2. GoodHistory' /\ PhaseOfOp' /\ GoodPhase'
  <2>1. CASE Operation
    BY <2>1, OperationInv
  <2>2. CASE Step
    BY <2>2, StepInv
  <2>3. CASE UNCHANGED vars
    BY <2>3 DEF vars, IInv, GoodHistory, PhaseOfOp, GoodPhase
  <2>4. QED
    BY <2>1, <2>2, <2>3 DEF Next
<1>3. QED
  BY <1>1, <1>2 DEF IInv

\* The inductive invariant holds throughout while faults are the ones the store
\* rolls back from.
THEOREM Invariant == ASSUME Reliable PROVE Spec => []IInv
<1>1. Init => IInv
  BY InitInv
<1>2. IInv /\ [Next]_vars => IInv'
  BY NextInv
<1>3. QED
  BY <1>1, <1>2, PTL DEF Spec

\* While no request is cancelled and no crash interrupts an operation, every
\* commit the store makes passes every gate, however many writes and commits
\* fail: what a failed operation leaves in the tree is safe to sweep in.
THEOREM CommitsAreValid == ASSUME Reliable PROVE Spec => []CommittedValid
<1>1. IInv => CommittedValid
  BY DEF IInv, GoodHistory, CommittedValid
<1>2. QED
  BY <1>1, Invariant, PTL

\* Under the same faults the tree loads whenever the lock is free.
THEOREM TreeLoadsAtRest == ASSUME Reliable PROVE Spec => []LoadableAtRest
<1>1. IInv => LoadableAtRest
  BY DEF IInv, GoodPhase, LoadableAtRest, Idle
<1>2. QED
  BY <1>1, Invariant, PTL

----------------------------------------------------------------------------
(* What an operation has done so far, whatever fails, is cancelled or dies.*)

\* Which operation can be in which phase.
OpOfPhase ==
    /\ job.phase = "write" => job.op \in SingleFile \cup {"batch", "apply", "restore"}
    /\ job.phase = "wipe" => job.op = "restore"
    /\ job.phase \in {"readTree", "clean"} => job.op = "revert"
    /\ job.phase = "checkout" => job.op = "revertObject"
    /\ job.phase = "preserve" => job.op \in {"restore", "revert"}
    /\ job.phase \in {"check", "undo"} => job.op \in {"restore", "revert", "revertObject"}

\* HEAD moves when the operation commits and not before.
HeadOfPhase ==
    /\ job.phase \notin {"idle", "head", "undo"} => Len(log) = job.head
    /\ job.phase = "undo" /\ job.live => Len(log) = job.head
    /\ job.phase = "head" => Len(log) = job.head + 1

\* The part of its target that is in the tree.
Written ==
    /\ job.phase \in {"write", "checkout"} => \A p \in Path \ job.todo : tree[p] = job.to[p]
    /\ job.phase = "wipe" => /\ job.todo = {p \in Path \ {Ledger} : job.to[p] # None}
                             /\ tree[Ledger] = job.to[Ledger]
    /\ job.phase = "preserve" => tree = job.to
    /\ job.phase \in {"check", "commit", "head"} => tree = Promised
    /\ job.phase = "head" => IsClean

\* A discovery batch: what it has not written is as it found it, and its own.
Undone ==
    job.phase = "write" /\ job.op = "apply" =>
        \A p \in job.todo : /\ p \in Name \ Token
                            /\ tree[p] # None => tree[p].managed

Steady == OpOfPhase /\ HeadOfPhase /\ Written /\ Undone /\ AnsweredMeansStored
          /\ BatchAllOrNothing

\* The fields of an operation that ends, or goes on.
LEMMA FinishFields ==
    ASSUME TypeOK, NEW res, Finish(res)
    PROVE  /\ job'.phase = "idle" /\ job'.res = res /\ job'.op = job.op /\ job'.to = job.to
           /\ job'.keep = job.keep /\ job'.head = job.head /\ (job'.live <=> job.live)
           /\ Promised' = Promised
<1>1. job \in Jobs /\ job' = [job EXCEPT !.phase = "idle", !.todo = {}, !.res = res]
  BY DEF TypeOK, Finish
<1>2. /\ job'.phase = "idle" /\ job'.res = res /\ job'.op = job.op /\ job'.to = job.to
      /\ job'.keep = job.keep /\ job'.head = job.head /\ (job'.live <=> job.live)
  BY <1>1 DEF Jobs
<1>3. QED
  BY <1>2 DEF Promised

\* Likewise for the next phase.
LEMMA GotoFields ==
    ASSUME TypeOK, NEW phase, Goto(phase)
    PROVE  /\ job'.phase = phase /\ job'.res = job.res /\ job'.op = job.op /\ job'.to = job.to
           /\ job'.todo = job.todo
           /\ job'.keep = job.keep /\ job'.head = job.head /\ (job'.live <=> job.live)
           /\ Promised' = Promised
<1>1. job \in Jobs /\ job' = [job EXCEPT !.phase = phase]
  BY DEF TypeOK, Goto
<1>2. /\ job'.phase = phase /\ job'.res = job.res /\ job'.op = job.op /\ job'.to = job.to
      /\ job'.todo = job.todo
      /\ job'.keep = job.keep /\ job'.head = job.head /\ (job'.live <=> job.live)
  BY <1>1 DEF Jobs
<1>3. QED
  BY <1>2 DEF Promised

\* How an operation starts: with a target that differs from the tree in the files
\* it will write and in no other.  Only a mint, an edit, a deletion, a revert and
\* a restore touch tokens, and only SaveDNSLedger the ledger.
Starts(op, phase, to, todo) ==
    /\ to \in Tree /\ todo \subseteq Path
    /\ Ledger \in todo => op = "ledger"
    /\ op = "ledger" => held # None /\ held.rev = Len(log) /\ held' = None
    /\ op \in SingleFile => \E p \in Path : todo = {p}
    /\ op \notin {"token", "edit", "delete", "revert", "restore"} =>
          \A n \in Token : to[n] = tree[n]
    /\ op = "token" => \E n \in Token : /\ todo = {n} /\ to[n] # None
                                       /\ FreshDigest(to[n].digest)
    /\ op = "delete" => \A n \in todo : to[n] = None
    /\ \/ /\ phase = "write" /\ op \in SingleFile \cup {"batch", "apply"}
          /\ \A p \in Path \ todo : to[p] = tree[p]
          /\ op = "apply" => \A p \in todo : /\ p \in Name \ Token
                                             /\ tree[p] # None => tree[p].managed
       \/ /\ phase = "checkout" /\ op = "revertObject"
          /\ \A p \in Path \ todo : to[p] = tree[p]
       \/ /\ phase = "readTree" /\ op = "revert"
       \/ /\ phase = "wipe" /\ op = "restore"
          /\ todo = {p \in Path \ {Ledger} : to[p] # None}
          /\ to[Ledger] = tree[Ledger]

\* A save that finds nothing to write.
AnsweredAsIs ==
    /\ job'.phase = "idle" /\ job'.op \in {"save", "edit"} /\ job'.to = tree /\ job'.keep = tree
    /\ job'.res = "unchanged" /\ (job'.live <=> job.live) /\ IsClean

\* The three ways an operation begins: it holds nothing and reads, it answers at
\* once, or it takes the lock.
LEMMA OperationShape ==
    ASSUME TypeOK, Operation
    PROVE  /\ Idle /\ UNCHANGED <<tree, log, revoked>>
           /\ \/ job' = job
              \/ AnsweredAsIs
              \/ \E op, phase, to, todo : Begin(op, phase, to, todo) /\ Starts(op, phase, to, todo)
<1> USE ConfigStoreAssumption
<1> DEFINE Goal == /\ Idle /\ UNCHANGED <<tree, log, revoked>>
                   /\ \/ job' = job
                      \/ AnsweredAsIs
                      \/ \E op, phase, to, todo :
                           Begin(op, phase, to, todo) /\ Starts(op, phase, to, todo)
<1>t. tree \in Tree /\ job \in Jobs
  BY DEF TypeOK
<1>u. \A p \in Path : Vals[p] \subseteq Blob
  OBVIOUS
<1>b. ASSUME NEW op, NEW phase, NEW to, NEW todo, Begin(op, phase, to, todo),
             Starts(op, phase, to, todo)
      PROVE  Goal
  BY <1>b DEF Begin
<1>o. ASSUME NEW op \in SingleFile, NEW p \in Path, NEW b \in Blob \cup {None},
             Begin(op, "write", [tree EXCEPT ![p] = b], {p}),
             p = Ledger => op = "ledger",
             p \in Token => op \in {"token", "edit", "delete"},
             op = "ledger" => held # None /\ held.rev = Len(log) /\ held' = None,
             op = "token" => p \in Token /\ b # None /\ FreshDigest(b.digest),
             op = "delete" => b = None
      PROVE  Goal
  <2>1. /\ [tree EXCEPT ![p] = b] \in Tree /\ [tree EXCEPT ![p] = b][p] = b
        /\ \A q \in Path \ {p} : [tree EXCEPT ![p] = b][q] = tree[q]
    BY <1>t, TreeExcept DEF Tree
  <2>2. op # "apply" /\ Token \subseteq Path
    BY DEF SingleFile, Path
  <2> DEFINE to == [tree EXCEPT ![p] = b]
  <2> HIDE DEF to
  <2>3. /\ op \notin {"token", "edit", "delete", "revert", "restore"} => \A n \in Token : to[n] = tree[n]
        /\ op = "token" => \E n \in Token : {p} = {n} /\ to[n] # None /\ FreshDigest(to[n].digest)
        /\ op = "delete" => \A n \in {p} : to[n] = None
    BY <1>o, <2>1, <2>2 DEF to
  <2>4. /\ to \in Tree /\ {p} \subseteq Path /\ (Ledger \in {p} => op = "ledger")
        /\ \A q \in Path \ {p} : to[q] = tree[q]
        /\ \E q \in Path : {p} = {q}
    BY <1>o, <2>1 DEF to
  <2>5. Starts(op, "write", to, {p})
    BY <1>o, <2>2, <2>3, <2>4 DEF Starts
  <2>6. QED
    BY <1>b, <1>o, <2>5 DEF to
<1>w. ASSUME NEW op \in {"save", "create", "token", "edit"}, NEW n \in Name, NEW b \in Blob,
             SaveWrite(op, n, b), n \in Token => op \in {"token", "edit"},
             op = "token" => n \in Token /\ FreshDigest(b.digest)
      PROVE  Goal
  <2>1. n \in Path /\ n # Ledger /\ b # None /\ op \in SingleFile
    BY DEF Path, SingleFile
  <2>2. Begin(op, "write", [tree EXCEPT ![n] = b], {n})
    BY <1>w DEF SaveWrite
  <2>3. QED
    BY <1>o, <1>w, <2>1, <2>2
<1>x. ASSUME NEW op \in {"save", "edit"}, NEW n \in Name, NEW b \in Blob, SaveUnchanged(op, n, b)
      PROVE  Goal
  <2>1. [tree EXCEPT ![n] = b] = tree
    BY <1>x, <1>t DEF SaveUnchanged, Tree
  <2>2. job' = [job EXCEPT !.op = op, !.to = tree, !.keep = tree, !.head = Len(log),
                           !.res = "unchanged"] /\ job.phase = "idle"
    BY <1>x, <2>1 DEF SaveUnchanged, Idle
  <2>3. AnsweredAsIs
    BY <1>x, <1>t, <2>2 DEF AnsweredAsIs, Jobs, SaveUnchanged
  <2>4. QED
    BY <1>x, <2>3 DEF SaveUnchanged
<1>s. {"save", "create", "token", "edit", "delete", "settings", "ledger"} \subseteq SingleFile
  BY DEF SingleFile
<1>1. ASSUME NEW n \in Name \ Token, NEW b \in Vals[n], Save(n, b) \/ Create(n, b)
      PROVE  Goal
  <2>1. n \in Path /\ b \in Blob
    BY <1>u DEF Path
  <2>2. CASE SaveUnchanged("save", n, b)
    BY <1>x, <2>1, <2>2
  <2>3. CASE SaveWrite("save", n, b)
    BY <1>w, <2>1, <2>3
  <2>4. CASE SaveWrite("create", n, b)
    BY <1>w, <2>1, <2>4
  <2>5. QED
    BY <1>1, <2>2, <2>3, <2>4 DEF Save, Create
<1>3. ASSUME NEW n \in Name, Delete(n)
      PROVE  Goal
  <2>1. n \in Path /\ n # Ledger /\ Begin("delete", "write", [tree EXCEPT ![n] = None], {n})
    BY <1>3 DEF Delete, Path
  <2>2. QED
    BY <1>o, <1>s, <2>1
<1>4. ASSUME NEW n \in Token, NEW b \in Vals[n], MintToken(n, b)
      PROVE  Goal
  <2>1. n \in Name /\ b \in Blob /\ SaveWrite("token", n, b) /\ FreshDigest(b.digest)
    BY <1>4, <1>u DEF Path, MintToken
  <2>2. QED
    BY <1>w, <2>1
<1>6. ASSUME NEW n \in Token, NEW b \in Vals[n], edit # None, n = edit.tok, SaveTokenEdit(b)
      PROVE  Goal
  <2>1. n \in Name /\ b \in Blob
    BY <1>u DEF Path
  <2>2. CASE SaveUnchanged("edit", n, b)
    BY <1>x, <2>1, <2>2
  <2>3. CASE SaveWrite("edit", n, b)
    BY <1>w, <2>1, <2>3
  <2>4. QED
    BY <1>6, <2>2, <2>3 DEF SaveTokenEdit
<1>7. ASSUME NEW up \in Batches, SaveBatch(up)
      PROVE  Goal
  <2> DEFINE to == Merge(tree, up, {})
  <2>1. to \in Tree /\ DOMAIN up \subseteq Path /\ Ledger \notin DOMAIN up
    BY <1>t, MergeType DEF Path
  <2>2. (\A p \in Path \ DOMAIN up : to[p] = tree[p]) /\ \A n \in Token : to[n] = tree[n]
    <3>1. \A p \in Path \ DOMAIN up : to[p] = tree[p]
      BY DEF Merge
    <3>2. Token \subseteq Path \ DOMAIN up
      BY DEF Path
    <3> HIDE DEF to
    <3>3. QED
      BY <3>1, <3>2
  <2>3. Begin("batch", "write", to, DOMAIN up)
    BY <1>7 DEF SaveBatch
  <2> HIDE DEF to
  <2>4. Starts("batch", "write", to, DOMAIN up)
    BY <2>1, <2>2 DEF Starts, SingleFile
  <2>5. QED
    BY <1>b, <2>3, <2>4
<1>9. ASSUME ApplyBatch
      PROVE  Goal
  <2> DEFINE up == [n \in PlannedUpserts |-> plan.up[n]]
             to == Merge(tree, up, PlannedRemovals)
             todo == PlannedUpserts \cup PlannedRemovals
  <2>1. plan # None /\ DOMAIN plan.up \subseteq Name \ Token
        /\ plan.del \subseteq Name \ Token
        /\ \A n \in DOMAIN plan.up : plan.up[n] \in Blob
    BY <1>9 DEF ApplyBatch, TypeOK
  <2>2. to \in Tree
    BY <2>1, <1>t, MergeType DEF PlannedUpserts
  <2>3. todo \subseteq Name \ Token /\ todo \subseteq Path /\ Ledger \notin todo
    BY <2>1 DEF PlannedUpserts, PlannedRemovals, Path
  <2>4. (\A p \in Path \ todo : to[p] = tree[p]) /\ \A n \in Token : to[n] = tree[n]
    <3>1. \A p \in Path \ todo : to[p] = tree[p]
      BY DEF Merge
    <3>2. Token \subseteq Path \ todo
      BY <2>3 DEF Path
    <3> HIDE DEF to, todo
    <3>3. QED
      BY <3>1, <3>2
  <2>5. \A p \in todo : tree[p] # None => tree[p].managed
    BY DEF PlannedUpserts, PlannedRemovals, Guard
  <2>6. \/ Begin("apply", "write", to, todo)
        \/ Idle /\ UNCHANGED <<tree, log, job, revoked>>
    BY <1>9 DEF ApplyBatch
  <2> HIDE DEF to, todo
  <2>7. Starts("apply", "write", to, todo)
    BY <2>2, <2>3, <2>4, <2>5 DEF Starts, SingleFile
  <2>8. QED
    BY <1>b, <2>6, <2>7
<1>10. ASSUME NEW i \in 1..Len(log), Revert(i)
       PROVE  Goal
  <2>1. log[i] \in Tree
    BY DEF TypeOK
  <2>2. Starts("revert", "readTree", log[i], {})
    BY <2>1 DEF Starts, SingleFile
  <2>3. QED
    BY <1>b, <1>10, <2>2 DEF Revert
<1>11. ASSUME NEW n \in Name, NEW i \in 1..Len(log), RevertObject(n, i)
       PROVE  Goal
  <2> DEFINE to == [tree EXCEPT ![n] = log[i][n]]
  <2>1. n \in Path /\ n # Ledger /\ to \in Tree /\ \A p \in Path \ {n} : to[p] = tree[p]
    <3>1. log[i] \in Tree
      BY DEF TypeOK
    <3>2. n \in Path /\ log[i][n] \in Blob \cup {None}
      BY <3>1 DEF Path, Tree
    <3>3. QED
      BY <1>t, <3>2, TreeExcept DEF Tree
  <2>2. Begin("revertObject", "checkout", to, {n})
    BY <1>11 DEF RevertObject
  <2> HIDE DEF to
  <2>3. Starts("revertObject", "checkout", to, {n})
    <3>1. n \notin Token /\ Token \subseteq Path
      BY <1>11 DEF RevertObject, Path
    <3>2. QED
      BY <2>1, <3>1 DEF Starts, SingleFile
  <2>4. QED
    BY <1>b, <2>2, <2>3
<1>12. ASSUME NEW b \in Vals[Settings], SaveSettings(b)
       PROVE  Goal
  <2>1. Settings \in Path /\ b \in Blob /\ Settings # Ledger /\ Settings \notin Token
    BY <1>u DEF Path
  <2>2. Begin("settings", "write", [tree EXCEPT ![Settings] = b], {Settings})
    BY <1>12 DEF SaveSettings
  <2>3. QED
    BY <1>o, <1>s, <2>1, <2>2
<1>14. ASSUME NEW b \in Vals[Ledger], SaveDNSLedger(b)
       PROVE  Goal
  <2>1. Ledger \in Path /\ b \in Blob /\ Ledger \notin Token
    BY <1>u DEF Path
  <2>2. CASE /\ held.rev = Len(log)
             /\ Begin("ledger", "write", [tree EXCEPT ![Ledger] = b], {Ledger})
    BY <1>o, <1>s, <1>14, <2>1, <2>2 DEF SaveDNSLedger
  <2>3. CASE UNCHANGED <<tree, log, job, revoked>>
    BY <1>14, <2>3 DEF SaveDNSLedger
  <2>4. QED
    BY <1>14, <2>2, <2>3 DEF SaveDNSLedger
<1>15. ASSUME NEW i \in 1..Len(log), Restore(i)
       PROVE  Goal
  <2> DEFINE to == [log[i] EXCEPT ![Ledger] = tree[Ledger]]
             todo == {p \in Path \ {Ledger} : to[p] # None}
  <2>1. to \in Tree /\ to[Ledger] = tree[Ledger]
    <3>1. log[i] \in Tree
      BY DEF TypeOK
    <3>2. Ledger \in Path /\ tree[Ledger] \in Blob \cup {None}
      BY <1>t DEF Path, Tree
    <3>3. QED
      BY <3>1, <3>2, TreeExcept DEF Tree
  <2>2. Begin("restore", "wipe", to, todo)
    BY <1>15 DEF Restore
  <2> HIDE DEF to
  <2>3. Starts("restore", "wipe", to, todo)
    BY <2>1 DEF Starts, SingleFile
  <2>4. QED
    BY <1>b, <2>2, <2>3
<1>16. ASSUME (\E n \in Token : ReadTokenForEdit(n)) \/ LoadDNSLedger
              \/ \E up \in Batches : \E del \in SUBSET (Name \ Token) : PlanDiscovery(up, del)
       PROVE  Goal
  BY <1>16 DEF ReadTokenForEdit, LoadDNSLedger, PlanDiscovery
<1> HIDE DEF Goal
<1>17. Goal
  BY <1>1, <1>3, <1>4, <1>6, <1>7, <1>9, <1>10, <1>11, <1>12, <1>14, <1>15, <1>16
  DEF Operation
<1>18. QED
  BY <1>17 DEF Goal

\* Starting an operation.
LEMMA OperationSteady == ASSUME TypeOK, Steady, Operation PROVE Steady'
<1>0. Idle /\ UNCHANGED <<tree, log>> /\ Steady
  BY OperationShape
<1>1. CASE job' = job
  BY <1>0, <1>1
  DEF Steady, OpOfPhase, HeadOfPhase, Written, Undone, AnsweredMeansStored, BatchAllOrNothing,
      Promised, IsClean, HeadTree, Idle
<1>2. CASE AnsweredAsIs
  <2>1. Promised' = tree /\ IsClean'
    BY <1>0, <1>2 DEF AnsweredAsIs, Promised, IsClean, HeadTree
  <2>2. QED
    BY <1>0, <1>2, <2>1
    DEF AnsweredAsIs, Steady, OpOfPhase, HeadOfPhase, Written, Undone, AnsweredMeansStored,
        BatchAllOrNothing, Idle
<1>3. ASSUME NEW op, NEW phase, NEW to, NEW todo, Begin(op, phase, to, todo),
             Starts(op, phase, to, todo)
      PROVE  Steady'
  <2>1. /\ job'.op = op /\ job'.phase = phase /\ job'.to = to /\ job'.todo = todo
        /\ job'.head = Len(log) /\ job'.res = "pending"
    BY <1>3 DEF Begin
  <2>2. phase \in {"write", "checkout", "readTree", "wipe"}
    BY <1>3 DEF Starts
  <2>3. OpOfPhase' /\ HeadOfPhase' /\ AnsweredMeansStored' /\ BatchAllOrNothing'
    BY <1>0, <1>3, <2>1, <2>2
    DEF Starts, OpOfPhase, HeadOfPhase, AnsweredMeansStored, BatchAllOrNothing, Idle
  <2>4. Written' /\ Undone'
    BY <1>0, <1>3, <2>1, <2>2 DEF Starts, Written, Undone, SingleFile
  <2>5. QED
    BY <2>3, <2>4 DEF Steady
<1>4. QED
  BY <1>1, <1>2, <1>3, OperationShape

\* An operation that ends with an error or dies; a discovery batch has put back
\* what it found.
LEMMA FinishSteady ==
    ASSUME TypeOK, NEW res \in {"error", "crashed"}, Finish(res),
           (job.op = "apply" /\ res = "error") =>
               tree' = job.keep /\ (job.live => Len(log') = job.head)
    PROVE  Steady'
BY FinishFields
DEF Steady, OpOfPhase, HeadOfPhase, Written, Undone, AnsweredMeansStored, BatchAllOrNothing, Idle

\* A step of the operation that holds the lock.
LEMMA StepSteady == ASSUME TypeOK, Steady, Step PROVE Steady'
<1> USE DEF Steady
<1>t. /\ tree \in Tree /\ job.to \in Tree /\ job.keep \in Tree
      /\ job \in Jobs /\ log \in Seq(Tree) /\ Len(log) \in Nat
  BY DEF TypeOK, Jobs
<1>r. ASSUME NEW ph, job'.phase = ph, ph \notin {"idle", "write"}
      PROVE  AnsweredMeansStored' /\ BatchAllOrNothing' /\ Undone'
  BY <1>r DEF AnsweredMeansStored, BatchAllOrNothing, Undone, Idle
<1>1. ASSUME NEW p \in Path, WriteFile(p)
      PROVE  Steady'
  <2> DEFINE rest == job.todo \ {p}
  <2>1. /\ job'.op = job.op /\ job'.to = job.to /\ job'.keep = job.keep
        /\ job'.head = job.head /\ job'.todo = rest
        /\ tree' = [tree EXCEPT ![p] = job.to[p]] /\ log' = log
        /\ job.phase = "write" /\ p \in job.todo
    BY <1>1, <1>t DEF WriteFile, Jobs
  <2>2. /\ rest # {} => job'.phase = "write"
        /\ rest = {} /\ job.op = "restore" => job'.phase = "preserve"
        /\ rest = {} /\ job.op # "restore" => job'.phase = "commit"
    BY <1>1, <1>t DEF WriteFile, Jobs
  <2>3. \A q \in Path \ rest : tree'[q] = job.to[q]
    BY <1>t, <2>1 DEF Written, Tree
  <2>4. rest = {} => tree' = job.to
    <3>1. tree' \in [Path -> Blob \cup {None}] /\ job.to \in [Path -> Blob \cup {None}]
      BY <1>t, <2>1 DEF Tree
    <3>2. QED
      BY <2>3, <3>1
  <2>5. \A q \in rest : tree'[q] = tree[q]
    BY <1>t, <2>1 DEF Tree, Jobs
  <2>6. job.op # "revert" /\ (job.op # "restore" => Promised' = job.to)
    BY <2>1 DEF OpOfPhase, Promised, SingleFile
  <2> HIDE DEF rest
  <2>7. OpOfPhase' /\ HeadOfPhase'
    BY <2>1, <2>2 DEF OpOfPhase, HeadOfPhase
  <2>8. Written'
    BY <2>1, <2>2, <2>3, <2>4, <2>6 DEF Written
  <2>9. Undone'
    <3>1. rest \subseteq job.todo
      BY DEF rest
    <3>2. QED
      BY <2>1, <2>2, <2>5, <3>1 DEF Undone
  <2>10. AnsweredMeansStored' /\ BatchAllOrNothing'
    BY <2>2 DEF AnsweredMeansStored, BatchAllOrNothing, Idle
  <2>11. QED
    BY <2>7, <2>8, <2>9, <2>10
<1>g. ASSUME NEW ph \in {"clean", "undo"}, Goto(ph), log' = log,
             ph = "clean" => job.op = "revert",
             ph = "undo" => job.op \in {"restore", "revert", "revertObject"},
             job.phase \notin {"idle", "head", "undo"} \/ (ph = "undo" /\ ~job.live)
      PROVE  Steady'
  <2>1. job'.phase = ph /\ job'.op = job.op /\ job'.head = job.head /\ (job'.live <=> job.live)
    BY <1>g, GotoFields
  <2>2. OpOfPhase' /\ HeadOfPhase' /\ Written'
    BY <1>g, <2>1 DEF OpOfPhase, HeadOfPhase, Written
  <2>3. QED
    BY <1>r, <2>1, <2>2
<1>2. ASSUME WriteFails
      PROVE  Steady'
  <2>1. log' = log /\ job.phase \in {"write", "preserve"} /\ Len(log) = job.head
    BY <1>2 DEF WriteFails, HeadOfPhase
  <2>2. \/ Finish("error") /\ (job.op = "apply" => tree' = job.keep)
        \/ Goto("undo") /\ job.op \in {"restore", "revert"}
    BY <1>2 DEF WriteFails
  <2>3. QED
    BY <1>g, <2>1, <2>2, FinishSteady
<1>3. ASSUME WipeConfig
      PROVE  Steady'
  <2>1. /\ job'.phase = "write" /\ job'.op = job.op /\ job'.to = job.to /\ job'.todo = job.todo
        /\ job'.head = job.head /\ job.op = "restore" /\ log' = log /\ job.phase = "wipe"
    BY <1>3, GotoFields DEF WipeConfig, OpOfPhase
  <2>2. \A p \in Path \ job.todo : tree'[p] = job.to[p]
    BY <1>3, <1>t, <2>1 DEF WipeConfig, Written
  <2>3. OpOfPhase' /\ HeadOfPhase' /\ Undone' /\ AnsweredMeansStored' /\ BatchAllOrNothing'
    BY <2>1 DEF OpOfPhase, HeadOfPhase, Undone, AnsweredMeansStored, BatchAllOrNothing, Idle
  <2>4. Written'
    BY <2>1, <2>2 DEF Written
  <2>5. QED
    BY <2>3, <2>4
<1>4. ASSUME ReadTree
      PROVE  Steady'
  BY <1>4, <1>g DEF ReadTree, OpOfPhase
<1>5. ASSUME CleanTree
      PROVE  Steady'
  <2>1. /\ job'.phase = "preserve" /\ job'.op = job.op /\ job'.to = job.to
        /\ job'.head = job.head /\ log' = log /\ tree' = job.to /\ job.phase = "clean"
    BY <1>5, GotoFields DEF CleanTree
  <2>2. OpOfPhase' /\ HeadOfPhase' /\ Written'
    BY <2>1 DEF OpOfPhase, HeadOfPhase, Written
  <2>3. QED
    BY <1>r, <2>1, <2>2
<1>6. ASSUME CheckoutPath
      PROVE  Steady'
  <2>1. /\ job'.phase = "check" /\ job'.op = job.op /\ job'.head = job.head /\ log' = log
        /\ job.phase = "checkout" /\ Promised' = Promised /\ job.op = "revertObject"
    BY <1>6, GotoFields DEF CheckoutPath, OpOfPhase
  <2>2. tree' = job.to
    <3>1. \A p \in Path : tree'[p] = job.to[p]
      BY <1>6, <2>1 DEF CheckoutPath, Written
    <3>2. tree' \in [Path -> Blob \cup {None}] /\ job.to \in [Path -> Blob \cup {None}]
      BY <1>6, <1>t DEF Tree, CheckoutPath
    <3>3. QED
      BY <3>1, <3>2
  <2>3. Promised = job.to
    BY <2>1 DEF Promised
  <2>4. OpOfPhase' /\ HeadOfPhase' /\ Written'
    BY <2>1, <2>2, <2>3 DEF OpOfPhase, HeadOfPhase, Written
  <2>5. QED
    BY <1>r, <2>1, <2>4
<1>7. ASSUME RestoreFails
      PROVE  Steady'
  <2>1. job.op # "apply" /\ Finish("error")
    BY <1>7 DEF RestoreFails, OpOfPhase
  <2>2. QED
    BY <2>1, FinishSteady
<1>8. ASSUME PreserveTokens
      PROVE  Steady'
  <2>1. /\ job'.phase = "check" /\ job'.op = job.op /\ job'.head = job.head /\ log' = log
        /\ job.phase = "preserve" /\ Promised' = Promised /\ job.op \in {"restore", "revert"}
    BY <1>8, GotoFields DEF PreserveTokens, OpOfPhase
  <2>2. tree' = Promised
    BY <1>8, <2>1 DEF PreserveTokens, Promised, Written
  <2>3. OpOfPhase' /\ HeadOfPhase' /\ Written'
    BY <2>1, <2>2 DEF OpOfPhase, HeadOfPhase, Written
  <2>4. QED
    BY <1>r, <2>1, <2>3
<1>9. ASSUME CheckRestored
      PROVE  Steady'
  <2>1. UNCHANGED <<tree, log>> /\ job.phase = "check" /\ (Goto("commit") \/ Goto("undo"))
    BY <1>9 DEF CheckRestored
  <2>2. CASE Goto("undo")
    BY <1>g, <2>1, <2>2 DEF OpOfPhase
  <2>3. CASE Goto("commit")
    <3>1. /\ job'.phase = "commit" /\ job'.op = job.op /\ job'.head = job.head
          /\ Promised' = Promised
      BY <2>3, GotoFields
    <3>2. OpOfPhase' /\ HeadOfPhase' /\ Written'
      BY <2>1, <3>1 DEF OpOfPhase, HeadOfPhase, Written
    <3>3. QED
      BY <1>r, <3>1, <3>2
  <2>4. QED
    BY <2>1, <2>2, <2>3
<1>10. ASSUME Undo
       PROVE  Steady'
  <2>1. job.op # "apply" /\ Finish("error")
    BY <1>10 DEF Undo, OpOfPhase
  <2>2. QED
    BY <2>1, FinishSteady
<1>11. ASSUME Commit
       PROVE  Steady'
  <2>1. tree' = tree /\ job.phase = "commit" /\ tree = Promised /\ Len(log) = job.head
    BY <1>11 DEF Commit, Written, HeadOfPhase
  <2>2. CASE IsClean /\ Finish("unchanged") /\ UNCHANGED log
    <3>1. job'.phase = "idle" /\ job'.res = "unchanged" /\ Promised' = Promised /\ IsClean'
      BY <2>1, <2>2, FinishFields DEF IsClean, HeadTree
    <3>2. OpOfPhase' /\ HeadOfPhase' /\ Written' /\ Undone'
      BY <3>1 DEF OpOfPhase, HeadOfPhase, Written, Undone
    <3>3. AnsweredMeansStored' /\ BatchAllOrNothing'
      BY <2>1, <3>1 DEF AnsweredMeansStored, BatchAllOrNothing
    <3>4. QED
      BY <3>2, <3>3
  <2>3. CASE log' = Append(log, tree) /\ Goto("head")
    <3>1. Len(log') = Len(log) + 1 /\ log'[Len(log) + 1] = tree
      BY <2>3, <1>t
    <3>2. /\ job'.phase = "head" /\ job'.head = job.head /\ Promised' = Promised /\ IsClean'
          /\ job'.op = job.op
      BY <2>1, <2>3, <3>1, GotoFields DEF IsClean, HeadTree
    <3>3. OpOfPhase' /\ HeadOfPhase' /\ Written'
      BY <2>1, <3>1, <3>2 DEF OpOfPhase, HeadOfPhase, Written
    <3>4. QED
      BY <1>r, <3>2, <3>3
  <2>4. QED
    BY <1>11, <2>2, <2>3 DEF Commit
<1>12. ASSUME ReadHead
       PROVE  Steady'
  <2>1. job'.phase = "idle" /\ job'.res = "ok" /\ Promised' = Promised
    BY <1>12, FinishFields DEF ReadHead
  <2>2. tree' = tree /\ tree = Promised /\ IsClean'
    BY <1>12 DEF ReadHead, Written, IsClean, HeadTree
  <2>3. OpOfPhase' /\ HeadOfPhase' /\ Written' /\ Undone'
    BY <2>1 DEF OpOfPhase, HeadOfPhase, Written, Undone
  <2>4. AnsweredMeansStored' /\ BatchAllOrNothing'
    BY <2>1, <2>2 DEF AnsweredMeansStored, BatchAllOrNothing
  <2>5. QED
    BY <2>3, <2>4
<1>13. ASSUME CommitFails
       PROVE  Steady'
  <2>1. log' = log /\ (\/ job.phase = "commit" /\ Len(log) = job.head
                       \/ job.phase = "head" /\ ~job.live)
    BY <1>13 DEF CommitFails, HeadOfPhase
  <2>2. CASE job.op = "apply"
    BY <1>13, <2>1, <2>2, FinishSteady DEF CommitFails
  <2>3. CASE job.op \in {"revert", "revertObject"}
    <3>1. Goto("undo")
      BY <1>13, <2>3 DEF CommitFails
    <3>2. QED
      BY <1>g, <2>1, <2>3, <3>1
  <2>4. CASE job.op \notin {"apply", "revert", "revertObject"}
    BY <1>13, <2>4, FinishSteady DEF CommitFails
  <2>5. QED
    BY <2>2, <2>3, <2>4
<1>14. ASSUME Cancel
       PROVE  Steady'
  <2>1. /\ job'.phase = job.phase /\ job'.op = job.op /\ job'.to = job.to /\ job'.todo = job.todo
        /\ job'.keep = job.keep /\ job'.head = job.head /\ job.phase # "idle" /\ ~job'.live
        /\ UNCHANGED <<tree, log>>
    BY <1>14, <1>t DEF Cancel, Jobs, Idle
  <2>2. Promised' = Promised /\ (IsClean' <=> IsClean)
    BY <2>1 DEF Promised, IsClean, HeadTree
  <2>3. QED
    BY <2>1, <2>2
    DEF OpOfPhase, HeadOfPhase, Written, Undone, AnsweredMeansStored, BatchAllOrNothing, Idle
<1>15. ASSUME Crash
       PROVE  Steady'
  BY <1>15, FinishSteady DEF Crash
<1>16. QED
  BY <1>1, <1>2, <1>3, <1>4, <1>5, <1>6, <1>7, <1>8, <1>9, <1>10, <1>11, <1>12, <1>13, <1>14,
     <1>15 DEF Step

\* Every step, whatever fails, is cancelled or dies.
LEMMA NextSteady == ASSUME TypeOK, Steady, [Next]_vars PROVE Steady'
<1>1. CASE UNCHANGED vars
  BY <1>1
  DEF vars, Steady, OpOfPhase, HeadOfPhase, Written, Undone, AnsweredMeansStored,
      BatchAllOrNothing, Promised, IsClean, HeadTree, Idle
<1>2. QED
  BY <1>1, OperationSteady, StepSteady DEF Next

\* The store starts at rest, with its tree at HEAD.
LEMMA InitSteady == Init => Steady
<1> SUFFICES ASSUME Init PROVE Steady
  OBVIOUS
<1>1. job.phase = "idle" /\ job.op = "none" /\ job.to = tree /\ tree = HeadTree
  BY DEF Init, NoJob, HeadTree
<1>2. Promised = tree
  BY <1>1 DEF Promised
<1>3. QED
  BY <1>1, <1>2
  DEF Steady, OpOfPhase, HeadOfPhase, Written, Undone, AnsweredMeansStored, BatchAllOrNothing,
      IsClean

\* Phases, HEAD and tree of an operation agree, under every fault.
THEOREM SteadyThroughout == Spec => [](TypeOK /\ Steady)
<1>1. Init => TypeOK /\ Steady
  BY InitType, InitSteady
<1>2. TypeOK /\ Steady /\ [Next]_vars => (TypeOK /\ Steady)'
  BY NextType, NextSteady
<1>3. QED
  BY <1>1, <1>2, PTL DEF Spec

\* An operation that answers with success has its result in the tree and at HEAD,
\* also after earlier ones failed half way, were cancelled or died (CommitAll,
\* prepareSaveLocked's unchanged answer, replaceConfigFiles).
THEOREM AnswersAreStored == Spec => []AnsweredMeansStored
<1>1. TypeOK /\ Steady => AnsweredMeansStored
  BY DEF Steady
<1>2. QED
  BY <1>1, SteadyThroughout, PTL

\* A discovery batch that reports failure left the tree as it was, and committed
\* nothing unless it was cancelled (ApplyBatch and its snapshots).
THEOREM BatchesAreAtomic == Spec => []BatchAllOrNothing
<1>1. TypeOK /\ Steady => BatchAllOrNothing
  BY DEF Steady
<1>2. QED
  BY <1>1, SteadyThroughout, PTL

\* However old discovery's plan is, the batch replaces and removes only what is
\* discovery's when the lock is held (ApplyBatch's guard).
THEOREM OperatorsObjectsStay == Spec => OperatorObjectsKept
<1> DEFINE Keeps == job.op = "apply" /\ job.phase = "write" /\ job'.phase # "idle" =>
                      \A n \in Name : tree[n] # None /\ ~tree[n].managed => tree'[n] = tree[n]
<1>1. TypeOK /\ Steady /\ [Next]_vars => [Keeps]_vars
  <2> SUFFICES ASSUME TypeOK, Steady, Next, job.op = "apply", job.phase = "write",
                      job'.phase # "idle", NEW n \in Name, tree[n] # None, ~tree[n].managed
               PROVE  tree'[n] = tree[n]
    BY DEF Steady, vars
  <2>1. Step
    BY OperationShape DEF Next, Idle
  <2>2. tree \in Tree /\ n \in Path
    BY DEF TypeOK, Path
  <2>3. ASSUME NEW p \in Path, WriteFile(p)
        PROVE  tree'[n] = tree[n]
    <3>1. p # n
      BY <2>3 DEF WriteFile, Steady, Undone
    <3>2. QED
      BY <2>2, <2>3, <3>1 DEF WriteFile, Tree
  <2>4. ~WriteFails /\ ~Crash
    BY FinishFields DEF WriteFails, Crash
  <2>5. UNCHANGED tree \/ \E p \in Path : WriteFile(p)
    BY <2>1, <2>4
    DEF Step, WipeConfig, ReadTree, CleanTree, CheckoutPath, RestoreFails, PreserveTokens,
        CheckRestored, Undo, Commit, ReadHead, CommitFails, Cancel
  <2>6. QED
    BY <2>3, <2>5
<1>2. QED
  BY <1>1, SteadyThroughout, PTL DEF Spec, OperatorObjectsKept

----------------------------------------------------------------------------
(* Reverts and the ledger, while no request is cancelled.                  *)

Uncancelled == "cancel" \notin Faults

\* Who reads and who gives up the ledger.
LEMMA HeldShape ==
    ASSUME [Next]_vars
    PROVE  \/ held' = held
           \/ held' = None
           \/ /\ held' = [rev |-> Len(log), led |-> tree[Ledger]] /\ Idle
              /\ UNCHANGED <<tree, log, job>>
<1>1. CASE Operation
  BY <1>1
  DEF Operation, Save, Create, Delete, MintToken, ReadTokenForEdit, SaveTokenEdit, SaveBatch,
      PlanDiscovery, ApplyBatch, Revert, RevertObject, SaveSettings, LoadDNSLedger,
      SaveDNSLedger, Restore, clients
<1>2. CASE Step
  <2>0. ASSUME NEW p \in Path, WriteFile(p)
        PROVE  UNCHANGED clients
    BY <2>0 DEF WriteFile
  <2>1. ASSUME WriteFails \/ WipeConfig \/ ReadTree \/ CleanTree \/ CheckoutPath \/ RestoreFails
        PROVE  UNCHANGED clients
    BY <2>1 DEF WriteFails, WipeConfig, ReadTree, CleanTree, CheckoutPath, RestoreFails
  <2>2. ASSUME PreserveTokens \/ CheckRestored \/ Undo \/ Commit \/ ReadHead \/ CommitFails \/ Cancel
        PROVE  UNCHANGED clients
    BY <2>2 DEF PreserveTokens, CheckRestored, Undo, Commit, ReadHead, CommitFails, Cancel
  <2>3. Crash => held' = None
    BY DEF Crash
  <2>4. UNCHANGED clients \/ held' = None
    BY <1>2, <2>0, <2>1, <2>2, <2>3 DEF Step
  <2>5. QED
    BY <2>4 DEF clients
<1>3. CASE UNCHANGED vars
  BY <1>3 DEF vars
<1>4. QED
  BY <1>1, <1>2, <1>3 DEF Next

\* A ledger that was read and whose commit is still HEAD is the tree's, or will be
\* when the operation under way has ended, unless that one rolls back to HEAD.
LedgerHeld ==
    /\ job.phase # "idle" /\ job.op # "ledger" => Ledger \notin job.todo
    /\ job.phase # "idle" /\ job.op \notin {"ledger", "revert"} =>
          tree[Ledger] = job.keep[Ledger]
    /\ held # None =>
          /\ held.rev \in 1 .. Len(log)
          /\ job.phase # "idle" => job.op # "ledger"
          /\ job.phase = "head" => held.rev < Len(log)
          /\ held.rev = Len(log) =>
                (IF Idle THEN tree ELSE job.keep)[Ledger] \in {held.led, HeadTree[Ledger]}

Cautious == job.live /\ RevertAllOrNothing /\ LedgerHeld

\* What ends an operation that is not cancelled.
LEMMA CautiousEnd ==
    ASSUME TypeOK, Steady, Cautious, NEW res, Finish(res), log' = log, held' = held, ~Idle,
           (job.op \in {"revert", "revertObject"} /\ res = "error") =>
               tree' = log[job.head] /\ Len(log) = job.head,
           \/ tree'[Ledger] = HeadTree[Ledger]
           \/ job.op # "revert" /\ tree'[Ledger] = job.keep[Ledger]
           \/ job.op = "ledger" \/ job.phase = "head"
    PROVE  Cautious'
<1>1. /\ job'.phase = "idle" /\ job'.res = res /\ job'.op = job.op /\ job'.head = job.head
      /\ job'.live
  BY FinishFields DEF Cautious
<1>2. RevertAllOrNothing'
  BY <1>1 DEF RevertAllOrNothing
<1>3. HeadTree' = HeadTree /\ Idle' /\ Len(log) \in Nat
  BY <1>1 DEF HeadTree, Idle, TypeOK
<1>4. ASSUME held # None
      PROVE  /\ held.rev \in 1 .. Len(log) /\ job.op # "ledger"
             /\ held.rev = Len(log) => tree'[Ledger] \in {held.led, HeadTree[Ledger]}
  <2>1. /\ held.rev \in 1 .. Len(log) /\ job.op # "ledger"
        /\ job.phase = "head" => held.rev < Len(log)
        /\ held.rev = Len(log) => job.keep[Ledger] \in {held.led, HeadTree[Ledger]}
    BY <1>4 DEF Cautious, LedgerHeld, Idle
  <2>2. QED
    BY <1>3, <2>1
<1>5. LedgerHeld'
  BY <1>1, <1>3, <1>4 DEF LedgerHeld
<1>6. QED
  BY <1>1, <1>2, <1>5 DEF Cautious

\* Only an operation that holds the lock takes steps.
LEMMA StepBusy == ASSUME Step PROVE ~Idle
<1>1. ASSUME NEW p \in Path, WriteFile(p)
      PROVE  ~Idle
  BY <1>1 DEF WriteFile, Idle
<1>2. ASSUME WriteFails \/ WipeConfig \/ ReadTree \/ CleanTree \/ CheckoutPath \/ RestoreFails
      PROVE  ~Idle
  BY <1>2 DEF WriteFails, WipeConfig, ReadTree, CleanTree, CheckoutPath, RestoreFails, Idle
<1>3. ASSUME PreserveTokens \/ CheckRestored \/ Undo \/ Commit \/ ReadHead \/ CommitFails \/ Cancel
             \/ Crash
      PROVE  ~Idle
  BY <1>3 DEF PreserveTokens, CheckRestored, Undo, Commit, ReadHead, CommitFails, Cancel, Crash, Idle
<1>4. QED
  BY <1>1, <1>2, <1>3 DEF Step

\* The ledger through a phase that goes on.
LEMMA CautiousOn ==
    ASSUME TypeOK, Steady, Cautious, NEW phase, Goto(phase), phase \notin {"idle", "head"},
           ~Idle, job.phase # "head", log' = log, held' = held,
           job.op \notin {"ledger", "revert"} => tree'[Ledger] = tree[Ledger]
    PROVE  Cautious'
<1>1. /\ job'.phase = phase /\ job'.op = job.op /\ job'.keep = job.keep /\ job'.live
      /\ job'.todo = job.todo
  BY GotoFields DEF Cautious
<1>2. HeadTree' = HeadTree /\ ~Idle'
  BY <1>1 DEF HeadTree, Idle
<1>3. LedgerHeld'
  BY <1>1, <1>2 DEF Cautious, LedgerHeld, Idle
<1>4. QED
  BY <1>1, <1>2, <1>3 DEF Cautious, RevertAllOrNothing

\* An operation that is not cancelled leaves the ledger alone or rolls it back to
\* HEAD.
LEMMA CautiousStep ==
    ASSUME Uncancelled, TypeOK, Steady, Cautious, Step
    PROVE  Cautious'
<1>t. /\ tree \in Tree /\ job.to \in Tree /\ job.keep \in Tree /\ job.live
      /\ job \in Jobs /\ log \in Seq(Tree) /\ Len(log) \in Nat /\ Len(log) > 0
      /\ Ledger \in Path /\ Ledger \notin Token
  BY ConfigStoreAssumption DEF TypeOK, Jobs, Cautious, Path
<1>n. ~Idle
  BY StepBusy
<1>k. job.op \notin {"ledger", "revert"} => tree[Ledger] = job.keep[Ledger]
  BY <1>n DEF Cautious, LedgerHeld, Idle
<1>h. held # None => job.op # "ledger"
  BY <1>n DEF Cautious, LedgerHeld, Idle
<1>1. ASSUME NEW p \in Path, WriteFile(p)
      PROVE  Cautious'
  <2>1. /\ job'.op = job.op /\ job'.keep = job.keep /\ job'.todo = job.todo \ {p}
        /\ job'.phase \in {"write", "preserve", "commit"} /\ job'.live
        /\ tree' = [tree EXCEPT ![p] = job.to[p]] /\ log' = log /\ held' = held
        /\ job.phase = "write" /\ p \in job.todo
    BY <1>1, <1>t DEF WriteFile, Jobs, clients
  <2>2. job.op # "ledger" => tree'[Ledger] = tree[Ledger]
    BY <1>n, <1>t, <2>1 DEF Cautious, LedgerHeld, Idle, Tree
  <2>3. HeadTree' = HeadTree /\ ~Idle'
    BY <2>1 DEF HeadTree, Idle
  <2>4. LedgerHeld'
    BY <1>n, <2>1, <2>2, <2>3 DEF Cautious, LedgerHeld, Idle
  <2>5. QED
    BY <2>1, <2>3, <2>4 DEF Cautious, RevertAllOrNothing
<1>2. ASSUME WriteFails
      PROVE  Cautious'
  <2>1. /\ log' = log /\ held' = held /\ job.phase \in {"write", "preserve"}
        /\ \/ job.op = "apply" /\ tree' = job.keep /\ Finish("error")
           \/ job.op \in {"restore", "revert"} /\ Goto("undo") /\ UNCHANGED tree
           \/ /\ job.op \notin {"apply", "restore", "revert"}
              /\ Finish("error") /\ UNCHANGED tree
    BY <1>2 DEF WriteFails, clients
  <2>2. CASE job.op = "apply" /\ tree' = job.keep /\ Finish("error")
    BY <1>n, <2>1, <2>2, CautiousEnd
  <2>3. CASE job.op \in {"restore", "revert"} /\ Goto("undo") /\ UNCHANGED tree
    BY <1>n, <2>1, <2>3, CautiousOn
  <2>4. CASE /\ job.op \notin {"apply", "restore", "revert"}
             /\ Finish("error") /\ UNCHANGED tree
    <3>1. job.op # "revertObject"
      BY <2>1 DEF Steady, OpOfPhase, SingleFile
    <3>2. QED
      BY <1>k, <1>n, <2>1, <2>4, <3>1, CautiousEnd
  <2>5. QED
    BY <2>1, <2>2, <2>3, <2>4
<1>3. ASSUME WipeConfig \/ ReadTree \/ CleanTree \/ CheckoutPath \/ PreserveTokens
      PROVE  Cautious'
  <2>1. /\ log' = log /\ held' = held /\ job.phase # "head"
        /\ \E phase : Goto(phase) /\ phase \notin {"idle", "head"}
    BY <1>3 DEF WipeConfig, ReadTree, CleanTree, CheckoutPath, PreserveTokens, clients
  <2>2. job.op \notin {"ledger", "revert"} => tree'[Ledger] = tree[Ledger]
    <3>1. CASE WipeConfig \/ PreserveTokens
      BY <1>t, <3>1 DEF WipeConfig, PreserveTokens
    <3>2. CASE CheckoutPath
      <4>1. Ledger \notin job.todo
        BY <1>n, <3>2 DEF CheckoutPath, Steady, OpOfPhase, Cautious, LedgerHeld, Idle
      <4>2. QED
        BY <1>t, <3>2, <4>1 DEF CheckoutPath
    <3>3. CASE ReadTree \/ CleanTree
      BY <3>3 DEF ReadTree, CleanTree, Steady, OpOfPhase
    <3>4. QED
      BY <1>3, <3>1, <3>2, <3>3
  <2>3. QED
    BY <1>n, <2>1, <2>2, CautiousOn
<1>4. ASSUME CheckRestored
      PROVE  Cautious'
  <2>1. /\ UNCHANGED <<tree, log, held>> /\ job.phase = "check"
        /\ Goto("commit") \/ Goto("undo")
    BY <1>4 DEF CheckRestored, clients
  <2>2. QED
    BY <1>n, <2>1, CautiousOn
<1>5. ASSUME Undo
      PROVE  Cautious'
  <2>1. tree' = log[job.head] /\ Finish("error") /\ log' = log /\ held' = held
    BY <1>5, <1>t DEF Undo, clients
  <2>2. Len(log) = job.head
    BY <1>5, <1>t DEF Undo, Steady, HeadOfPhase
  <2>3. QED
    BY <1>n, <2>1, <2>2, CautiousEnd DEF HeadTree
<1>6. ASSUME Commit
      PROVE  Cautious'
  <2>1. tree' = tree /\ job.phase = "commit" /\ held' = held
    BY <1>6 DEF Commit, clients
  <2>2. CASE IsClean /\ Finish("unchanged") /\ UNCHANGED log
    BY <1>n, <2>1, <2>2, CautiousEnd DEF IsClean
  <2>3. CASE log' = Append(log, tree) /\ Goto("head")
    <3>1. Len(log') = Len(log) + 1
      BY <2>3, <1>t
    <3>2. /\ job'.phase = "head" /\ job'.op = job.op /\ job'.keep = job.keep /\ job'.live
          /\ job'.todo = job.todo
      BY <1>t, <2>3, GotoFields
    <3>3. held # None => held.rev \in 1 .. Len(log)
      BY DEF Cautious, LedgerHeld
    <3>4. held # None => held.rev \in 1 .. Len(log') /\ held.rev < Len(log') /\ held.rev # Len(log')
      BY <1>t, <3>1, <3>3
    <3>5. LedgerHeld'
      BY <1>n, <2>1, <3>2, <3>4 DEF Cautious, LedgerHeld, Idle
    <3>6. QED
      BY <3>2, <3>5 DEF Cautious, RevertAllOrNothing, Idle
  <2>4. QED
    BY <1>6, <2>2, <2>3 DEF Commit
<1>7. ASSUME ReadHead
      PROVE  Cautious'
  <2>1. /\ UNCHANGED <<tree, log, held>> /\ job.phase = "head" /\ Finish("ok")
    BY <1>7 DEF ReadHead, clients
  <2>2. QED
    BY <1>n, <2>1, CautiousEnd
<1>8. ASSUME CommitFails
      PROVE  Cautious'
  <2>1. /\ log' = log /\ held' = held /\ job.phase = "commit"
        /\ \/ job.op = "apply" /\ tree' = job.keep /\ Finish("error")
           \/ job.op \in {"revert", "revertObject"} /\ Goto("undo") /\ UNCHANGED tree
           \/ /\ job.op \notin {"apply", "revert", "revertObject"}
              /\ Finish("error") /\ UNCHANGED tree
    BY <1>8, <1>t DEF CommitFails, clients
  <2>2. CASE job.op = "apply" /\ tree' = job.keep /\ Finish("error")
    BY <1>n, <2>1, <2>2, CautiousEnd
  <2>3. CASE job.op \in {"revert", "revertObject"} /\ Goto("undo") /\ UNCHANGED tree
    BY <1>n, <2>1, <2>3, CautiousOn
  <2>4. CASE /\ job.op \notin {"apply", "revert", "revertObject"}
             /\ Finish("error") /\ UNCHANGED tree
    BY <1>k, <1>n, <2>1, <2>4, CautiousEnd
  <2>5. QED
    BY <2>1, <2>2, <2>3, <2>4
<1>9. ~RestoreFails /\ ~Cancel
  BY <1>t DEF RestoreFails, Cancel, Uncancelled
<1>10. ASSUME Crash
       PROVE  Cautious'
  <2>1. job'.phase = "idle" /\ job'.res = "crashed" /\ job'.live /\ held' = None
    BY <1>10, <1>t, FinishFields DEF Crash
  <2>2. QED
    BY <2>1 DEF Cautious, RevertAllOrNothing, LedgerHeld
<1>11. QED
  BY <1>1, <1>2, <1>3, <1>4, <1>5, <1>6, <1>7, <1>8, <1>9, <1>10 DEF Step

\* Starting an operation.
LEMMA CautiousOperation ==
    ASSUME TypeOK, Cautious, Operation
    PROVE  Cautious'
<1>0. /\ Idle /\ UNCHANGED <<tree, log>> /\ job.live /\ Len(log) \in Nat /\ Len(log) > 0
      /\ HeadTree' = HeadTree /\ job \in Jobs
  BY OperationShape DEF Cautious, TypeOK, HeadTree
<1>1. held' # None => /\ held'.rev \in 1 .. Len(log)
                      /\ held'.rev = Len(log) => tree[Ledger] \in {held'.led, HeadTree[Ledger]}
  <2>1. CASE held' = held
    BY <1>0, <2>1 DEF Cautious, LedgerHeld
  <2>2. CASE held' = [rev |-> Len(log), led |-> tree[Ledger]]
    BY <1>0, <2>2
  <2>3. QED
    BY <2>1, <2>2, HeldShape DEF Next
<1>2. CASE job' = job
  BY <1>0, <1>1, <1>2 DEF Cautious, RevertAllOrNothing, LedgerHeld, Idle
<1>3. CASE AnsweredAsIs
  <2>1. job'.live
    BY <1>0, <1>3 DEF AnsweredAsIs
  <2>2. QED
    BY <1>0, <1>1, <1>3, <2>1 DEF AnsweredAsIs, Cautious, RevertAllOrNothing, LedgerHeld, Idle
<1>4. ASSUME NEW op, NEW phase, NEW to, NEW todo, Begin(op, phase, to, todo),
             Starts(op, phase, to, todo)
      PROVE  Cautious'
  <2>1. /\ job'.op = op /\ job'.phase = phase /\ job'.todo = todo /\ job'.keep = tree
        /\ job'.live
    BY <1>4 DEF Begin
  <2>2. /\ phase \in {"write", "checkout", "readTree", "wipe"}
        /\ op = "ledger" => held' = None
        /\ op # "ledger" => Ledger \notin todo
    BY <1>4 DEF Starts
  <2>3. QED
    BY <1>0, <1>1, <2>1, <2>2 DEF Cautious, RevertAllOrNothing, LedgerHeld, Idle
<1>5. QED
  BY <1>2, <1>3, <1>4, OperationShape

\* The invariant of an uncancelled store.
LEMMA CautiousThroughout ==
    ASSUME Uncancelled
    PROVE  Spec => [](TypeOK /\ Steady /\ Cautious)
<1>1. Init => TypeOK /\ Steady /\ Cautious
  <2>1. Init => Cautious
    BY DEF Init, NoJob, Cautious, RevertAllOrNothing, LedgerHeld
  <2>2. QED
    BY <2>1, InitType, InitSteady
<1>2. TypeOK /\ Steady /\ Cautious /\ [Next]_vars => (TypeOK /\ Steady /\ Cautious)'
  <2> SUFFICES ASSUME TypeOK, Steady, Cautious, [Next]_vars PROVE Cautious'
    BY NextType, NextSteady
  <2>1. CASE UNCHANGED vars
    BY <2>1 DEF vars, Cautious, RevertAllOrNothing, LedgerHeld, Idle, HeadTree
  <2>2. QED
    BY <2>1, CautiousOperation, CautiousStep DEF Next
<1>3. QED
  BY <1>1, <1>2, PTL DEF Spec

\* While no request is cancelled, a revert that reports failure left the tree at
\* the HEAD it started from and committed nothing, whichever of its writes, gates
\* or git commands failed (Revert and RevertObject).
THEOREM RevertsAreAtomic == ASSUME Uncancelled PROVE Spec => []RevertAllOrNothing
<1>1. TypeOK /\ Steady /\ Cautious => RevertAllOrNothing
  BY DEF Cautious
<1>2. QED
  BY <1>1, CautiousThroughout, PTL

\* While no request is cancelled, a ledger save that SaveDNSLedger lets through
\* replaces the ledger its writer read, or the one of the commit it read at.
THEOREM LedgerIsNotClobbered == ASSUME Uncancelled PROVE Spec => LedgerNotClobbered
<1> DEFINE Fair == Idle /\ job'.op = "ledger" /\ job'.phase = "write" =>
                     tree[Ledger] \in {held.led, log[held.rev][Ledger]}
<1>1. (TypeOK /\ Steady /\ Cautious) /\ [Next]_vars => [Fair]_vars
  <2> SUFFICES ASSUME TypeOK, Cautious, Next, Idle, job'.op = "ledger", job'.phase = "write"
               PROVE  tree[Ledger] \in {held.led, log[held.rev][Ledger]}
    OBVIOUS
  <2>1. Operation
    BY StepBusy DEF Next
  <2>2. PICK op, phase, to, todo : Begin(op, phase, to, todo) /\ Starts(op, phase, to, todo)
    BY <2>1, OperationShape DEF AnsweredAsIs, Idle
  <2>3. op = "ledger"
    BY <2>2 DEF Begin
  <2>4. held # None /\ held.rev = Len(log)
    BY <2>2, <2>3 DEF Starts
  <2>5. QED
    BY <2>4 DEF Cautious, LedgerHeld, HeadTree
<1>2. QED
  BY <1>1, CautiousThroughout, PTL DEF Spec, LedgerNotClobbered

----------------------------------------------------------------------------
(* Rotated and deleted secrets.                                            *)

\* No request is cancelled, no crash interrupts a revert, and no token editor
\* holds a digest it read before a rotation (the TokenEditRace finding).
Unraced == Uncancelled /\ "crash" \notin Faults /\ "edit" \notin Ops

\* A tree whose tokens are alive, each with a secret of its own.
Sound(t) ==
    /\ \A n \in Token : t[n] # None => t[n].digest \notin revoked
    /\ DistinctDigests(t)

SameTokens(t, u) == \A n \in Token : t[n] = u[n]

\* Between two trees no digest moves from one token to another.
Rotates(t, u) ==
    \A m, n \in Token : t[m] # None /\ u[n] # None /\ t[m].digest = u[n].digest => m = n

\* HEAD, the tree at rest and what the operation under way found are sound, and so
\* is what it will store.
TokensSound ==
    /\ Sound(HeadTree)
    /\ Idle => Sound(tree)
    /\ ~Idle => Sound(job.keep) /\ job.op # "edit"
    /\ ~Idle /\ job.op \notin {"token", "delete", "revert", "restore"} =>
          SameTokens(job.to, job.keep)
    /\ ~Idle /\ job.op \in {"token", "delete"} =>
          /\ Sound(job.to) /\ Rotates(job.to, job.keep)
          /\ job.phase = "write" => \E p \in Path : job.todo = {p}
    /\ job.phase = "write" /\ job.op # "restore" => SameTokens(tree, job.keep)

\* Trees with the same tokens are sound together.
LEMMA SoundSame ==
    ASSUME NEW t, NEW u, SameTokens(t, u), Sound(u)
    PROVE  Sound(t)
BY DEF Sound, SameTokens, DistinctDigests

\* What an operation promises is sound.
LEMMA PromisedSound ==
    ASSUME TokensSound, ~Idle
    PROVE  Sound(Promised)
<1>1. CASE job.op \in {"revert", "restore"}
  <2>1. Token \subseteq Path
    BY ConfigStoreAssumption DEF Path
  <2>2. SameTokens(Promised, job.keep)
    BY <1>1, <2>1 DEF Promised, SameTokens
  <2>3. QED
    BY <2>2, SoundSame DEF TokensSound
<1>2. CASE job.op \in {"token", "delete"}
  BY <1>2 DEF Promised, TokensSound
<1>3. CASE job.op \notin {"revert", "restore", "token", "delete"}
  <2>1. Promised = job.to /\ SameTokens(job.to, job.keep)
    BY <1>3 DEF Promised, TokensSound
  <2>2. QED
    BY <2>1, SoundSame DEF TokensSound
<1>4. QED
  BY <1>1, <1>2, <1>3

\* An operation that ends without success takes no secret away.
LEMMA SoundEnd ==
    ASSUME TypeOK, TokensSound, ~Idle, NEW res, Finish(res), res # "ok", log' = log, Sound(tree')
    PROVE  TokensSound'
<1>0. revoked' = revoked
  BY DEF Finish
<1>1. job'.phase = "idle" /\ revoked' = revoked
  BY <1>0, FinishFields
<1>2. Sound(HeadTree)' /\ Sound(tree)' /\ Idle'
  BY <1>1 DEF TokensSound, Sound, HeadTree, Idle
<1>3. QED
  BY <1>1, <1>2 DEF TokensSound, Idle

\* An operation that goes on, past its writes.
LEMMA SoundOn ==
    ASSUME TypeOK, TokensSound, ~Idle, NEW phase, Goto(phase), phase \notin {"idle", "write"},
           Sound(log'[Len(log')])
    PROVE  TokensSound'
<1>1. /\ job'.phase = phase /\ job'.op = job.op /\ job'.to = job.to /\ job'.keep = job.keep
      /\ revoked' = revoked
  BY GotoFields DEF Goto
<1>2. Sound(HeadTree)' /\ ~Idle'
  BY <1>1 DEF Sound, HeadTree, Idle
<1>3. Sound(job.keep)' /\ job'.op # "edit"
  BY <1>1 DEF TokensSound, Sound
<1>4. job.op \in {"token", "delete"} => Sound(job.to)' /\ Rotates(job.to, job.keep)'
  BY <1>1 DEF TokensSound, Sound, Rotates
<1>5. job.op \notin {"token", "delete", "revert", "restore"} => SameTokens(job.to, job.keep)'
  BY <1>1 DEF TokensSound, SameTokens
<1>6. QED
  BY <1>1, <1>2, <1>3, <1>4, <1>5 DEF TokensSound

\* A step of the operation that holds the lock.
LEMMA SoundStep ==
    ASSUME Unraced, TypeOK, Steady, Cautious, TokensSound, Step
    PROVE  TokensSound'
<1>n. ~Idle
  BY StepBusy
<1>t. /\ tree \in Tree /\ job.to \in Tree /\ job.keep \in Tree /\ job.live
      /\ job \in Jobs /\ log \in Seq(Tree) /\ Len(log) \in Nat /\ Len(log) > 0
      /\ Token \subseteq Path
  BY ConfigStoreAssumption DEF TypeOK, Jobs, Cautious, Path
<1>h. Sound(log[Len(log)])
  BY DEF TokensSound, HeadTree
<1>o. ASSUME NEW phase, Goto(phase), phase \notin {"idle", "write"}, log' = log
      PROVE  TokensSound'
  BY <1>h, <1>n, <1>o, SoundOn
<1>1. ASSUME NEW p \in Path, WriteFile(p)
      PROVE  TokensSound'
  <2>1. /\ job'.op = job.op /\ job'.keep = job.keep /\ job'.to = job.to
        /\ job'.todo = job.todo \ {p} /\ job'.phase \in {"write", "preserve", "commit"}
        /\ job'.phase = "write" => job'.todo # {}
        /\ tree' = [tree EXCEPT ![p] = job.to[p]] /\ log' = log /\ revoked' = revoked
        /\ job.phase = "write" /\ p \in job.todo
    BY <1>1, <1>t DEF WriteFile, Jobs
  <2>2. Sound(HeadTree)' /\ ~Idle'
    BY <2>1 DEF Sound, HeadTree, Idle, TokensSound
  <2>3. Sound(job.keep)' /\ job'.op # "edit"
    BY <1>n, <2>1 DEF TokensSound, Sound
  <2>4. job.op \in {"token", "delete"} => /\ Sound(job.to)' /\ Rotates(job.to, job.keep)'
                                          /\ job'.phase # "write"
    BY <1>n, <2>1 DEF TokensSound, Sound, Rotates
  <2>5. job.op \notin {"token", "delete", "revert", "restore"} => SameTokens(job.to, job.keep)'
    BY <1>n, <2>1 DEF TokensSound, SameTokens
  <2>6. job'.phase = "write" /\ job.op # "restore" => SameTokens(tree, job.keep)'
    <3>1. job.op # "revert"
      BY <2>1 DEF Steady, OpOfPhase, SingleFile
    <3>2. \A n \in Token : tree'[n] = tree[n] \/ tree'[n] = job.to[n]
      BY <1>t, <2>1 DEF Tree
    <3>3. QED
      BY <1>n, <2>1, <2>4, <3>1, <3>2 DEF TokensSound, SameTokens
  <2>7. QED
    BY <2>1, <2>2, <2>3, <2>4, <2>5, <2>6 DEF TokensSound
<1>k. SameTokens(job.keep, job.keep) /\ Sound(job.keep)
  BY <1>n DEF SameTokens, TokensSound
<1>2. ASSUME WriteFails
      PROVE  TokensSound'
  <2>1. /\ log' = log /\ job.phase \in {"write", "preserve"}
        /\ \/ job.op = "apply" /\ tree' = job.keep /\ Finish("error")
           \/ Goto("undo")
           \/ /\ job.op \notin {"apply", "restore", "revert"}
              /\ Finish("error") /\ UNCHANGED tree
    BY <1>2 DEF WriteFails
  <2>2. CASE job.op = "apply" /\ tree' = job.keep /\ Finish("error")
    BY <1>k, <1>n, <2>1, <2>2, SoundEnd
  <2>3. CASE Goto("undo")
    BY <1>o, <2>1, <2>3
  <2>4. CASE /\ job.op \notin {"apply", "restore", "revert"}
             /\ Finish("error") /\ UNCHANGED tree
    <3>1. job.phase = "write"
      BY <2>1, <2>4 DEF Steady, OpOfPhase
    <3>2. Sound(tree)
      BY <1>k, <2>4, <3>1, SoundSame DEF TokensSound
    <3>3. QED
      BY <1>n, <2>1, <2>4, <3>2, SoundEnd
  <2>5. QED
    BY <2>1, <2>2, <2>3, <2>4
<1>3. ASSUME WipeConfig
      PROVE  TokensSound'
  <2>1. /\ job'.phase = "write" /\ job'.op = job.op /\ job.op = "restore"
        /\ job'.keep = job.keep /\ revoked' = revoked /\ log' = log
    BY <1>3, GotoFields DEF WipeConfig, Goto, Steady, OpOfPhase
  <2>2. Sound(HeadTree)' /\ Sound(job.keep)' /\ ~Idle'
    BY <1>n, <2>1 DEF Sound, HeadTree, Idle, TokensSound
  <2>3. QED
    BY <2>1, <2>2 DEF TokensSound
<1>4. ASSUME ReadTree \/ CleanTree \/ CheckoutPath \/ PreserveTokens \/ CheckRestored
      PROVE  TokensSound'
  <2>1. log' = log /\ \E phase : Goto(phase) /\ phase \notin {"idle", "write"}
    BY <1>4 DEF ReadTree, CleanTree, CheckoutPath, PreserveTokens, CheckRestored
  <2>2. QED
    BY <1>o, <2>1
<1>5. ASSUME Undo
      PROVE  TokensSound'
  <2>1. tree' = log[job.head] /\ Finish("error") /\ log' = log
    BY <1>5, <1>t DEF Undo
  <2>2. Len(log) = job.head
    BY <1>5, <1>t DEF Undo, Steady, HeadOfPhase
  <2>3. QED
    BY <1>h, <1>n, <2>1, <2>2, SoundEnd
<1>6. ASSUME Commit
      PROVE  TokensSound'
  <2>1. tree' = tree /\ Sound(tree)
    BY <1>6, <1>n, PromisedSound DEF Commit, Steady, Written
  <2>2. CASE Finish("unchanged") /\ UNCHANGED log
    BY <1>n, <2>1, <2>2, SoundEnd
  <2>3. CASE log' = Append(log, tree) /\ Goto("head")
    <3>1. log'[Len(log')] = tree
      BY <2>3, <1>t
    <3>2. QED
      BY <1>n, <2>1, <2>3, <3>1, SoundOn
  <2>4. QED
    BY <1>6, <2>2, <2>3 DEF Commit
<1>7. ASSUME ReadHead
      PROVE  TokensSound'
  <2>1. /\ UNCHANGED <<tree, log>> /\ tree = Promised /\ tree = HeadTree
        /\ revoked' = revoked \cup Withdrawn /\ job'.phase = "idle"
    <3>1. /\ UNCHANGED <<tree, log>> /\ tree = Promised /\ tree = HeadTree /\ Finish("ok")
      BY <1>7 DEF ReadHead, Steady, Written, IsClean
    <3>2. revoked' = revoked \cup Withdrawn
      BY <3>1 DEF Finish
    <3>3. QED
      BY <3>1, <3>2, FinishFields
  <2>2. Sound(tree)
    BY <1>n, <2>1, PromisedSound
  <2>3. \A m \in Token : tree[m] # None => tree[m].digest \notin Withdrawn
    <3>1. CASE job.op \notin {"token", "delete"}
      BY <1>n, <3>1 DEF Withdrawn, TokensSound
    <3>2. CASE job.op \in {"token", "delete"}
      <4>1. tree = job.to
        BY <2>1, <3>2 DEF Promised
      <4>2. Rotates(job.to, job.keep)
        BY <1>n, <3>2 DEF TokensSound
      <4>3. QED
        BY <4>1, <4>2 DEF Withdrawn, Rotates
    <3>3. QED
      BY <3>1, <3>2
  <2>4. Sound(tree)' /\ Sound(HeadTree)' /\ Idle'
    BY <2>1, <2>2, <2>3 DEF Sound, HeadTree, Idle
  <2>5. QED
    BY <2>1, <2>4 DEF TokensSound
<1>8. ASSUME CommitFails
      PROVE  TokensSound'
  <2>1. /\ log' = log /\ job.phase = "commit"
        /\ \/ job.op = "apply" /\ tree' = job.keep /\ Finish("error")
           \/ Goto("undo")
           \/ Finish("error") /\ UNCHANGED tree
    BY <1>8, <1>t DEF CommitFails
  <2>2. Sound(tree)
    BY <1>n, <2>1, PromisedSound DEF Steady, Written
  <2>3. QED
    BY <1>k, <1>n, <1>o, <2>1, <2>2, SoundEnd
<1>9. ~RestoreFails /\ ~Cancel /\ ~Crash
  BY <1>t DEF RestoreFails, Cancel, Crash, Uncancelled, Unraced
<1>10. QED
  BY <1>1, <1>2, <1>3, <1>4, <1>5, <1>6, <1>7, <1>8, <1>9 DEF Step

\* Starting an operation: a minted secret is nobody else's.
LEMMA SoundOperation ==
    ASSUME Unraced, TypeOK, TokensSound, Operation
    PROVE  TokensSound'
<1>0. /\ Idle /\ UNCHANGED <<tree, log, revoked>> /\ Sound(tree) /\ Sound(HeadTree)
      /\ Token \subseteq Path /\ tree \in Tree
  BY OperationShape, ConfigStoreAssumption DEF TokensSound, TypeOK, Path
<1>1. Sound(tree)' /\ Sound(HeadTree)'
  BY <1>0 DEF Sound, HeadTree
<1>2. CASE job' = job \/ AnsweredAsIs
  BY <1>0, <1>1, <1>2 DEF AnsweredAsIs, TokensSound, Idle
<1>3. ASSUME NEW op, NEW phase, NEW to, NEW todo, Begin(op, phase, to, todo),
             Starts(op, phase, to, todo)
      PROVE  TokensSound'
  <2>1. /\ job'.op = op /\ job'.phase = phase /\ job'.todo = todo /\ job'.keep = tree
        /\ job'.to = to /\ op \in Ops /\ op # "edit"
    BY <1>3 DEF Begin, Unraced
  <2>2. phase \in {"write", "checkout", "readTree", "wipe"} /\ ~Idle'
    BY <1>3, <2>1 DEF Starts, Idle
  <2>3. op \notin {"token", "delete", "revert", "restore"} => SameTokens(to, tree)
    BY <1>3, <2>1 DEF Starts, SameTokens
  <2>4. op \in {"token", "delete"} => /\ (\E p \in Path : todo = {p}) /\ phase = "write"
                                      /\ \A q \in Path \ todo : to[q] = tree[q]
    BY <1>3, <2>1 DEF Starts, SingleFile
  <2>5. CASE op = "token"
    <3>1. PICK n \in Token : todo = {n} /\ to[n] # None /\ FreshDigest(to[n].digest)
      BY <1>3, <2>5 DEF Starts
    <3>2. \A m \in Token \ {n} : to[m] = tree[m]
      BY <1>0, <2>4, <2>5, <3>1
    <3>3. Sound(to) /\ Rotates(to, tree)
      BY <1>0, <3>1, <3>2 DEF Sound, Rotates, DistinctDigests, FreshDigest
    <3>4. QED
      BY <1>0, <1>1, <2>1, <2>2, <2>4, <2>5, <3>3
      DEF TokensSound, Sound, Rotates, SameTokens
  <2>6. CASE op = "delete"
    <3>1. \A m \in Token : to[m] = tree[m] \/ to[m] = None
      BY <1>0, <1>3, <2>4, <2>6 DEF Starts
    <3>2. Sound(to) /\ Rotates(to, tree)
      BY <1>0, <3>1 DEF Sound, Rotates, DistinctDigests
    <3>3. QED
      BY <1>0, <1>1, <2>1, <2>2, <2>4, <2>6, <3>2
      DEF TokensSound, Sound, Rotates, SameTokens
  <2>7. CASE op \notin {"token", "delete"}
    <3>1. Sound(job.keep)' /\ SameTokens(tree, tree)
      BY <1>1, <1>0, <2>1 DEF Sound, SameTokens
    <3>2. QED
      BY <1>0, <1>1, <2>1, <2>2, <2>3, <2>7, <3>1 DEF TokensSound
  <2>8. QED
    BY <2>5, <2>6, <2>7
<1>4. QED
  BY <1>2, <1>3, OperationShape

\* A digest that an acknowledged rotation or deletion took away is in no tree a
\* reader can load and not at HEAD, whatever is reverted or restored afterwards
\* (preservedOnRevert, writeDirs).
THEOREM RotationsRevoke == ASSUME Unraced PROVE Spec => []RotationRevokes
<1> DEFINE I == TypeOK /\ Steady /\ Cautious
<1>1. Init => TokensSound
  <2> SUFFICES ASSUME Init PROVE TokensSound
    OBVIOUS
  <2>1. job.phase = "idle" /\ tree = HeadTree /\ revoked = {} /\ tree = First[Len(First)]
    BY DEF Init, NoJob, HeadTree
  <2>2. Sound(tree)
    BY <2>1, ConfigStoreAssumption DEF Sound
  <2>3. QED
    BY <2>1, <2>2 DEF TokensSound, Idle
<1>2. I /\ TokensSound /\ [Next]_vars => TokensSound'
  <2> SUFFICES ASSUME TypeOK, Steady, Cautious, TokensSound, [Next]_vars PROVE TokensSound'
    OBVIOUS
  <2>1. CASE UNCHANGED vars
    BY <2>1
    DEF vars, TokensSound, Sound, SameTokens, Rotates, Idle, HeadTree
  <2>2. QED
    BY <2>1, SoundOperation, SoundStep DEF Next
<1>3. TokensSound => RotationRevokes
  BY DEF TokensSound, Sound, RotationRevokes
<1>4. Uncancelled
  BY DEF Unraced
<1>5. Spec => []I
  BY <1>4, CautiousThroughout
<1>6. QED
  BY <1>1, <1>2, <1>3, <1>5, PTL DEF Spec

----------------------------------------------------------------------------
(* The store implements AtomicStore: every step is a step or a stutter.    *)

\* An operation is pending exactly while it holds the lock.
Answering == job.res = "pending" <=> ~Idle

\* One step of the store, seen by its readers and callers.
Mapped == (Atomic!AtomicNext \/ UNCHANGED Atomic!atomicVars) /\ Answering'

\* A phase that goes on is invisible to them.
LEMMA AtomicOn ==
    ASSUME job.phase \notin {"idle", "head"}, job'.phase \notin {"idle", "head"}, Answering,
           job'.op = job.op, job'.keep = job.keep, job'.res = job.res, Promised' = Promised,
           log' = log
    PROVE  Mapped
<1>1. Seen' = Seen /\ Published' = Published
  BY DEF Seen, Published, Idle
<1>2. Answering'
  BY DEF Answering, Idle
<1>3. QED
  BY <1>1, <1>2 DEF Mapped, Atomic!atomicVars

\* An operation that fails before it has committed.
LEMMA AtomicFail ==
    ASSUME TypeOK, Steady, Answering, job.phase \notin {"idle", "head"}, job.live,
           Finish("error"), log' = log, Restorable(tree'),
           \/ job.op = "apply" /\ tree' = job.keep
           \/ job.op \in {"revert", "revertObject"} /\ tree' = log[job.head]
           \/ job.op = "restore" /\ tree' \in {log[job.head], Promised}
           \/ /\ job.op \notin {"apply", "revert", "revertObject", "restore"}
              /\ tree' \in {job.keep, Promised}
    PROVE  Mapped
<1>1. /\ job'.phase = "idle" /\ job'.res = "error" /\ job'.op = job.op /\ Promised' = Promised
  BY FinishFields
<1>2. /\ Seen = job.keep /\ Seen' = tree' /\ Published = log /\ Published' = log
      /\ job.res = "pending"
  BY <1>1 DEF Seen, Published, Idle, Answering
<1>3. Len(log) = job.head
  BY DEF Steady, HeadOfPhase
<1>4. Atomic!Newest = log[job.head]
  BY <1>2, <1>3 DEF Atomic!Newest
<1>5. Seen' \in Atomic!Left
  BY <1>2, <1>4 DEF Atomic!Left
<1>6. Atomic!FailAtomically
  BY <1>1, <1>2, <1>5 DEF Atomic!FailAtomically
<1>7. QED
  BY <1>1, <1>6 DEF Mapped, Answering, Idle, Atomic!AtomicNext

\* A history without the commit that was just appended.
LEMMA Unappended ==
    ASSUME NEW S, NEW s \in Seq(S), NEW e \in S
    PROVE  SubSeq(Append(s, e), 1, Len(s)) = s
OBVIOUS

\* A history that grew by one is the one before with its last commit.
LEMMA Reappended ==
    ASSUME NEW S, NEW s \in Seq(S), NEW n \in Nat, Len(s) = n + 1
    PROVE  /\ SubSeq(s, 1, n) \in Seq(S)
           /\ Append(SubSeq(s, 1, n), s[n + 1]) = s
OBVIOUS

\* The start of an operation, and a read.
LEMMA OperationAtomic ==
    ASSUME TypeOK, Answering, Operation
    PROVE  Mapped
<1>1. /\ Idle /\ UNCHANGED <<tree, log>>
      /\ \/ job' = job
         \/ AnsweredAsIs
         \/ \E op, phase, to, todo : Begin(op, phase, to, todo) /\ Starts(op, phase, to, todo)
  BY OperationShape
<1>2. Seen = tree /\ Published = log /\ job.res # "pending"
  BY <1>1 DEF Seen, Published, Idle, Answering
<1>3. CASE job' = job
  <2>1. Seen' = Seen /\ Published' = Published /\ Promised' = Promised /\ job'.op = job.op
        /\ job'.res = job.res /\ Answering'
    BY <1>1, <1>3 DEF Seen, Published, Promised, Answering, Idle
  <2>2. QED
    BY <2>1 DEF Mapped, Atomic!atomicVars
<1>4. CASE AnsweredAsIs
  <2>1. Seen' = tree /\ Published' = log /\ job'.res = "unchanged" /\ Answering'
    BY <1>1, <1>4 DEF AnsweredAsIs, Seen, Published, Answering, Idle
  <2>2. Promised' = tree
    BY <1>4 DEF AnsweredAsIs, Promised
  <2>3. Atomic!Newest = tree
    BY <1>2, <1>4 DEF AnsweredAsIs, IsClean, HeadTree, Atomic!Newest
  <2>4. Atomic!ConfirmAtOnce
    BY <1>2, <2>1, <2>2, <2>3 DEF Atomic!ConfirmAtOnce
  <2>5. QED
    BY <2>1, <2>4 DEF Mapped, Atomic!AtomicNext
<1>5. CASE \E op, phase, to, todo : Begin(op, phase, to, todo) /\ Starts(op, phase, to, todo)
  <2>1. PICK op, phase, to, todo : Begin(op, phase, to, todo) /\ Starts(op, phase, to, todo)
    BY <1>5
  <2>2. job'.phase = phase /\ job'.keep = tree /\ job'.res = "pending"
    BY <2>1 DEF Begin
  <2>3. phase \notin {"idle", "head"}
    BY <2>1 DEF Starts
  <2>4. Seen' = tree /\ Published' = log /\ Answering'
    BY <1>1, <2>2, <2>3 DEF Seen, Published, Answering, Idle
  <2>5. Atomic!Ask
    BY <1>2, <2>2, <2>4 DEF Atomic!Ask
  <2>6. QED
    BY <2>4, <2>5 DEF Mapped, Atomic!AtomicNext
<1>6. QED
  BY <1>1, <1>3, <1>4, <1>5

\* The steps of the operation that holds the lock.
LEMMA StepAtomic ==
    ASSUME Reliable, IInv, Steady, Answering, Step, IInv'
    PROVE  Mapped
<1>t. /\ TypeOK /\ tree \in Tree /\ job \in Jobs /\ log \in Seq(Tree) /\ job.live
      /\ job.head \in 1..Len(log) /\ Restorable(log[job.head])
  BY ConfigStoreAssumption DEF IInv, TypeOK, Jobs, GoodPhase, GoodHistory
<1>p. job'.phase = "idle" => Restorable(tree')
  BY DEF IInv, GoodPhase
<1>g. ASSUME NEW phase, phase \notin {"idle", "head"}, Goto(phase),
             job.phase \notin {"idle", "head"}, log' = log
      PROVE  Mapped
  BY <1>t, <1>g, GotoFields, AtomicOn
<1>1. ASSUME NEW p \in Path, WriteFile(p) PROVE Mapped
  <2>1. /\ job'.op = job.op /\ job'.to = job.to /\ job'.keep = job.keep /\ job'.res = job.res
        /\ job.phase = "write" /\ job'.phase \in {"write", "preserve", "commit"} /\ log' = log
    BY <1>1, <1>t DEF WriteFile, Jobs
  <2>2. Promised' = Promised
    BY <2>1 DEF Promised
  <2>3. QED
    BY <2>1, <2>2, AtomicOn
<1>2. CASE WriteFails
  <2>1. log' = log /\ job.phase \in {"write", "preserve"} /\ job.op # "batch"
    BY <1>2 DEF WriteFails, IInv, PhaseOfOp, Reliable
  <2>2. CASE job.op \in {"restore", "revert"}
    BY <1>2, <1>g, <2>1, <2>2 DEF WriteFails
  <2>3. CASE job.op = "apply"
    <3>1. Finish("error") /\ tree' = job.keep
      BY <1>2, <2>3 DEF WriteFails
    <3>2. job'.phase = "idle"
      BY <1>t, <3>1, FinishFields
    <3>3. QED
      BY <1>t, <1>p, <2>1, <2>3, <3>1, <3>2, AtomicFail
  <2>4. CASE job.op \notin {"apply", "restore", "revert"}
    <3>1. Finish("error") /\ tree' = tree
      BY <1>2, <2>4 DEF WriteFails
    <3>2. job.op \in SingleFile /\ job.phase = "write"
      BY <2>1, <2>4 DEF IInv, PhaseOfOp
    <3>3. tree = job.keep
      BY <3>2 DEF IInv, GoodPhase, SingleFile
    <3>4. job'.phase = "idle"
      BY <1>t, <3>1, FinishFields
    <3>5. QED
      BY <1>t, <1>p, <2>1, <3>1, <3>2, <3>3, <3>4, AtomicFail DEF SingleFile
  <2>5. QED
    BY <2>2, <2>3, <2>4
<1>3. CASE WipeConfig \/ ReadTree \/ CleanTree \/ CheckoutPath \/ PreserveTokens
  BY <1>3, <1>g DEF WipeConfig, ReadTree, CleanTree, CheckoutPath, PreserveTokens
<1>4. CASE CheckRestored
  BY <1>4, <1>g DEF CheckRestored
<1>5. CASE RestoreFails \/ Cancel \/ Crash
  BY <1>5, <1>t DEF RestoreFails, Cancel, Crash, Reliable
<1>6. CASE Undo
  <2>1. Finish("error") /\ tree' = log[job.head] /\ log' = log /\ job.phase = "undo"
    BY <1>6, <1>t DEF Undo
  <2>2. job.op \in {"restore", "revert", "revertObject"}
    BY <2>1 DEF Steady, OpOfPhase
  <2>3. QED
    BY <1>t, <2>1, <2>2, AtomicFail
<1>7. CASE Commit /\ IsClean
  <2>1. Finish("unchanged") /\ job.phase = "commit" /\ UNCHANGED <<tree, log>>
    BY <1>7 DEF Commit
  <2>2. /\ job'.phase = "idle" /\ job'.res = "unchanged" /\ job'.op = job.op /\ Promised' = Promised
    BY <1>t, <2>1, FinishFields
  <2>3. Seen' = tree /\ Published = log /\ Published' = log /\ job.res = "pending" /\ Answering'
    BY <2>1, <2>2 DEF Seen, Published, Answering, Idle
  <2>4. tree = Promised /\ Atomic!Newest = tree
    BY <1>7, <2>1, <2>3 DEF Steady, Written, IsClean, HeadTree, Atomic!Newest
  <2>5. Atomic!Confirm
    BY <2>2, <2>3, <2>4 DEF Atomic!Confirm
  <2>6. QED
    BY <2>3, <2>5 DEF Mapped, Atomic!AtomicNext
<1>8. CASE Commit /\ ~IsClean
  <2>1. Goto("head") /\ job.phase = "commit" /\ log' = Append(log, tree) /\ tree' = tree
    BY <1>8 DEF Commit
  <2>2. /\ job'.phase = "head" /\ job'.res = job.res /\ job'.op = job.op /\ Promised' = Promised
        /\ job'.keep = job.keep /\ job'.head = job.head
    BY <1>t, <2>1, GotoFields
  <2>3. Len(log) = job.head
    BY <2>1 DEF Steady, HeadOfPhase
  <2>4. Published' = log /\ Published = log
    BY <1>t, <2>1, <2>2, <2>3, Unappended DEF Published
  <2>5. Seen' = Seen /\ Answering'
    BY <2>1, <2>2 DEF Seen, Idle, Answering
  <2>6. QED
    BY <2>2, <2>4, <2>5 DEF Mapped, Atomic!atomicVars
<1>9. CASE ReadHead
  <2>1. Finish("ok") /\ job.phase = "head" /\ UNCHANGED <<tree, log>>
    BY <1>9 DEF ReadHead
  <2>2. /\ job'.phase = "idle" /\ job'.res = "ok" /\ job'.op = job.op /\ Promised' = Promised
    BY <1>t, <2>1, FinishFields
  <2>3. Seen' = tree /\ Published' = log /\ job.res = "pending" /\ Answering'
    BY <2>1, <2>2 DEF Seen, Published, Answering, Idle
  <2>4. /\ tree = Promised /\ Len(log) = job.head + 1 /\ log[Len(log)] = tree
    BY <2>1 DEF Steady, Written, HeadOfPhase, IsClean, HeadTree
  <2>5. Published = SubSeq(log, 1, job.head) /\ job.head \in Nat
    BY <1>t, <2>1 DEF Published, Jobs
  <2>6. log = Append(Published, Promised)
    BY <1>t, <2>4, <2>5, Reappended
  <2>7. Restorable(Promised)
    BY <1>p, <2>1, <2>2, <2>4
  <2>8. Atomic!Succeed
    BY <2>1, <2>2, <2>3, <2>4, <2>6, <2>7 DEF Atomic!Succeed
  <2>9. QED
    BY <2>3, <2>8 DEF Mapped, Atomic!AtomicNext
<1>10. CASE CommitFails
  <2>1. job.phase = "commit" /\ log' = log /\ tree = Promised
    BY <1>10, <1>t DEF CommitFails, Steady, Written
  <2>2. CASE job.op \in {"revert", "revertObject"}
    BY <1>10, <1>g, <2>1, <2>2 DEF CommitFails
  <2>3. CASE job.op \notin {"revert", "revertObject"}
    <3>1. /\ Finish("error")
          /\ IF job.op = "apply" THEN tree' = job.keep ELSE tree' = tree
      BY <1>10, <2>3 DEF CommitFails
    <3>2. job'.phase = "idle"
      BY <1>t, <3>1, FinishFields
    <3>3. QED
      BY <1>t, <1>p, <2>1, <2>3, <3>1, <3>2, AtomicFail
  <2>4. QED
    BY <2>2, <2>3
<1>11. QED
  BY <1>1, <1>2, <1>3, <1>4, <1>5, <1>6, <1>7, <1>8, <1>9, <1>10 DEF Step

\* While no request is cancelled and the process lives, every operation of the
\* store is one step to its readers and callers, whichever of its commits fails
\* and, without SaveBatch, whichever of its files cannot be written: the store
\* implements AtomicStore.
THEOREM StoreIsAtomic == ASSUME Reliable PROVE Spec => OperationsAtomic
<1>1. Init => Atomic!AtomicInit /\ Answering
  <2>1. SUFFICES ASSUME Init PROVE Atomic!AtomicInit /\ Answering
    OBVIOUS
  <2>2. /\ Idle /\ job.op = "none" /\ job.res = "ok" /\ log = First /\ job.phase = "idle"
        /\ tree = First[Len(First)] /\ job.to = First[Len(First)]
    BY <2>1 DEF Init, NoJob, Idle
  <2>3. Seen = tree /\ Published = First /\ Promised = tree
    BY <2>2 DEF Seen, Published, Promised
  <2>4. QED
    BY <2>2, <2>3 DEF Atomic!AtomicInit, Atomic!Newest, Answering
<1>2. IInv /\ Steady /\ Answering /\ [Next]_vars /\ IInv' =>
          [Atomic!AtomicNext]_Atomic!atomicVars /\ Answering'
  <2>1. SUFFICES ASSUME IInv, Steady, Answering, [Next]_vars, IInv' PROVE Mapped
    BY DEF Mapped
  <2>2. CASE Operation
    BY <2>1, <2>2, OperationAtomic DEF IInv
  <2>3. CASE Step
    BY <2>1, <2>3, StepAtomic
  <2>4. CASE UNCHANGED vars
    <3>1. /\ Seen' = Seen /\ Published' = Published /\ Promised' = Promised
          /\ job' = job /\ Answering'
      BY <2>1, <2>4 DEF vars, Seen, Published, Promised, Answering, Idle
    <3>2. QED
      BY <3>1 DEF Mapped, Atomic!atomicVars
  <2>5. QED
    BY <2>1, <2>2, <2>3, <2>4 DEF Next
<1>3. QED
  BY <1>1, <1>2, Invariant, SteadyThroughout, PTL
  DEF Spec, OperationsAtomic, Atomic!AtomicSpec

=============================================================================
