---------------------------- MODULE ConfigStore ----------------------------
(***************************************************************************)
(* The git-backed configuration store (internal/store).                    *)
(*                                                                         *)
(* The store is a working tree of YAML files plus a linear git history.    *)
(* Every operation takes the store's write lock, so two operations never   *)
(* interleave; inside one operation the state changes file by file and git *)
(* command by git command, and a failed write, a failed or cancelled git   *)
(* command or a crash can stop it between any two of them.  Readers hold   *)
(* the read lock: they see the tree only between operations.               *)
(*                                                                         *)
(* Callers that read first and write later (the DNS reconciler with its    *)
(* ledger, discovery with its plan, the API token editor with the stored   *)
(* digest) hold what they read outside the lock: held, plan and edit.      *)
(***************************************************************************)
EXTENDS Naturals, Sequences

CONSTANTS
    Name,       \* the stored objects (kind and name), API tokens included
    Token,      \* the API tokens: what preservedOnRevert keeps
    Settings,   \* the singleton settings.yaml
    Defaults,   \* model.DefaultSettings
    Ledger,     \* the singleton dns-ledger.yaml, written by a reconciler
    Blob,       \* file contents, reduced to what the store's gates read
    Vals,       \* the contents a writer may offer for each path
    None,       \* no file; nothing held
    Batches,    \* the upsert batches writers offer: functions Name -> Blob
    First,      \* the git history at start, oldest first
    Ops,        \* the operations that may run
    Faults,     \* the faults that may happen
    MaxCommits  \* bound: no operation starts once the history is this long

Path == Name \cup {Settings, Ledger}
Tree == [Path -> Blob \cup {None}]

OpKinds == {"save", "create", "delete", "token", "edit", "batch", "apply",
            "revert", "revertObject", "settings", "ledger", "restore"}
FaultKinds == {"write", "commit", "cancel", "crash"}

VARIABLES
    tree,     \* the working tree
    log,      \* the commits, oldest first: HEAD is the last one
    job,      \* the operation holding the lock; when idle, the last one
    held,     \* the DNS reconciler's ledger read: None or [rev, led]
    plan,     \* discovery's plan: None or [up, del]
    edit,     \* a token editor's read: None or [tok, digest]
    revoked   \* history: the digests rotated or deleted away, acknowledged

vars == <<tree, log, job, held, plan, edit, revoked>>
clients == <<held, plan, edit>>

----------------------------------------------------------------------------
(* What the gates compute from a tree.                                     *)

Present(t) == {n \in Name : t[n] # None}

\* Config.Validate: every reference resolves, no two hosts claim a domain.
Validates(t) ==
    /\ \A n \in Present(t) : t[n].refs \subseteq Present(t)
    /\ \A m, n \in Present(t) : m # n => t[m].claims \cap t[n].claims = {}

\* checkAdminEdge: what the admin front door names exists, and no stored host
\* claims its hostname.
EdgeOK(t) ==
    t[Settings] # None =>
        /\ t[Settings].refs \subseteq Present(t)
        /\ \A n \in Present(t) : t[Settings].claims \cap t[n].claims = {}

\* AdminAuthSettings.ValidateRefs: with ssoOnly, every provider exists.
LoginOK(t) == t[Settings] # None => t[Settings].login \subseteq Present(t)

\* checkGeoAvailable and LiteralSecrets over the objects.
CleanObjects(t) == \A n \in Present(t) : ~t[n].tainted
CleanSettings(t) == t[Settings] # None => ~t[Settings].tainted

\* What Revert, RevertObject and Restore check of the tree they installed.
Restorable(t) ==
    Validates(t) /\ EdgeOK(t) /\ CleanObjects(t) /\ CleanSettings(t)

HeadTree == log[Len(log)]
IsClean == tree = HeadTree

Idle == job.phase = "idle"

----------------------------------------------------------------------------
(* Starting and finishing an operation.                                    *)

NoJob == [op |-> "none", phase |-> "idle", to |-> First[Len(First)],
          todo |-> {}, keep |-> First[Len(First)], head |-> Len(First),
          live |-> TRUE, res |-> "ok"]

Init ==
    /\ tree = First[Len(First)]
    /\ log = First
    /\ job = NoJob
    /\ held = None /\ plan = None /\ edit = None
    /\ revoked = {}

\* s.mu.Lock and s.git.Head: the operation will bring the paths in todo to
\* their value in the tree to.
Begin(op, phase, to, todo) ==
    /\ Idle
    /\ op \in Ops
    /\ Len(log) < MaxCommits
    /\ job' = [op |-> op, phase |-> phase, to |-> to, todo |-> todo,
               keep |-> tree, head |-> Len(log), live |-> TRUE,
               res |-> "pending"]
    /\ UNCHANGED <<tree, log, revoked>>

\* Digests an acknowledged operation replaced or removed.
Withdrawn ==
    IF job.op \in {"token", "edit", "delete"}
    THEN {job.keep[n].digest : n \in
            {m \in Token : /\ job.keep[m] # None
                           /\ \/ job.to[m] = None
                              \/ job.to[m].digest # job.keep[m].digest}}
    ELSE {}

\* The operation returns and the lock is released.
Finish(res) ==
    /\ job' = [job EXCEPT !.phase = "idle", !.todo = {}, !.res = res]
    /\ revoked' = IF res = "ok" THEN revoked \cup Withdrawn ELSE revoked

Goto(phase) ==
    /\ job' = [job EXCEPT !.phase = phase]
    /\ UNCHANGED revoked

----------------------------------------------------------------------------
(* The operations, up to their first write.  An operation that is refused  *)
(* changes nothing and is no step.                                         *)

\* prepareSaveLocked: the gates Save and Create share, for b stored at n.
SaveGate(n, b) ==
    LET t == [tree EXCEPT ![n] = b]
    IN  /\ Validates(tree)
        /\ Validates(t) /\ EdgeOK(t) /\ CleanObjects(t)

\* Mutant: the file is compared, the working tree is not.
SaveUnchangedDirty(op, n, b) ==
    /\ Idle /\ op \in Ops
    /\ SaveGate(n, b)
    /\ tree[n] = b
    /\ job' = [job EXCEPT !.op = op, !.to = [tree EXCEPT ![n] = b],
                          !.keep = tree, !.head = Len(log),
                          !.res = "unchanged"]
    /\ UNCHANGED <<tree, log, revoked>>

\* Nothing would change and the tree is what HEAD holds: answered without a
\* write.
SaveUnchanged(op, n, b) ==
    /\ Idle /\ op \in Ops
    /\ SaveGate(n, b)
    /\ tree[n] = b /\ IsClean
    /\ job' = [job EXCEPT !.op = op, !.to = [tree EXCEPT ![n] = b],
                          !.keep = tree, !.head = Len(log),
                          !.res = "unchanged"]
    /\ UNCHANGED <<tree, log, revoked>>

SaveWrite(op, n, b) ==
    /\ SaveGate(n, b)
    /\ ~(tree[n] = b /\ IsClean)
    /\ Begin(op, "write", [tree EXCEPT ![n] = b], {n})

Save(n, b) ==
    /\ SaveUnchanged("save", n, b) \/ SaveWrite("save", n, b)
    /\ UNCHANGED clients

Create(n, b) ==
    /\ tree[n] = None
    /\ SaveWrite("create", n, b)
    /\ UNCHANGED clients

\* A digest no tree, past or present, has held: mintTokenSecret draws it.
FreshDigest(d) ==
    /\ d \notin revoked
    /\ \A n \in Token : tree[n] # None => tree[n].digest # d
    /\ \A i \in 1..Len(log), n \in Token : log[i][n] # None => log[i][n].digest # d
    /\ edit # None => edit.digest # d

\* PUT of a token that is new, or with ?rotate=1: the secret is minted and
\* what beforeSave loaded does not matter.
MintToken(n, b) ==
    /\ FreshDigest(b.digest)
    /\ SaveWrite("token", n, b)
    /\ UNCHANGED clients

\* PUT of a token that exists, no rotation: beforeSave reads the stored digest
\* under the read lock ...
ReadTokenForEdit(n) ==
    /\ Idle /\ "edit" \in Ops /\ edit = None
    /\ Validates(tree) /\ tree[n] # None
    /\ edit' = [tok |-> n, digest |-> tree[n].digest]
    /\ UNCHANGED <<tree, log, job, held, plan, revoked>>

\* ... and Save writes it back later, with the edited fields.
SaveTokenEdit(b) ==
    /\ edit # None
    /\ b.digest = edit.digest
    /\ SaveUnchanged("edit", edit.tok, b) \/ SaveWrite("edit", edit.tok, b)
    /\ edit' = None
    /\ UNCHANGED <<held, plan>>

\* Mutant: the graph without the object is not validated.
DeleteUnchecked(n) ==
    /\ tree[n] # None /\ Validates(tree)
    /\ Begin("delete", "write", [tree EXCEPT ![n] = None], {n})
    /\ UNCHANGED clients

Delete(n) ==
    LET t == [tree EXCEPT ![n] = None]
    IN  /\ tree[n] # None
        /\ Validates(tree)
        /\ Validates(t) /\ EdgeOK(t)
        /\ Begin("delete", "write", t, {n})
        /\ UNCHANGED clients

Merge(t, up, del) ==
    [p \in Path |-> IF p \in del THEN None
                    ELSE IF p \in DOMAIN up THEN up[p] ELSE t[p]]

SaveBatch(up) ==
    LET t == Merge(tree, up, {})
    IN  /\ Validates(tree)
        /\ Validates(t) /\ EdgeOK(t) /\ CleanObjects(t)
        /\ Begin("batch", "write", t, DOMAIN up)
        /\ UNCHANGED clients

\* Discovery plans from what it loads before it lists its source: managed
\* hosts only, the stored disabled flag carried forward.
PlanDiscovery(up, del) ==
    /\ Idle /\ "apply" \in Ops /\ plan = None
    /\ Validates(tree)
    /\ \A n \in DOMAIN up :
          /\ up[n].managed
          /\ tree[n] # None => tree[n].managed /\ up[n] # tree[n]
          /\ up[n].off = (tree[n] # None /\ tree[n].off)
    /\ \A n \in del : tree[n] # None /\ tree[n].managed /\ n \notin DOMAIN up
    /\ plan' = [up |-> up, del |-> del]
    /\ UNCHANGED <<tree, log, job, held, edit, revoked>>

\* Mutant: no guard is passed to ApplyBatch.
NoGuard(n) == TRUE

\* ApplyBatch's guard, asked under the lock: the object is still discovery's.
Guard(n) == tree[n].managed
PlannedUpserts ==
    {n \in DOMAIN plan.up : tree[n] # None => ~tree[n].newer /\ Guard(n)}
PlannedRemovals ==
    {n \in plan.del : tree[n] # None /\ Guard(n)}

ApplyBatch ==
    LET up == [n \in PlannedUpserts |-> plan.up[n]]
        t  == Merge(tree, up, PlannedRemovals)
        todo == PlannedUpserts \cup PlannedRemovals
        gate == /\ Validates(tree) /\ todo # {}
                /\ Validates(t) /\ EdgeOK(t) /\ CleanObjects(t)
    IN  /\ Idle /\ plan # None
        /\ \/ gate /\ Begin("apply", "write", t, todo)
           \/ ~gate /\ UNCHANGED <<tree, log, job, revoked>>
        /\ plan' = None
        /\ UNCHANGED <<held, edit>>

Revert(i) ==
    /\ Begin("revert", "readTree", log[i], {})
    /\ UNCHANGED clients

RevertObject(n, i) ==
    /\ n \notin Token
    /\ log[i][n] # None
    /\ Begin("revertObject", "checkout", [tree EXCEPT ![n] = log[i][n]], {n})
    /\ UNCHANGED clients

SaveSettings(b) ==
    LET t == [tree EXCEPT ![Settings] = b]
    IN  /\ Validates(tree)
        /\ LoginOK(t) /\ EdgeOK(t) /\ ~b.tainted
        /\ Begin("settings", "write", t, {Settings})
        /\ UNCHANGED clients

LoadDNSLedger ==
    /\ Idle /\ "ledger" \in Ops /\ held = None
    /\ held' = [rev |-> Len(log), led |-> tree[Ledger]]
    /\ UNCHANGED <<tree, log, job, plan, edit, revoked>>

\* Mutant: the revision the ledger was read at is ignored.
SaveDNSLedgerBlind(b) ==
    /\ Idle /\ held # None
    /\ Begin("ledger", "write", [tree EXCEPT ![Ledger] = b], {Ledger})
    /\ held' = None
    /\ UNCHANGED <<plan, edit>>

\* Refused as stale when HEAD moved since the read; the tree is not loaded and
\* not validated.
SaveDNSLedger(b) ==
    /\ Idle /\ held # None
    /\ \/ /\ held.rev = Len(log)
          /\ Begin("ledger", "write", [tree EXCEPT ![Ledger] = b], {Ledger})
       \/ /\ held.rev # Len(log)
          /\ UNCHANGED <<tree, log, job, revoked>>
    /\ held' = None
    /\ UNCHANGED <<plan, edit>>

\* Restore of an archive exported at commit i: every config file is removed
\* and the archive's are written; the ledger is not part of an archive.
Restore(i) ==
    LET to == [log[i] EXCEPT ![Ledger] = tree[Ledger]]
        todo == {p \in Path \ {Ledger} : to[p] # None}
    IN  /\ todo # {}
        /\ Begin("restore", "wipe", to, todo)
        /\ UNCHANGED clients

----------------------------------------------------------------------------
(* The steps of the operation that holds the lock.                         *)

\* Which file comes next: ApplyBatch writes before it removes, and the one
\* caller of SaveBatch lists what a host refers to before the host.
InOrder(p) ==
    /\ job.to[p] = None => \A q \in job.todo : job.to[q] = None
    /\ job.op = "batch" => job.to[p].refs \cap job.todo = {}

\* writeYAML or os.Remove of one file.
WriteFile(p) ==
    LET rest == job.todo \ {p}
        next == IF job.op = "restore" THEN "preserve" ELSE "commit"
    IN  /\ job.phase = "write" /\ p \in job.todo
        /\ InOrder(p)
        /\ tree' = [tree EXCEPT ![p] = job.to[p]]
        /\ job' = [job EXCEPT !.todo = rest,
                              !.phase = IF rest = {} THEN next ELSE "write"]
        /\ UNCHANGED <<log, revoked, clients>>

\* Mutant: ApplyBatch returns the error without restoring its snapshots.
WriteFailsNoRollback ==
    /\ "write" \in Faults /\ job.phase \in {"write", "preserve"}
    /\ Finish("error")
    /\ UNCHANGED <<tree, log, clients>>

\* The write fails: ApplyBatch puts its snapshots back, Restore goes back to
\* HEAD, every other operation just returns.
WriteFails ==
    /\ "write" \in Faults /\ job.phase \in {"write", "preserve"}
    /\ \/ job.op = "apply" /\ tree' = job.keep /\ Finish("error")
       \/ job.op \in {"restore", "revert"} /\ Goto("undo") /\ UNCHANGED tree
       \/ /\ job.op \notin {"apply", "restore", "revert"}
          /\ Finish("error") /\ UNCHANGED tree
    /\ UNCHANGED <<log, clients>>

\* The first half of replaceConfigFiles.
WipeConfig ==
    /\ job.phase = "wipe"
    /\ tree' = [p \in Path |-> IF p = Ledger THEN tree[p] ELSE None]
    /\ Goto("write")
    /\ UNCHANGED <<log, clients>>

\* git read-tree --reset -u: the tracked files become the target's; a file git
\* never tracked stays until git clean.
ReadTree ==
    /\ job.phase = "readTree" /\ job.live
    /\ tree' = [p \in Path |-> IF job.to[p] = None /\ HeadTree[p] = None
                               THEN tree[p] ELSE job.to[p]]
    /\ Goto("clean")
    /\ UNCHANGED <<log, clients>>

\* git clean -fd
CleanTree ==
    /\ job.phase = "clean" /\ job.live
    /\ tree' = job.to
    /\ Goto("preserve")
    /\ UNCHANGED <<log, clients>>

\* git checkout <hash> -- <file>
CheckoutPath ==
    /\ job.phase = "checkout" /\ job.live
    /\ tree' = [p \in Path |-> IF p \in job.todo THEN job.to[p] ELSE tree[p]]
    /\ Goto("check")
    /\ UNCHANGED <<log, clients>>

\* A cancelled request fails the restore command: the operation returns at
\* once, whatever the command before it has already changed.
RestoreFails ==
    /\ job.phase \in {"readTree", "clean", "checkout"} /\ ~job.live
    /\ Finish("error")
    /\ UNCHANGED <<tree, log, clients>>

\* Mutant: the snapshot of the api-tokens directory is not written back.
PreserveNothing ==
    /\ job.phase = "preserve"
    /\ Goto("check")
    /\ UNCHANGED <<tree, log, clients>>

\* writeDirs: the api-tokens directory becomes what it was before.
PreserveTokens ==
    /\ job.phase = "preserve"
    /\ tree' = [p \in Path |-> IF p \in Token THEN job.keep[p] ELSE tree[p]]
    /\ Goto("check")
    /\ UNCHANGED <<log, clients>>

\* The restored tree is loaded and gated before it is committed.
CheckRestored ==
    /\ job.phase = "check"
    /\ Goto(IF Restorable(tree) THEN "commit" ELSE "undo")
    /\ UNCHANGED <<tree, log, clients>>

\* Mutant: a refused tree is left in place.
UndoSkipped ==
    /\ job.phase = "undo"
    /\ Finish("error")
    /\ UNCHANGED <<tree, log, clients>>

\* The rollback git read-tree to the HEAD the operation started from, with the
\* same context; its error is ignored.
Undo ==
    /\ job.phase = "undo"
    /\ tree' = IF job.live THEN log[job.head] ELSE tree
    /\ Finish("error")
    /\ UNCHANGED <<log, clients>>

\* CommitAll: add -A, and a commit unless the tree is clean.
Commit ==
    /\ job.phase = "commit" /\ job.live
    /\ IF IsClean
       THEN Finish("unchanged") /\ UNCHANGED log
       ELSE log' = Append(log, tree) /\ Goto("head")
    /\ UNCHANGED <<tree, clients>>

\* The closing git rev-parse HEAD that reads the hash to return.
ReadHead ==
    /\ job.phase = "head" /\ job.live
    /\ Finish("ok")
    /\ UNCHANGED <<tree, log, clients>>

\* Mutant: a failed commit returns at once, whatever the operation.
CommitFailsNoUndo ==
    /\ job.phase = "commit" /\ (~job.live \/ "commit" \in Faults)
    /\ Finish("error")
    /\ UNCHANGED <<tree, log, clients>>

\* CommitAll returns an error: the commit failed, or the request was cancelled
\* before the commit or between it and rev-parse.
CommitFails ==
    /\ \/ job.phase = "commit" /\ (~job.live \/ "commit" \in Faults)
       \/ job.phase = "head" /\ ~job.live
    /\ \/ job.op = "apply" /\ tree' = job.keep /\ Finish("error")
       \/ job.op \in {"revert", "revertObject"} /\ Goto("undo") /\ UNCHANGED tree
       \/ /\ job.op \notin {"apply", "revert", "revertObject"}
          /\ Finish("error") /\ UNCHANGED tree
    /\ UNCHANGED <<log, clients>>

\* The request's context ends.  The ledger is saved with a context that cannot
\* be cancelled.
Cancel ==
    /\ "cancel" \in Faults /\ ~Idle /\ job.live
    /\ job.op # "ledger"
    /\ job' = [job EXCEPT !.live = FALSE]
    /\ UNCHANGED <<tree, log, revoked, clients>>

\* The process dies and restarts: the tree is as the last step left it, except
\* that Store.Init seeds missing settings, and what callers had read is gone.
Crash ==
    /\ "crash" \in Faults /\ ~Idle
    /\ Finish("crashed")
    /\ held' = None /\ plan' = None /\ edit' = None
    /\ tree' = IF tree[Settings] = None THEN [tree EXCEPT ![Settings] = Defaults] ELSE tree
    /\ UNCHANGED log

----------------------------------------------------------------------------

Operation ==
    \/ \E n \in Name \ Token : \E b \in Vals[n] : Save(n, b) \/ Create(n, b)
    \/ \E n \in Name : Delete(n)
    \/ \E n \in Token : \E b \in Vals[n] : MintToken(n, b)
    \/ \E n \in Token : ReadTokenForEdit(n)
    \/ \E n \in Token : \E b \in Vals[n] :
          edit # None /\ n = edit.tok /\ SaveTokenEdit(b)
    \/ \E up \in Batches : SaveBatch(up)
    \/ \E up \in Batches : \E del \in SUBSET (Name \ Token) : PlanDiscovery(up, del)
    \/ ApplyBatch
    \/ \E i \in 1..Len(log) : Revert(i)
    \/ \E n \in Name, i \in 1..Len(log) : RevertObject(n, i)
    \/ \E b \in Vals[Settings] : SaveSettings(b)
    \/ LoadDNSLedger
    \/ \E b \in Vals[Ledger] : SaveDNSLedger(b)
    \/ \E i \in 1..Len(log) : Restore(i)

Step ==
    \/ \E p \in Path : WriteFile(p)
    \/ WriteFails
    \/ WipeConfig
    \/ ReadTree \/ CleanTree \/ CheckoutPath \/ RestoreFails
    \/ PreserveTokens \/ CheckRestored \/ Undo
    \/ Commit \/ ReadHead \/ CommitFails
    \/ Cancel \/ Crash

Next == Operation \/ Step

Spec == Init /\ [][Next]_vars

----------------------------------------------------------------------------
(* Constants.                                                              *)

Contents ==
    [refs    : SUBSET Name,     \* the objects it refers to
     claims  : SUBSET STRING,   \* the domains it claims
     login   : SUBSET Name,     \* settings: the providers of an SSO-only login
     digest  : STRING,          \* API token: the stored secret's digest
     managed : BOOLEAN,         \* labelled as discovery's own
     off     : BOOLEAN,         \* disabled by the operator
     newer   : BOOLEAN,         \* has keys this version does not know
     tainted : BOOLEAN]         \* literal secret, or geo rule with no database

\* Secrets are drawn at random: no two tokens share one.
DistinctDigests(t) ==
    \A m, n \in Token : t[m] # None /\ t[n] # None /\ t[m].digest = t[n].digest => m = n

ASSUME ConfigStoreAssumption ==
    /\ Token \subseteq Name
    /\ Settings \notin Name /\ Ledger \notin Name /\ Settings # Ledger
    /\ Blob \subseteq Contents
    /\ None \notin Blob /\ Defaults \in Blob
    /\ Vals \in [Path -> SUBSET Blob]
    /\ \A up \in Batches : /\ DOMAIN up \subseteq Name \ Token
                           /\ DOMAIN up # {}
                           /\ \A n \in DOMAIN up : up[n] \in Blob
    /\ First \in Seq(Tree) /\ Len(First) > 0
    /\ First[Len(First)][Settings] # None
    /\ Restorable(First[Len(First)]) /\ LoginOK(First[Len(First)])
    /\ DistinctDigests(First[Len(First)])
    /\ Ops \subseteq OpKinds
    /\ Faults \subseteq FaultKinds
    /\ MaxCommits \in Nat

----------------------------------------------------------------------------
(* Properties.                                                             *)

Jobs ==
    [op    : OpKinds \cup {"none"},
     phase : {"idle", "write", "wipe", "readTree", "clean", "checkout",
              "preserve", "check", "undo", "commit", "head"},
     to    : Tree,
     todo  : SUBSET Path,
     keep  : Tree,
     head  : Nat \ {0},
     live  : BOOLEAN,
     res   : {"pending", "ok", "unchanged", "error", "crashed"}]

\* The store's state is well formed: a tree maps every path to a content or
\* nothing, HEAD exists, and what callers hold is what the loads return.
TypeOK ==
    /\ tree \in Tree
    /\ log \in Seq(Tree) /\ Len(log) > 0
    /\ job \in Jobs /\ job.head <= Len(log)
    /\ held # None => held \in [rev : Nat, led : Blob \cup {None}]
    /\ plan # None => /\ DOMAIN plan.up \subseteq Name \ Token
                      /\ \A n \in DOMAIN plan.up : plan.up[n] \in Blob
                      /\ plan.del \subseteq Name \ Token
    /\ edit # None => edit \in [tok : Token, digest : STRING]
    /\ revoked \subseteq STRING

\* No commit the store makes holds a dangling reference, a duplicate domain, a
\* collision with the admin front door or a refused secret, although CommitAll
\* stages the whole tree and a ledger save validates nothing: whatever an
\* earlier operation left uncommitted is swept into the next commit.
CommittedValid ==
    \A i \in 1..Len(log) : i > Len(First) => Restorable(log[i])

\* Whenever the lock is free the tree loads.  A tree that does not would fail
\* every reload, every save and the next start.
LoadableAtRest == Idle => Restorable(tree)

\* A digest that an acknowledged rotation or deletion took away authenticates
\* nobody again: it is in no tree a reader can load and not at HEAD, whatever
\* is reverted or restored afterwards.
RotationRevokes ==
    Idle => \A t \in {tree, HeadTree} : \A n \in Token :
                t[n] # None => t[n].digest \notin revoked

\* The tree an operation promises when it answers with success: the restoring
\* ones keep the API tokens of the moment they started.
Promised ==
    IF job.op \in {"revert", "restore"}
    THEN [p \in Path |-> IF p \in Token THEN job.keep[p] ELSE job.to[p]]
    ELSE job.to

\* An operation that answers with success, "no changes" included, has its
\* result in the tree and at HEAD, also when earlier operations failed half
\* way, were cancelled or died.
AnsweredMeansStored ==
    Idle /\ job.res \in {"ok", "unchanged"} => tree = Promised /\ IsClean

\* A discovery batch that reports failure leaves the tree exactly as it was,
\* whichever of its writes failed and whenever it was cancelled, and commits
\* nothing unless a shutdown came between the commit and reading its hash.
BatchAllOrNothing ==
    Idle /\ job.op = "apply" /\ job.res = "error" =>
        tree = job.keep /\ (job.live => Len(log) = job.head)

\* A revert that reports failure leaves the tree at the HEAD it started from
\* and commits nothing.
RevertAllOrNothing ==
    Idle /\ job.op \in {"revert", "revertObject"} /\ job.res = "error" =>
        tree = log[job.head] /\ Len(log) = job.head

\* A discovery write never replaces or removes an object that is not
\* discovery's at that moment, however old the plan is.
OperatorObjectsKept ==
    [][job.op = "apply" /\ job.phase = "write" /\ job'.phase # "idle" =>
          \A n \in Name : tree[n] # None /\ ~tree[n].managed => tree'[n] = tree[n]]_vars

\* A ledger save that is let through replaces the ledger its writer read, or
\* the one of the commit it read at when an uncommitted write was rolled back
\* since: what a revert or another commit did to the ledger in between is never
\* undone by it.
LedgerNotClobbered ==
    [][Idle /\ job'.op = "ledger" /\ job'.phase = "write" =>
          tree[Ledger] \in {held.led, log[held.rev][Ledger]}]_vars

\* What readers and callers know of: the tree as it was when the running
\* operation took the lock, and the history without a commit whose operation has
\* not answered yet.
Seen == IF Idle THEN tree ELSE job.keep
Published == IF job.phase = "head" THEN SubSeq(log, 1, job.head) ELSE log

Atomic == INSTANCE AtomicStore WITH
    Good <- Restorable, seen <- Seen, past <- Published,
    want <- Promised, kind <- job.op, answer <- job.res,
    Restoring <- {"apply"}, Rewinding <- {"revert", "revertObject"},
    Replacing <- {"restore"}

\* Every operation is atomic to readers and callers, however many files and git
\* commands it takes and whichever of its commits fails: it answers with success
\* and the history has gained its target, or with failure and the history has
\* gained nothing and the tree is the one it found, its target or HEAD, as its
\* kind has it.  The rest of the process may treat the store as one step.
OperationsAtomic == Atomic!AtomicSpec

=============================================================================
