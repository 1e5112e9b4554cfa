---------------------------- MODULE AtomicStore ----------------------------
(***************************************************************************)
(* What the configuration store promises its readers and callers: a reader *)
(* sees the tree an operation asked for, or the one before, or HEAD, never *)
(* anything in between; the history grows by exactly the tree of an        *)
(* operation answered with success; and what a failed operation leaves     *)
(* behind is fixed by its kind.  ConfigStore implements this specification *)
(* while no request is cancelled and the process lives.                    *)
(***************************************************************************)
EXTENDS Naturals, Sequences

CONSTANTS
    Good(_),    \* the trees that pass the gates
    First,      \* the history at start, oldest first
    Restoring,  \* operations that put back what they found when they fail
    Rewinding,  \* operations that go back to HEAD when they fail
    Replacing   \* operations that go back to HEAD or leave the whole new tree

VARIABLES
    seen,    \* the tree a reader loads
    past,    \* the history, oldest first
    want,    \* the tree the last operation was asked for
    kind,    \* which operation that was
    answer   \* "pending" while it runs, then what it answered

atomicVars == <<seen, past, want, kind, answer>>

Newest == past[Len(past)]

AtomicInit ==
    /\ past = First /\ seen = Newest /\ want = seen
    /\ kind = "none" /\ answer = "ok"

\* An operation takes the lock; it may be asked for any tree.
Ask ==
    /\ answer # "pending" /\ answer' = "pending"
    /\ UNCHANGED <<seen, past>>

\* It succeeds: what it was asked for is seen and is the newest commit.
Succeed ==
    /\ answer = "pending" /\ answer' = "ok"
    /\ Good(want)
    /\ seen' = want /\ past' = Append(past, want)
    /\ UNCHANGED <<want, kind>>

\* It finds that the newest commit is what it was asked for.
Confirm ==
    /\ answer = "pending" /\ answer' = "unchanged"
    /\ want = Newest /\ seen' = want
    /\ UNCHANGED <<past, want, kind>>

\* The same without taking the lock for writing anything.
ConfirmAtOnce ==
    /\ answer # "pending" /\ answer' = "unchanged"
    /\ seen = Newest /\ want' = seen
    /\ UNCHANGED <<seen, past>>

\* What it may leave behind when it fails.
Left ==
    IF kind \in Restoring THEN {seen}
    ELSE IF kind \in Rewinding THEN {Newest}
    ELSE IF kind \in Replacing THEN {Newest, want}
    ELSE {seen, want}

\* It fails, and commits nothing.
FailAtomically ==
    /\ answer = "pending" /\ answer' = "error"
    /\ seen' \in Left /\ Good(seen')
    /\ UNCHANGED <<past, want, kind>>

AtomicNext == Ask \/ Succeed \/ Confirm \/ ConfirmAtOnce \/ FailAtomically

AtomicSpec == AtomicInit /\ [][AtomicNext]_atomicVars
=============================================================================
