------------------------------ MODULE Delivery ------------------------------
(***************************************************************************)
(* Outgoing notifications and webhooks                                     *)
(* (internal/notify/notify.go, internal/webhook/webhook.go).               *)
(*                                                                         *)
(* Emit may be called from any goroutine (a health probe, an ACME order, a *)
(* discovery poll, a config write).  It passes the event through a dedup   *)
(* window and pushes one job per subscribed target on a bounded queue that *)
(* a pool of workers drains.  The push is three separate non-blocking      *)
(* selects, so producers, workers and Close interleave between them.       *)
(* Webhooks have no queue: each delivery is a goroutine of its own that    *)
(* holds a slot of a counting semaphore.                                   *)
(*                                                                         *)
(* What a target is sent (ntfy, Discord or generic JSON, signatures) is    *)
(* not modelled, only that a send ends well or badly.                      *)
(***************************************************************************)
EXTENDS Naturals, Sequences, FiniteSets, SequencesExt

CONSTANTS
    Producer,        \* goroutines that may call Emit at the same time
    Sender,          \* the worker pool (workerCount)
    Event,           \* records [kind, subject, state]; state "" = stateless
    Targets,         \* records [name, kinds, disabled]: notification targets
    QueueCapacity,   \* queueCapacity
    DedupWindow,     \* dedupWindow in ticks
    MaxInFlight,     \* maxInFlight of the webhook dispatcher
    MaxEmits,        \* bound: calls of Emit
    MaxTicks,        \* bound: the clock
    MaxPosts         \* bound: webhook deliveries attempted

ASSUME DeliveryAssumption ==
    /\ QueueCapacity \in Nat \ {0} /\ DedupWindow \in Nat \ {0}
    /\ MaxInFlight \in Nat \ {0}
    /\ MaxEmits \in Nat /\ MaxTicks \in Nat /\ MaxPosts \in Nat

VARIABLES
    tick,      \* time.Now()
    dedup,     \* function: key -> [at, state], the keys recorded
    producer,  \* per producer: the Emit it is in
    queue,     \* n.queue: jobs [id, target]
    worker,    \* per worker: idle, gone, or the job it sends
    closing,   \* progress of Notifier.Close
    last,      \* n.last: outcome of the last send, per target
    post,      \* webhook goroutines: number "posting" and "leaving"
    sem,       \* slots of d.sem taken
    wg,        \* counter of d.wg
    emits,     \* calls of Emit so far
    posts,     \* webhook deliveries attempted so far
    hookClose, \* progress of Dispatcher.Close
    said,      \* history: accepted events [at, state], per topic
    heard,     \* history: state of the last event decided, per topic
    open       \* history: jobs accepted and not yet sent, dropped or refused

emitVars == <<tick, dedup, producer, emits, said, heard>>
poolVars == <<queue, worker, closing, last, open>>
hookVars == <<post, sem, wg, posts, hookClose>>
deliveryVars == <<emitVars, poolVars, hookVars>>

----------------------------------------------------------------------------
(* A stateless event is recorded under kind and subject, a state-tracked   *)
(* one under its subject alone, so that both directions of a flap meet.    *)

\* The key a naive implementation would use for every event.
DedupKeyByKind(ev) == <<ev.kind, ev.subject>>

DedupKey(ev) ==
    IF ev.state = "" THEN <<ev.kind, ev.subject>> ELSE <<ev.subject>>

\* What a reader of the notifications takes for one story.
Topic(ev) == IF ev.state = "" THEN <<ev.kind, ev.subject>> ELSE <<ev.subject>>

Subscribed(ev) == {t \in Targets : ~t.disabled /\ ev.kind \in t.kinds}

NoOutcome == "never"
Still == [pc |-> "idle"]
Jobs(ev, id) == {[id |-> id, target |-> t.name] : t \in Subscribed(ev)}

DeliveryInit ==
    /\ tick = 0
    /\ dedup = << >>
    /\ producer = [p \in Producer |-> Still]
    /\ queue = << >>
    /\ worker = [w \in Sender |-> Still]
    /\ closing = "open"
    /\ last = [t \in {x.name : x \in Targets} |-> NoOutcome]
    /\ post = [posting |-> 0, leaving |-> 0]
    /\ sem = 0 /\ wg = 0 /\ emits = 0 /\ posts = 0 /\ hookClose = "open"
    /\ said = [k \in {Topic(ev) : ev \in Event} |-> << >>]
    /\ heard = [k \in {Topic(ev) : ev \in Event} |-> "none"]
    /\ open = {}

----------------------------------------------------------------------------
(* Emit.  The clock is read just before the dedup lock is taken; a tick is *)
(* a good part of the window, so both belong to one step.                  *)

\* gcDedupLocked: entries that can no longer suppress anything are dropped.
Swept == [k \in {x \in DOMAIN dedup : tick < dedup[x].at + DedupWindow} |-> dedup[k]]

Suppressed(ev) ==
    DedupKey(ev) \in DOMAIN Swept /\ Swept[DedupKey(ev)].state = ev.state

\* shouldEmit under dmu; then the targets are read and one job made for each.
Emit(p, ev) ==
    LET entry == [at |-> tick, state |-> ev.state]
        js    == Jobs(ev, emits')
    IN  /\ producer[p] = Still
        /\ emits < MaxEmits /\ emits' = emits + 1
        /\ heard' = [heard EXCEPT ![Topic(ev)] = ev.state]
        /\ IF Suppressed(ev)
           THEN /\ dedup' = Swept
                /\ UNCHANGED <<producer, said, open>>
           ELSE /\ dedup' = [k \in DOMAIN Swept \cup {DedupKey(ev)} |->
                               IF k = DedupKey(ev) THEN entry ELSE Swept[k]]
                /\ said' = [said EXCEPT ![Topic(ev)] = Append(@, entry)]
                /\ producer' = [producer EXCEPT ![p] = IF js = {} THEN Still
                                                       ELSE [pc |-> "next", rest |-> js]]
                /\ open' = open \cup js
        /\ UNCHANGED <<tick, queue, worker, closing, last, hookVars>>

----------------------------------------------------------------------------
(* enqueue.  Each select is a step: the closed flag and the first push, the *)
(* removal of the oldest job, the second push.                              *)

\* The producer is done with one job and goes on with the rest.
Advance(p) ==
    LET left == producer[p].rest \ {producer[p].job}
    IN  IF left = {} THEN Still ELSE [pc |-> "next", rest |-> left]

CheckClosed(p) ==
    /\ producer[p].pc = "next"
    /\ \E j \in producer[p].rest :
        IF closing = "open"
        THEN /\ producer' = [producer EXCEPT ![p] = [pc |-> "push", job |-> j, rest |-> producer[p].rest]]
             /\ open' = open
        ELSE LET left == producer[p].rest \ {j} IN
             /\ producer' = [producer EXCEPT ![p] = IF left = {} THEN Still ELSE [@ EXCEPT !.rest = left]]
             /\ open' = open \ {j}
    /\ UNCHANGED <<tick, dedup, emits, said, heard, queue, worker, closing, last, hookVars>>

Push(p) ==
    /\ producer[p].pc = "push"
    /\ IF Len(queue) < QueueCapacity
       THEN /\ queue' = Append(queue, producer[p].job)
            /\ producer' = [producer EXCEPT ![p] = Advance(p)]
       ELSE /\ producer' = [producer EXCEPT ![p].pc = "full"]
            /\ UNCHANGED queue
    /\ UNCHANGED <<tick, dedup, emits, said, heard, worker, closing, last, open, hookVars>>

DropOldest(p) ==
    /\ producer[p].pc = "full"
    /\ producer' = [producer EXCEPT ![p].pc = "again"]
    /\ IF queue = << >>
       THEN UNCHANGED <<queue, open>>
       ELSE /\ queue' = Tail(queue)
            /\ open' = open \ {Head(queue)}
    /\ UNCHANGED <<tick, dedup, emits, said, heard, worker, closing, last, hookVars>>

\* A second push that takes the room for granted: the job goes on the queue
\* whatever other producers did in between.
PushAgainBlindly(p) ==
    /\ producer[p].pc = "again"
    /\ producer' = [producer EXCEPT ![p] = Advance(p)]
    /\ queue' = Append(queue, producer[p].job)
    /\ UNCHANGED <<tick, dedup, emits, said, heard, worker, closing, last, open, hookVars>>

PushAgain(p) ==
    /\ producer[p].pc = "again"
    /\ producer' = [producer EXCEPT ![p] = Advance(p)]
    /\ IF Len(queue) < QueueCapacity
       THEN queue' = Append(queue, producer[p].job) /\ UNCHANGED open
       ELSE open' = open \ {producer[p].job} /\ UNCHANGED queue
    /\ UNCHANGED <<tick, dedup, emits, said, heard, worker, closing, last, hookVars>>

----------------------------------------------------------------------------
(* The workers choose freely between a closed done channel and a job.      *)

Take(w) ==
    /\ worker[w] = Still /\ queue # << >>
    /\ worker' = [worker EXCEPT ![w] = [pc |-> "send", job |-> Head(queue)]]
    /\ queue' = Tail(queue)
    /\ UNCHANGED <<emitVars, closing, last, open, hookVars>>

Leave(w) ==
    /\ worker[w] = Still /\ closing \in {"waiting", "closed"}
    /\ worker' = [worker EXCEPT ![w] = [pc |-> "gone"]]
    /\ UNCHANGED <<emitVars, queue, closing, last, open, hookVars>>

\* post and record: the send ends well or badly and is not tried again.
Deliver(w, outcome) ==
    /\ worker[w].pc = "send"
    /\ last' = [last EXCEPT ![worker[w].job.target] = outcome]
    /\ open' = open \ {worker[w].job}
    /\ worker' = [worker EXCEPT ![w] = Still]
    /\ UNCHANGED <<emitVars, queue, closing, hookVars>>

\* Test posts on the caller's goroutine, without dedup, queue or workers.
TestTarget(t, outcome) ==
    /\ t \in Targets
    /\ last' = [last EXCEPT ![t.name] = outcome]
    /\ UNCHANGED <<emitVars, queue, worker, closing, open, hookVars>>

\* Close: the flag, the done channel, and the wait for the workers.
Close ==
    \/ /\ closing = "open" /\ closing' = "flagged"
       /\ UNCHANGED <<emitVars, queue, worker, last, open, hookVars>>
    \/ /\ closing = "flagged" /\ closing' = "waiting"
       /\ UNCHANGED <<emitVars, queue, worker, last, open, hookVars>>
    \/ /\ closing = "waiting" /\ \A w \in Sender : worker[w].pc = "gone"
       /\ closing' = "closed"
       /\ UNCHANGED <<emitVars, queue, worker, last, open, hookVars>>

Elapse ==
    /\ tick < MaxTicks /\ tick' = tick + 1
    /\ UNCHANGED <<dedup, producer, emits, said, heard, poolVars, hookVars>>

----------------------------------------------------------------------------
(* The webhook dispatcher.                                                 *)

\* DispatchHook, for one target: a slot and a goroutine, or the event is dropped.
DispatchHook ==
    /\ posts < MaxPosts /\ posts' = posts + 1
    /\ IF sem < MaxInFlight
       THEN sem' = sem + 1 /\ wg' = wg + 1 /\ post' = [post EXCEPT !.posting = @ + 1]
       ELSE UNCHANGED <<sem, wg, post>>
    /\ UNCHANGED <<hookClose, emitVars, poolVars>>

\* The deferred function gives the slot back first ...
PostEnds ==
    /\ post.posting > 0 /\ sem > 0
    /\ sem' = sem - 1
    /\ post' = [posting |-> post.posting - 1, leaving |-> post.leaving + 1]
    /\ UNCHANGED <<wg, posts, hookClose, emitVars, poolVars>>

\* ... and then leaves the wait group.
PostLeaves ==
    /\ post.leaving > 0
    /\ wg' = wg - 1
    /\ post' = [post EXCEPT !.leaving = @ - 1]
    /\ UNCHANGED <<sem, posts, hookClose, emitVars, poolVars>>

\* The wait is over when the counter is zero; main calls it once nothing
\* dispatches any more.
CloseHooks ==
    /\ hookClose = "open" /\ posts = MaxPosts /\ wg = 0
    /\ hookClose' = "closed"
    /\ UNCHANGED <<post, sem, wg, posts, emitVars, poolVars>>

Notify ==
    \/ \E p \in Producer :
        \/ \E ev \in Event : Emit(p, ev)
        \/ CheckClosed(p) \/ Push(p) \/ DropOldest(p) \/ PushAgain(p)
    \/ \E w \in Sender :
        \/ Take(w) \/ Leave(w)
        \/ \E o \in {"ok", "failed"} : Deliver(w, o)
    \/ Close \/ Elapse

TestTargets == \E t \in Targets, o \in {"ok", "failed"} : TestTarget(t, o)

Hooks == DispatchHook \/ PostEnds \/ PostLeaves \/ CloseHooks

DeliveryNext == Notify \/ TestTargets \/ Hooks

DeliverySpec == DeliveryInit /\ [][DeliveryNext]_deliveryVars

----------------------------------------------------------------------------
(* The jobs a producer, the queue or a worker holds, and how many copies of
   a job are on their way. *)
Held(p) == IF "rest" \in DOMAIN producer[p] THEN producer[p].rest ELSE {}
Places(j) ==
    Cardinality({i \in DOMAIN queue : queue[i] = j})
    + Cardinality({w \in Sender : worker[w].pc = "send" /\ worker[w].job = j})
    + Cardinality({p \in Producer : j \in Held(p)})

(* Every story is told up to date and none twice: the last event accepted
   for a topic has the state of the last one reported (a recovery is never
   swallowed by the failure before it), and two accepted events in a row
   with one state are a dedup window apart. *)
StoriesTold ==
    \A k \in DOMAIN said :
        /\ said[k] # << >> => Last(said[k]).state = heard[k]
        /\ said[k] = << >> => heard[k] = "none"
        /\ \A i \in 1..Len(said[k]) - 1 :
              said[k][i].state = said[k][i + 1].state
                => said[k][i + 1].at >= said[k][i].at + DedupWindow

(* No job is lost unaccounted for or sent twice, whatever producers, workers
   and Close do between the selects: a job accepted and not yet sent, dropped
   or refused is in exactly one place, no other job is anywhere, and the queue
   stays within its capacity. *)
JobsExact ==
    /\ Len(queue) <= QueueCapacity
    /\ \A j \in open : Places(j) = 1
    /\ Range(queue) \subseteq open
    /\ \A w \in Sender : worker[w].pc = "send" => worker[w].job \in open
    /\ \A p \in Producer : Held(p) \subseteq open

(* Webhook slots and the wait group agree with the goroutines that run, and
   Close returns only after the last of them has left. *)
HooksDrained ==
    /\ sem = post.posting /\ wg = post.posting + post.leaving
    /\ sem <= MaxInFlight
    /\ hookClose = "closed" => post.posting + post.leaving = 0

(* Deliveries are exact: notify.go's dedup window, queue and Close, and
   webhook.go's bounded pool. *)
DeliveryExact == StoriesTold /\ JobsExact /\ HooksDrained
=============================================================================
