---------------------------- MODULE RequestOnce ----------------------------
(***************************************************************************)
(* What a failover transport promises about one request, whatever it does  *)
(* inside: the request is on the wire of at most one upstream, it is       *)
(* answered at most once, and only an upstream that has it answers it.     *)
(* UpstreamPool implements this specification.                             *)
(***************************************************************************)
CONSTANTS
    Request,    \* the requests that may be forwarded
    Upstream    \* the upstreams they may be sent to

VARIABLE out    \* per request: [st, at]; at is the set of upstreams that hold it

Fresh == [st |-> "idle", at |-> {}]

OnceInit == out = [r \in Request |-> Fresh]

\* A request is accepted.
Accept(r) ==
    /\ out[r].st = "idle"
    /\ out' = [out EXCEPT ![r].st = "open"]

\* It is put on the wire of one upstream, once, and answered or dropped there.
Transmit(r) ==
    /\ out[r].st = "open"
    /\ \E u \in Upstream, st \in {"answered", "failed"} :
           out' = [out EXCEPT ![r] = [st |-> st, at |-> {u}]]

\* No upstream ever saw it.
GiveUp(r) ==
    /\ out[r].st = "open"
    /\ out' = [out EXCEPT ![r].st = "failed"]

\* The client is done with the answer; the next request may come.
Finish(r) ==
    /\ out[r].st \in {"answered", "failed"}
    /\ out' = [out EXCEPT ![r] = Fresh]

OnceNext == \E r \in Request : Accept(r) \/ Transmit(r) \/ GiveUp(r) \/ Finish(r)

OnceSpec == OnceInit /\ [][OnceNext]_out
=============================================================================
