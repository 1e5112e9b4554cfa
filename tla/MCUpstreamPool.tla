--------------------------- MODULE MCUpstreamPool ---------------------------
(***************************************************************************)
(* Four workloads of UpstreamPool, one question each: reloads that change, *)
(* remove and restore the group; the round robin over three upstreams that *)
(* come and go; affinity cookies, big bodies and upstreams that fail after *)
(* the connect; and two clients under least-connections.                   *)
(***************************************************************************)
EXTENDS UpstreamPool

CONSTANTS u1, u2, u3, r1, r2

Group(ups, policy, sticky, path) ==
    [ups |-> ups, weight |-> [u \in ToSet(ups) |-> IF u = u1 THEN 2 ELSE 1],
     policy |-> policy, sticky |-> sticky, path |-> path]
Two == <<u1, u2>>
Three == <<u1, u2, u3>>

Reloading ==
    [specs |-> {Group(Two, "failover", FALSE, FALSE), Group(<<u2>>, "failover", FALSE, TRUE), None},
     ups |-> {u2}, reqs |-> {r1}, big |-> {FALSE}, weather |-> {"up", "down"}, flaps |-> 1, stops |-> TRUE]
Balancing ==
    [specs |-> {Group(Three, "round-robin", FALSE, FALSE)},
     ups |-> {u1, u3}, reqs |-> {r1}, big |-> {FALSE}, weather |-> {"up", "down"}, flaps |-> 2, stops |-> FALSE]
Sticking ==
    [specs |-> {Group(Two, "ip-hash", TRUE, TRUE)},
     ups |-> {u1, u2}, reqs |-> {r1}, big |-> BOOLEAN, weather |-> {"up", "sick", "reset"}, flaps |-> 2, stops |-> FALSE]
Loading ==
    [specs |-> {Group(Two, "least-connections", FALSE, FALSE)},
     ups |-> {u1, u2}, reqs |-> {r1, r2}, big |-> {FALSE}, weather |-> {"up", "down"}, flaps |-> 2, stops |-> FALSE]
MCMixes == {Reloading, Balancing, Sticking, Loading}

MCRank == (r1 :> ((u1 :> 1) @@ (u2 :> 2))) @@ (r2 :> ((u1 :> 2) @@ (u2 :> 1)))
=============================================================================
