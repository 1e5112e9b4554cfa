---------------------------- MODULE UpstreamPool ----------------------------
(***************************************************************************)
(* Upstream groups of the data plane (internal/dataplane/upstreamgroup.go):*)
(* the health state of one group, the probers that feed it, the requests   *)
(* that pick an upstream from it and feed it too, and the reloads that     *)
(* replace it (Server.Reload: stage, build, commit, swap).                 *)
(*                                                                         *)
(* The group has one name and is reconfigured; each configuration that     *)
(* differs in its spec gets a state of its own (a groupHealth), and        *)
(* requests that picked the old one still hold it.  A state is a record of *)
(* the function inst.  Each mutex section and each atomic read is one      *)
(* step; a dial, its outcome and the close of the answer are steps too.    *)
(***************************************************************************)
EXTENDS Integers, Sequences, FiniteSets, SequencesExt, FiniteSetsExt, Functions

CONSTANTS
    None,
    Upstream,    \* the backends
    Req,         \* clients, each with one request at a time
    Rank,        \* Rank[r][u]: the rendezvous hash of client r and upstream u
    Rise, Fall,  \* the thresholds of the health check
    MaxInst,     \* bound: groupHealth states alive at once
    Mixes        \* workloads, one of which a behaviour has: the groupSpec values
                 \* [ups, weight, policy, sticky, path] that are configured (None: no group), the
                 \* upstreams and clients in play, whether bodies are big, what upstreams do
                 \* ("up", "down", "reset", "sick"), how often that changes,
                 \* and whether the process is stopped

\* UpstreamGroup.Validate: a group has upstreams, no two of them the same;
\* EffectiveWeight: the least weight is 1.
ASSUME PoolAssumption ==
    /\ IsFiniteSet(Upstream) /\ IsFiniteSet(Req) /\ None \notin Upstream /\ MaxInst \in Nat
    /\ \A m \in Mixes :
           /\ m.reqs \subseteq Req /\ m.big \subseteq BOOLEAN
           /\ \A s \in m.specs \ {None} :
                  /\ s.ups \in Seq(Upstream) /\ s.ups # <<>> /\ IsInjective(s.ups)
                  /\ s.weight \in [ToSet(s.ups) -> Nat \ {0}]

VARIABLES
    mix,      \* the workload
    env,      \* what each upstream does now
    flaps,    \* changes of env so far
    inst,     \* the groupHealth states made, by number
    cur,      \* healthManager.groups: the running state, 0 for none
    router,   \* the state the published router's hosts use, 0 for none
    stage,    \* the reload under way: [pc, next]
    down,     \* the process is shutting down (stopAll ran)
    rq,       \* per client: its request
    wire,     \* per client: upstreams that saw bytes of its request (history)
    cookie    \* per client: the upstream its affinity cookie names, or None

poolVars == <<mix, env, flaps, inst, cur, router, stage, down, rq, wire, cookie>>

Inst == 1..MaxInst

Waiting == 0
Off == -1
Gone == -2

\* newGroupHealth: optimistic, so that a boot never drops traffic.  probe is
\* the prober's place: a position of the list, or one of the three below.
NewGroupHealth(s) ==
    [spec |-> s, healthy |-> ToSet(s.ups),
     ok |-> [u \in ToSet(s.ups) |-> 0], bad |-> [u \in ToSet(s.ups) |-> 0],
     active |-> [u \in ToSet(s.ups) |-> 0], rr |-> [u \in ToSet(s.ups) |-> 0],
     stop |-> FALSE, probe |-> Off]

Idle == [pc |-> "idle", g |-> 0, cands |-> <<>>, pinned |-> None, big |-> FALSE,
         tried |-> {}]

PoolInit ==
    /\ mix \in Mixes
    /\ env = [u \in Upstream |-> "up"]
    /\ flaps = 0
    /\ inst = <<>>
    /\ cur = 0
    /\ router = 0
    /\ stage = [pc |-> "none", next |-> 0]
    /\ down = FALSE
    /\ rq = [r \in Req |-> Idle]
    /\ wire = [r \in Req |-> {}]
    /\ cookie = [r \in Req |-> None]

----------------------------------------------------------------------------
(* Health: reportSuccess and reportFailure, each under the mutex.          *)

ReportSuccess(g, u) ==
    LET h == [g EXCEPT !.bad[u] = 0] IN
    IF u \in g.healthy THEN h
    ELSE IF g.ok[u] + 1 >= Rise
         THEN [h EXCEPT !.ok[u] = 0, !.healthy = @ \cup {u}]
         ELSE [h EXCEPT !.ok[u] = @ + 1]

ReportFailure(g, u) ==
    LET h == [g EXCEPT !.ok[u] = 0] IN
    IF u \notin g.healthy THEN h
    ELSE IF g.bad[u] + 1 >= Fall
         THEN [h EXCEPT !.bad[u] = 0, !.healthy = @ \ {u}]
         ELSE [h EXCEPT !.bad[u] = @ + 1]

\* probeUpstream: a connect, or a GET answered below 500 when a path is set.
ProbeOK(s, u) == IF s.path THEN env[u] = "up" ELSE env[u] # "down"

\* Only upstreams that are out of service are probed.
ProbeOneDown(i) ==
    /\ i \in DOMAIN inst /\ inst[i].probe > 0
    /\ LET g == inst[i]
           u == g.spec.ups[g.probe]
           h == IF ProbeOK(g.spec, u) THEN ReportSuccess(g, u) ELSE g
       IN  inst' = [inst EXCEPT ![i] =
               [h EXCEPT !.probe = IF g.probe < Len(g.spec.ups) THEN g.probe + 1 ELSE Waiting]]
    /\ UNCHANGED <<mix, env, flaps, cur, router, stage, down, rq, wire, cookie>>

\* One upstream of a round of probeLoop.
ProbeOne(i) ==
    /\ i \in DOMAIN inst /\ inst[i].probe > 0
    /\ LET g == inst[i]
           u == g.spec.ups[g.probe]
           h == IF ProbeOK(g.spec, u) THEN ReportSuccess(g, u) ELSE ReportFailure(g, u)
       IN  inst' = [inst EXCEPT ![i] =
               [h EXCEPT !.probe = IF g.probe < Len(g.spec.ups) THEN g.probe + 1 ELSE Waiting]]
    /\ UNCHANGED <<mix, env, flaps, cur, router, stage, down, rq, wire, cookie>>

\* The select between rounds: both cases may be ready.
ProbeWait(i) ==
    /\ i \in DOMAIN inst /\ inst[i].probe = Waiting
    /\ \/ inst' = [inst EXCEPT ![i].probe = 1]
       \/ inst[i].stop /\ inst' = [inst EXCEPT ![i].probe = Gone]
    /\ UNCHANGED <<mix, env, flaps, cur, router, stage, down, rq, wire, cookie>>

----------------------------------------------------------------------------
(* Order: candidates() by policy over the healthy, the rest behind them.   *)

Pos(s, u) == CHOOSE i \in DOMAIN s : s[i] = u

\* promote: u goes to the front, what was before it one back.
Promote(s, u) ==
    IF u \notin ToSet(s) THEN s
    ELSE [i \in DOMAIN s |-> IF i = 1 THEN u ELSE IF i <= Pos(s, u) THEN s[i - 1] ELSE s[i]]

\* Both sorts are stable: the order of the list breaks ties.
Listed(g, a, b) == Pos(g.spec.ups, a) < Pos(g.spec.ups, b)

\* The sum of f over the list q.
Total(f, q) ==
    LET sum[i \in 0..Len(q)] == IF i = 0 THEN 0 ELSE sum[i - 1] + f[q[i]]
    IN  sum[Len(q)]

\* orderRoundRobin: every healthy upstream is credited its weight, the one
\* with most credit (the first of them) is charged the total.
Credit(g) == [u \in DOMAIN g.rr |-> IF u \in g.healthy THEN g.spec.weight[u] ELSE 0]
Credited(g) == [u \in DOMAIN g.rr |-> g.rr[u] + Credit(g)[u]]
RoundRobinPick(g) ==
    LET c == Credited(g)
    IN  CHOOSE u \in g.healthy :
            \A v \in g.healthy \ {u} : c[u] > c[v] \/ (c[u] = c[v] /\ Listed(g, u, v))
Turns(g) == g.spec.policy = "round-robin" /\ Cardinality(g.healthy) > 1
\* The charge is the weight of the whole group, up or not.
ChargedWhole(g) ==
    IF ~Turns(g) THEN g
    ELSE [g EXCEPT !.rr = [Credited(g) EXCEPT ![RoundRobinPick(g)] =
                               @ - Total(g.spec.weight, g.spec.ups)]]

Charged(g) ==
    IF ~Turns(g) THEN g
    ELSE [g EXCEPT !.rr = [Credited(g) EXCEPT ![RoundRobinPick(g)] =
                               @ - Total(Credit(g), g.spec.ups)]]

\* orderLeastConnections: the load per weight, compared without dividing.
LessLoaded(g, a, b) ==
    LET la == g.active[a] * g.spec.weight[b]
        lb == g.active[b] * g.spec.weight[a]
    IN  la < lb \/ (la = lb /\ Listed(g, a, b))

\* orderIPHash.
RanksHigher(g, r, a, b) ==
    Rank[r][a] > Rank[r][b] \/ (Rank[r][a] = Rank[r][b] /\ Listed(g, a, b))

Prefers(g, r, a, b) ==
    CASE Turns(g) -> a = RoundRobinPick(g) \/ (b # RoundRobinPick(g) /\ Listed(g, a, b))
      [] g.spec.policy = "least-connections" -> LessLoaded(g, a, b)
      [] g.spec.policy = "ip-hash" -> RanksHigher(g, r, a, b)
      [] OTHER -> Listed(g, a, b)

Ahead(g, r, a, b) ==
    IF {a, b} \subseteq g.healthy THEN Prefers(g, r, a, b)
    ELSE a \in g.healthy \/ (b \notin g.healthy /\ Listed(g, a, b))

\* The upstreams S in the order Ahead puts them: one sequence.
Ranked(g, r, S) ==
    {s \in [1..Cardinality(S) -> S] :
        /\ ToSet(s) = S
        /\ \A i, j \in DOMAIN s : i < j => Ahead(g, r, s[i], s[j])}

\* The unhealthy only when nothing else is left.
CandidatesHealthy(g, r) ==
    Ranked(g, r, IF g.healthy = {} THEN ToSet(g.spec.ups) ELSE g.healthy)

Candidates(g, r) == Ranked(g, r, ToSet(g.spec.ups))

----------------------------------------------------------------------------
(* A request: groupTransport.RoundTrip on the state its router was built   *)
(* with.                                                                   *)

Holds(r, g) == rq[r].g = g /\ rq[r].pc \in {"dial", "body"}
Others == <<mix, env, flaps, cur, router, stage, down>>

\* A request arrives at a host of the group; big says whether its body is
\* over the retry buffer.
Arrive(r) ==
    /\ rq[r].pc = "idle" /\ router # 0
    /\ \E big \in mix.big :
           rq' = [rq EXCEPT ![r] = [Idle EXCEPT !.pc = "pick", !.g = router, !.big = big]]
    /\ UNCHANGED <<Others, inst, wire, cookie>>

\* candidates(clientKey(req)).
Pick(r) ==
    /\ rq[r].pc = "pick"
    /\ LET g == inst[rq[r].g] IN
       /\ \E s \in Candidates(g, r) : rq' = [rq EXCEPT ![r].pc = "pin", ![r].cands = s]
       /\ inst' = [inst EXCEPT ![rq[r].g] = Charged(g)]
    /\ UNCHANGED <<Others, wire, cookie>>

\* stickyUpstream, which reads the health again, then newBodySource: an
\* unfinished upload ends the request, a big body gets one attempt.
Pin(r) ==
    /\ rq[r].pc = "pin"
    /\ LET g == inst[rq[r].g]
           valid == g.spec.sticky /\ cookie[r] \in g.healthy
       IN  \E expired \in BOOLEAN :
           LET pin == IF valid /\ ~expired THEN cookie[r] ELSE None
               s   == Promote(rq[r].cands, pin)
           IN  \/ rq' = [rq EXCEPT ![r].pc = "try", ![r].pinned = pin,
                                   ![r].cands = IF rq[r].big THEN <<s[1]>> ELSE s]
               \/ rq' = [rq EXCEPT ![r].pc = "gone"]
    /\ UNCHANGED <<Others, inst, wire, cookie>>

\* The next candidate, unless the client is gone.
Try(r) ==
    /\ rq[r].pc = "try"
    /\ \/ /\ rq' = [rq EXCEPT ![r].pc = "dial"]
          /\ inst' = [inst EXCEPT ![rq[r].g].active[Head(rq[r].cands)] = @ + 1]
       \/ rq' = [rq EXCEPT ![r].pc = "gone"] /\ UNCHANGED inst
    /\ UNCHANGED <<Others, wire, cookie>>

\* The upstream answers: success evidence, and a fresh cookie if it moved.
Answer(r) ==
    LET u == Head(rq[r].cands)
        g == inst[rq[r].g]
    IN  /\ rq[r].pc = "dial" /\ env[u] \in {"up", "sick"}
        /\ inst' = [inst EXCEPT ![rq[r].g] = ReportSuccess(g, u)]
        /\ rq' = [rq EXCEPT ![r].pc = "body"]
        /\ wire' = [wire EXCEPT ![r] = @ \cup {u}]
        /\ cookie' = IF g.spec.sticky /\ u # rq[r].pinned THEN [cookie EXCEPT ![r] = u] ELSE cookie
        /\ UNCHANGED Others

\* The connection is not made: count it, try the next one or give up.
ConnectFails(r) ==
    LET u == Head(rq[r].cands)
        g == [inst[rq[r].g] EXCEPT !.active[u] = @ - 1]
    IN  /\ rq[r].pc = "dial" /\ env[u] = "down"
        /\ inst' = [inst EXCEPT ![rq[r].g] = ReportFailure(g, u)]
        /\ rq' = [rq EXCEPT ![r].pc = IF Len(rq[r].cands) = 1 THEN "refused" ELSE "try",
                            ![r].cands = Tail(@), ![r].tried = @ \cup {u}]
        /\ UNCHANGED <<Others, wire, cookie>>

\* Retried like a failed connect.
OtherErrorRetries(r) ==
    LET u == Head(rq[r].cands) IN
    /\ rq[r].pc = "dial" /\ env[u] = "reset"
    /\ inst' = [inst EXCEPT ![rq[r].g].active[u] = @ - 1]
    /\ rq' = [rq EXCEPT ![r].pc = IF Len(rq[r].cands) = 1 THEN "gone" ELSE "try",
                        ![r].cands = Tail(@)]
    /\ wire' = [wire EXCEPT ![r] = @ \cup {u}]
    /\ UNCHANGED <<Others, cookie>>

\* Any other error: the request may have been sent, so it is not repeated.
OtherError(r) ==
    LET u == Head(rq[r].cands) IN
    /\ rq[r].pc = "dial" /\ env[u] = "reset"
    /\ inst' = [inst EXCEPT ![rq[r].g].active[u] = @ - 1]
    /\ rq' = [rq EXCEPT ![r].pc = "gone"]
    /\ wire' = [wire EXCEPT ![r] = @ \cup {u}]
    /\ UNCHANGED <<Others, cookie>>

\* The answer's body is closed (countedBody.Close, once).
CloseBody(r) ==
    /\ rq[r].pc = "body"
    /\ inst' = [inst EXCEPT ![rq[r].g].active[Head(rq[r].cands)] = @ - 1]
    /\ rq' = [rq EXCEPT ![r] = Idle]
    /\ wire' = [wire EXCEPT ![r] = {}]
    /\ UNCHANGED <<Others, cookie>>

\* The error was written; the client may send its next request.
Finish(r) ==
    /\ rq[r].pc \in {"gone", "refused"}
    /\ rq' = [rq EXCEPT ![r] = Idle]
    /\ wire' = [wire EXCEPT ![r] = {}]
    /\ UNCHANGED <<Others, inst, cookie>>

----------------------------------------------------------------------------
(* Reload, under reloadMu: stage, buildRouter, commit, swap.               *)

\* States not made yet, and those nobody refers to any more.
Unmade == {i \in Inst : \/ i \notin DOMAIN inst
                        \/ inst[i].probe = Gone /\ i # router /\ \A r \in Req : rq[r].g # i}

\* stage: a group whose spec is unchanged keeps its state; None is a group
\* removed or disabled.
Stage(s) ==
    /\ stage.pc = "none" /\ ~down
    /\ IF s = None
       THEN stage' = [pc |-> "build", next |-> 0] /\ UNCHANGED inst
       ELSE IF cur # 0 /\ inst[cur].spec = s
       THEN stage' = [pc |-> "build", next |-> cur] /\ UNCHANGED inst
       ELSE /\ Unmade # {}
            /\ LET n == CHOOSE i \in Unmade : TRUE IN
               /\ stage' = [pc |-> "build", next |-> n]
               /\ inst' = [i \in DOMAIN inst \cup {n} |->
                              IF i = n THEN NewGroupHealth(s) ELSE inst[i]]
    /\ UNCHANGED <<mix, env, flaps, cur, router, down, rq, wire, cookie>>

\* buildRouter fails: the stage is discarded.
BuildFails ==
    /\ stage.pc = "build"
    /\ stage' = [pc |-> "none", next |-> 0]
    /\ inst' = Restrict(inst, {i \in DOMAIN inst : ~(i = stage.next /\ inst[i].probe = Off)})
    /\ UNCHANGED <<mix, env, flaps, cur, router, down, rq, wire, cookie>>

\* commit: stop what is replaced, start what is new.
Commit ==
    /\ stage.pc = "build"
    /\ inst' = [i \in DOMAIN inst |->
           IF i = cur /\ i # stage.next THEN [inst[i] EXCEPT !.stop = TRUE]
           ELSE IF i = stage.next /\ inst[i].probe = Off THEN [inst[i] EXCEPT !.probe = 1]
           ELSE inst[i]]
    /\ cur' = stage.next
    /\ stage' = [stage EXCEPT !.pc = "swap"]
    /\ UNCHANGED <<mix, env, flaps, router, down, rq, wire, cookie>>

\* s.cur.Store(rt).
Swap ==
    /\ stage.pc = "swap"
    /\ router' = stage.next
    /\ stage' = [pc |-> "none", next |-> 0]
    /\ UNCHANGED <<mix, env, flaps, inst, cur, down, rq, wire, cookie>>

\* stopAll, at shutdown.
StopAll ==
    /\ ~down /\ mix.stops
    /\ down' = TRUE
    /\ inst' = IF cur = 0 THEN inst ELSE [inst EXCEPT ![cur].stop = TRUE]
    /\ cur' = 0
    /\ UNCHANGED <<mix, env, flaps, router, stage, rq, wire, cookie>>

----------------------------------------------------------------------------
\* An upstream changes what it does.
Flap(u) ==
    /\ flaps < mix.flaps
    /\ u \in mix.ups
    /\ \E w \in mix.weather \ {env[u]} : env' = [env EXCEPT ![u] = w]
    /\ flaps' = flaps + 1
    /\ UNCHANGED <<mix, inst, cur, router, stage, down, rq, wire, cookie>>

Reload == (\E s \in mix.specs : Stage(s)) \/ BuildFails \/ Commit \/ Swap
Forward(r) == \/ Arrive(r) \/ Pick(r) \/ Pin(r) \/ Try(r) \/ Answer(r)
              \/ ConnectFails(r) \/ OtherError(r) \/ CloseBody(r) \/ Finish(r)

PoolNext ==
    \/ \E i \in Inst : ProbeOne(i) \/ ProbeWait(i)
    \/ \E r \in mix.reqs : Forward(r)
    \/ Reload
    \/ StopAll
    \/ \E u \in Upstream : Flap(u)

\* A prober's goroutine and a reload under way keep running.
PoolFairness ==
    /\ \A i \in Inst : WF_poolVars(ProbeOne(i)) /\ WF_poolVars(ProbeWait(i))
    /\ WF_poolVars(Commit) /\ WF_poolVars(Swap)

PoolSpec == PoolInit /\ [][PoolNext]_poolVars /\ PoolFairness

----------------------------------------------------------------------------
(* Properties.                                                             *)

\* The counters that steer the policies are exact, in replaced states too:
\* active is the number of requests an upstream holds (RoundTrip counts an
\* attempt and every way out of it counts down once), and the running weights
\* of the round robin sum to zero, however health changed between the picks.
CountersExact ==
    \A i \in DOMAIN inst :
        LET g == inst[i] IN
        /\ \A u \in DOMAIN g.active :
               g.active[u] = Cardinality({r \in Req : Holds(r, i) /\ Head(rq[r].cands) = u})
        /\ Total(g.rr, g.spec.ups) = 0

\* A request that could be retried is refused only after every upstream of its
\* group refused its connection: the group fails open, whatever was marked
\* down, and a member that recovers is never skipped.
RefusedByAll ==
    \A r \in Req :
        rq[r].pc = "refused" /\ ~rq[r].big => rq[r].tried = ToSet(inst[rq[r].g].spec.ups)

\* How far a request got, as RequestOnce sees it.
outcome ==
    [r \in Req |->
        [st |-> CASE rq[r].pc = "idle" -> "idle"
                  [] rq[r].pc \in {"gone", "refused"} -> "failed"
                  [] rq[r].pc = "body" -> "answered"
                  [] OTHER -> "open",
         at |-> wire[r]]]
Once == INSTANCE RequestOnce WITH Request <- Req, out <- outcome

\* RoundTrip implements the promise of RequestOnce: a request reaches the wire
\* of at most one upstream and is answered only by it.
OneDelivery == Once!OnceSpec

\* Whoever reports, and however often the unchanged group is reloaded: an
\* upstream that refuses connections for good leaves service, and one that
\* answers for good is back in service, while the group keeps its state and
\* the process runs.
Runs(i, u, w) == ~down /\ cur = i /\ env[u] = w /\ u \in ToSet(inst[i].spec.ups)
HealthFollows ==
    \A i \in Inst, u \in Upstream :
        /\ <>[]Runs(i, u, "up") => <>[](cur = i /\ u \in inst[i].healthy)
        /\ <>[]Runs(i, u, "down") => <>[](cur = i /\ u \notin inst[i].healthy)
=============================================================================
