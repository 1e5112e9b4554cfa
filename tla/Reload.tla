------------------------------- MODULE Reload -------------------------------
(***************************************************************************)
(* From a stored configuration to the running one.                         *)
(*                                                                         *)
(* Every change of configuration or certificate ends in the same closure,  *)
(* reload (cmd/gpm/main.go): it loads the store and applies what it loaded *)
(* to the process part by part.  API handlers, the discovery and           *)
(* access-list reconcilers, the ACME manager and the HA follower's poll    *)
(* loop all call it from goroutines of their own; nothing serialises two   *)
(* calls but the data plane's reloadMu, which covers one of the parts.     *)
(*                                                                         *)
(* A configuration is its version: 1 at start, one more per commit.        *)
(***************************************************************************)
EXTENDS Naturals

CONSTANTS
    Actor,       \* the goroutines that change configuration and reload
    Roles,       \* the roles the process may be started in (a follower only polls)
    Ops,         \* what the actors do
    Faults,      \* the stages of a reload that may fail
    MaxCommits,  \* bound on the versions
    MaxFails,    \* bound on the failures
    None,        \* nothing cached, nobody loading
    Empty        \* the token set cached when the load behind it failed

\* What a reload applies, in the order it does: the switches set before the
\* error pages compile (PROXY protocol, TLS floor, trusted proxies), the ones
\* after (security headers, maintenance, fetched access lists), the data
\* plane's router, the authenticator.
Part == {"early", "late", "router", "auth"}
OpKinds == {"commit", "retry", "renew"}
FaultKinds == {"load", "late", "router", "tokens"}

ASSUME ReloadAssumption ==
    /\ Roles \subseteq {"leader", "follower"}
    /\ Ops \subseteq OpKinds /\ Faults \subseteq FaultKinds
    /\ MaxCommits \in Nat /\ MaxFails \in Nat
    /\ None \notin Nat /\ Empty \notin Nat /\ None # Empty

VARIABLES
    role,     \* ha.role: "leader" or "follower"
    stored,   \* the version in the store
    leader,   \* follower: the version at the leader's repository
    running,  \* the version each part runs
    cache,    \* the authenticator's cached token set: a version, None or Empty
    fill,     \* the token set a bearer request has loaded while it holds tcmu
    actor,    \* each actor's stage, its commit and the configuration it loaded
    acked,    \* history: the newest version answered with success after its reload
    repeated, \* history: the newest version a repeated request was told is in place
    raced,    \* history: a reload was started while another was under way
    fails     \* failures so far

vars == <<role, stored, leader, running, cache, fill, actor, acked, repeated, raced, fails>>

----------------------------------------------------------------------------

\* ver is 0 when nobody waits for an answer about a version.
Rest == [at |-> "rest", ver |-> 0, cfg |-> 1]

Init ==
    /\ role \in Roles
    /\ stored = 1 /\ leader = 1 /\ acked = 1 /\ repeated = 1 /\ raced = FALSE /\ fails = 0
    /\ running = [p \in Part |-> 1]
    /\ cache = None /\ fill = None
    /\ actor = [a \in Actor |-> Rest]

Quiet == \A a \in Actor : actor[a].at = "rest"

Start(a, ver) ==
    /\ actor' = [actor EXCEPT ![a].at = "load", ![a].ver = ver]
    /\ raced' = (raced \/ ~Quiet)

Proceed(a, at) == actor' = [actor EXCEPT ![a].at = at]
Max2(m, n) == IF m >= n THEN m ELSE n

\* A store operation returned a commit hash: applyChange calls reload.
Commit(a) ==
    /\ role = "leader" /\ "commit" \in Ops
    /\ actor[a].at = "rest" /\ stored < MaxCommits
    /\ stored' = stored + 1
    /\ Start(a, stored + 1)
    /\ UNCHANGED <<role, leader, running, cache, fill, acked, repeated, fails>>

\* A save of what is already stored returns no hash: applyChange answers
\* without a reload.
Unchanged(a) ==
    /\ role = "leader" /\ "retry" \in Ops
    /\ actor[a].at = "rest"
    /\ repeated' = stored
    /\ UNCHANGED <<role, stored, leader, running, cache, fill, actor, acked, raced, fails>>

\* A certificate was issued or renewed: OnChange.
Renewed(a) ==
    /\ role = "leader" /\ "renew" \in Ops
    /\ actor[a].at = "rest"
    /\ Start(a, 0)
    /\ UNCHANGED <<role, stored, leader, running, cache, fill, acked, repeated, fails>>

\* Mutant: the poll loop pulls and does not reload.
PullWithoutReload(a) ==
    /\ role = "follower"
    /\ Quiet /\ leader # stored
    /\ stored' = leader
    /\ UNCHANGED <<role, leader, running, cache, fill, actor, acked, repeated, raced, fails>>

\* A tick of FollowRemote whose pull moved HEAD; a tick that finds it where it
\* was does nothing.  The loop is one goroutine and waits for its reload.
Pull(a) ==
    /\ role = "follower"
    /\ Quiet /\ leader # stored
    /\ stored' = leader
    /\ Start(a, 0)
    /\ UNCHANGED <<role, leader, running, cache, fill, acked, repeated, fails>>

\* The leader commits, in another process.
LeaderCommits ==
    /\ role = "follower" /\ leader < MaxCommits
    /\ leader' = leader + 1
    /\ UNCHANGED <<role, stored, running, cache, fill, actor, acked, repeated, raced, fails>>

----------------------------------------------------------------------------
(* reload                                                                  *)

LoadCompiled(a) ==
    /\ actor[a].at = "load"
    /\ actor' = [actor EXCEPT ![a].at = "early", ![a].cfg = stored]
    /\ UNCHANGED <<role, stored, leader, running, cache, fill, acked, repeated, raced, fails>>

\* Mutant: the authenticator is configured before the data plane accepts.
AuthFirst == [early |-> "late", late |-> "auth", auth |-> "router", router |-> "drop"]

\* The stages after the load, each followed by the next.
After == [early |-> "late", late |-> "router", router |-> "auth", auth |-> "drop"]

Apply(a) ==
    LET p == actor[a].at
    IN  /\ p \in Part
        /\ running' = [running EXCEPT ![p] = actor[a].cfg]
        /\ Proceed(a, After[p])
        /\ UNCHANGED <<role, stored, leader, cache, fill, acked, repeated, raced, fails>>

\* Mutant: the request is answered with success although its reload failed.
ReloadFailsQuietly(a) ==
    /\ actor[a].at \in {"load", "late", "router"} \cap Faults
    /\ fails < MaxFails
    /\ fails' = fails + 1
    /\ Proceed(a, "rest")
    /\ acked' = Max2(acked, actor[a].ver)
    /\ UNCHANGED <<role, stored, leader, running, cache, fill, repeated, raced>>

\* The configuration does not load, the error pages do not compile or the data
\* plane refuses it: reload returns and the rest is not applied.
ReloadFails(a) ==
    /\ actor[a].at \in {"load", "late", "router"} \cap Faults
    /\ fails < MaxFails
    /\ fails' = fails + 1
    /\ Proceed(a, "rest")
    /\ UNCHANGED <<role, stored, leader, running, cache, fill, acked, repeated, raced>>

\* Mutant: the cache is dropped without tcmu.
InvalidateUnlocked(a) ==
    /\ actor[a].at = "drop"
    /\ cache' = None
    /\ Proceed(a, "rest")
    /\ acked' = Max2(acked, actor[a].ver)
    /\ UNCHANGED <<role, stored, leader, running, fill, repeated, raced, fails>>

\* InvalidateTokenCache takes tcmu; reload returns nil and the request that
\* waited is answered with success.
InvalidateTokenCache(a) ==
    /\ actor[a].at = "drop" /\ fill = None
    /\ cache' = None
    /\ Proceed(a, "rest")
    /\ acked' = Max2(acked, actor[a].ver)
    /\ UNCHANGED <<role, stored, leader, running, fill, repeated, raced, fails>>

----------------------------------------------------------------------------
(* currentTokens: a bearer request that finds nothing cached loads the     *)
(* tokens with tcmu held.                                                  *)

LoadTokens ==
    /\ cache = None /\ fill = None
    /\ \/ fill' = stored /\ UNCHANGED fails
       \/ /\ "tokens" \in Faults /\ fails < MaxFails
          /\ fill' = Empty /\ fails' = fails + 1
    /\ UNCHANGED <<role, stored, leader, running, cache, actor, acked, repeated, raced>>

CacheTokens ==
    /\ fill # None
    /\ cache' = fill /\ fill' = None
    /\ UNCHANGED <<role, stored, leader, running, actor, acked, repeated, raced, fails>>

----------------------------------------------------------------------------

Reloading(a) == LoadCompiled(a) \/ Apply(a) \/ InvalidateTokenCache(a)

Next ==
    \/ \E a \in Actor : \/ Commit(a) \/ Unchanged(a) \/ Renewed(a) \/ Pull(a)
                        \/ Reloading(a) \/ ReloadFails(a)
    \/ LeaderCommits
    \/ LoadTokens \/ CacheTokens

\* A started reload and a started token load run to their end, and the poll
\* loop ticks for ever.
Fairness ==
    /\ \A a \in Actor : WF_vars(Reloading(a)) /\ WF_vars(Pull(a))
    /\ WF_vars(CacheTokens)

Spec == Init /\ [][Next]_vars /\ Fairness

----------------------------------------------------------------------------
(* Properties.                                                             *)

Stage == Part \cup {"rest", "load", "drop"}

\* The versions are versions and every actor is at a stage of reload.
TypeOK ==
    /\ stored \in Nat \ {0} /\ leader \in Nat \ {0} /\ acked \in Nat
    /\ repeated \in Nat /\ raced \in BOOLEAN /\ fails \in Nat /\ role \in Roles
    /\ running \in [Part -> Nat]
    /\ cache \in Nat \cup {None, Empty}
    /\ fill \in Nat \cup {None, Empty}
    /\ actor \in [Actor -> [at : Stage, ver : Nat, cfg : Nat]]

\* Once a request was answered with success, the whole running configuration
\* is at least as new as its commit whenever no reload is under way, whatever
\* reloads failed before or after it, as long as no two overlapped.
AnsweredMeansLive == Quiet /\ ~raced => \A p \in Part : running[p] >= acked

\* The authenticator does not stay on another configuration than the router: a
\* reload that is rejected changes neither.
AuthFollowsRouter == Quiet /\ ~raced => running["auth"] = running["router"]

\* "The running state never drifts": what was answered with success runs, also
\* when reloads of several goroutines overlap.
NeverDrifts == Quiet => \A p \in Part : running[p] >= acked

\* A token set cached before a change that was answered with success is never
\* used again: a revoked token is dead, whichever reloads and bearer requests
\* ran at the same time and whichever of them failed.
RevokedStaysRevoked == \A t \in {cache, fill} \cap Nat : t >= acked

\* A request that repeats a change already stored, and is answered with
\* success, leaves the change running: the answer is never a misleading 200.
UnchangedMeansLive == Quiet => \A p \in Part : running[p] >= repeated

\* A follower whose reloads succeed ends up running what the leader committed.
FollowerCatchesUp ==
    role = "follower" /\ [](fails = 0) =>
        <>[](stored = leader /\ \A p \in Part : running[p] = leader)

=============================================================================
