---------------------------- MODULE ReloadProofs ----------------------------
(***************************************************************************)
(* Proofs about Reload, for any number of actors and versions.             *)
(***************************************************************************)
EXTENDS Reload, TLAPS

\* Versions only grow, so no request waits for a version the store has not.
Monotone ==
    /\ acked <= stored
    /\ role = "follower" => stored <= leader
    /\ \A a \in Actor : actor[a].ver <= stored

IInv == TypeOK /\ Monotone /\ RevokedStaysRevoked

\* Every step keeps the state well formed.
LEMMA NextType == ASSUME TypeOK, [Next]_vars PROVE TypeOK'
<1> USE ReloadAssumption
<1>1. ASSUME NEW a \in Actor, Commit(a)
      PROVE  TypeOK'
  <2>1. stored + 1 \in Nat \ {0} /\ "load" \in Stage
    BY DEF TypeOK, Stage
  <2>2. actor' \in [Actor -> [at : Stage, ver : Nat, cfg : Nat]]
    BY <1>1, <2>1 DEF Commit, Start, TypeOK
  <2>3. raced' \in BOOLEAN
    BY <1>1 DEF Commit, Start
  <2>4. QED
    BY <1>1, <2>1, <2>2, <2>3 DEF Commit, TypeOK
<1>2. ASSUME NEW a \in Actor, Unchanged(a)
      PROVE  TypeOK'
  BY <1>2 DEF Unchanged, TypeOK
<1>3. ASSUME NEW a \in Actor, Renewed(a)
      PROVE  TypeOK'
  BY <1>3 DEF Renewed, Start, TypeOK, Stage
<1>4. ASSUME NEW a \in Actor, Pull(a)
      PROVE  TypeOK'
  BY <1>4 DEF Pull, Start, TypeOK, Stage
<1>5. ASSUME NEW a \in Actor, LoadCompiled(a)
      PROVE  TypeOK'
  BY <1>5 DEF LoadCompiled, TypeOK, Stage, Part
<1>6. ASSUME NEW a \in Actor, Apply(a)
      PROVE  TypeOK'
  <2>1. After[actor[a].at] \in Stage /\ actor[a].at \in Part
    BY <1>6 DEF Apply, After, Part, Stage
  <2>2. QED
    BY <1>6, <2>1 DEF Apply, Proceed, TypeOK
<1>7. ASSUME NEW a \in Actor, InvalidateTokenCache(a)
      PROVE  TypeOK'
  BY <1>7 DEF InvalidateTokenCache, Proceed, Max2, TypeOK, Stage
<1>8. ASSUME NEW a \in Actor, ReloadFails(a)
      PROVE  TypeOK'
  BY <1>8 DEF ReloadFails, Proceed, TypeOK, Stage
<1>9. CASE LeaderCommits
  BY <1>9 DEF LeaderCommits, TypeOK
<1>10. CASE LoadTokens
  BY <1>10 DEF LoadTokens, TypeOK
<1>11. CASE CacheTokens
  BY <1>11 DEF CacheTokens, TypeOK
<1>12. CASE UNCHANGED vars
  BY <1>12 DEF vars, TypeOK
<1>13. QED
  BY <1>1, <1>2, <1>3, <1>4, <1>5, <1>6, <1>7, <1>8, <1>9, <1>10, <1>11, <1>12
  DEF Next, Reloading

\* Every actor's ver, after a step that starts a reload or moves one on.
LEMMA NextMonotone ==
    ASSUME IInv, [Next]_vars
    PROVE  Monotone'
<1> USE ReloadAssumption
<1>t. TypeOK /\ Monotone
  BY DEF IInv
<1>1. ASSUME NEW a \in Actor, Commit(a)
      PROVE  Monotone'
  BY <1>1, <1>t DEF Commit, Start, TypeOK, Monotone
<1>2. ASSUME NEW a \in Actor, Renewed(a)
      PROVE  Monotone'
  BY <1>2, <1>t DEF Renewed, Start, TypeOK, Monotone
<1>3. ASSUME NEW a \in Actor, Pull(a)
      PROVE  Monotone'
  BY <1>3, <1>t DEF Pull, Start, TypeOK, Monotone
<1>4. ASSUME NEW a \in Actor, LoadCompiled(a)
      PROVE  Monotone'
  BY <1>4, <1>t DEF LoadCompiled, TypeOK, Monotone
<1>5. ASSUME NEW a \in Actor, Apply(a)
      PROVE  Monotone'
  BY <1>5, <1>t DEF Apply, Proceed, TypeOK, Monotone
<1>6. ASSUME NEW a \in Actor, InvalidateTokenCache(a)
      PROVE  Monotone'
  BY <1>6, <1>t DEF InvalidateTokenCache, Proceed, Max2, TypeOK, Monotone
<1>7. ASSUME NEW a \in Actor, ReloadFails(a)
      PROVE  Monotone'
  BY <1>7, <1>t DEF ReloadFails, Proceed, TypeOK, Monotone
<1>8. CASE LeaderCommits
  BY <1>8, <1>t DEF LeaderCommits, TypeOK, Monotone
<1>9. CASE LoadTokens \/ CacheTokens \/ UNCHANGED vars
  BY <1>9, <1>t DEF LoadTokens, CacheTokens, vars, Monotone
<1>10. ASSUME NEW a \in Actor, Unchanged(a)
       PROVE  Monotone'
  BY <1>10, <1>t DEF Unchanged, Monotone
<1>11. QED
  BY <1>1, <1>2, <1>3, <1>4, <1>5, <1>6, <1>7, <1>8, <1>9, <1>10
  DEF Next, Reloading

\* The one step that acknowledges waits for tcmu and leaves nothing cached.
LEMMA NextRevoked ==
    ASSUME IInv, [Next]_vars
    PROVE  RevokedStaysRevoked'
<1> USE ReloadAssumption
<1>t. TypeOK /\ Monotone /\ RevokedStaysRevoked
  BY DEF IInv
<1>1. CASE UNCHANGED <<cache, fill, acked>>
  BY <1>1, <1>t DEF RevokedStaysRevoked
<1>2. ASSUME NEW a \in Actor, InvalidateTokenCache(a)
      PROVE  RevokedStaysRevoked'
  BY <1>2 DEF InvalidateTokenCache, RevokedStaysRevoked
<1>3. CASE LoadTokens
  BY <1>3, <1>t DEF LoadTokens, TypeOK, Monotone, RevokedStaysRevoked
<1>4. CASE CacheTokens
  BY <1>4, <1>t DEF CacheTokens, RevokedStaysRevoked
<1>5. ASSUME NEW a \in Actor,
             \/ Commit(a) \/ Unchanged(a) \/ Renewed(a) \/ Pull(a)
             \/ LoadCompiled(a) \/ Apply(a) \/ ReloadFails(a)
      PROVE  UNCHANGED <<cache, fill, acked>>
  BY <1>5 DEF Commit, Unchanged, Renewed, Pull, LoadCompiled, Apply, ReloadFails
<1>6. LeaderCommits \/ UNCHANGED vars => UNCHANGED <<cache, fill, acked>>
  BY DEF LeaderCommits, vars
<1>7. QED
  BY <1>1, <1>2, <1>3, <1>4, <1>5, <1>6 DEF Next, Reloading

\* At start nothing is acknowledged and nothing cached.
LEMMA InitInv == Init => IInv
<1> SUFFICES ASSUME Init PROVE IInv
  OBVIOUS
<1>1. raced \in BOOLEAN /\ role \in Roles
  BY DEF Init
<1>2. TypeOK
  BY <1>1, ReloadAssumption DEF Init, TypeOK, Rest, Stage, Part
<1>3. Monotone /\ RevokedStaysRevoked
  BY ReloadAssumption DEF Init, Monotone, RevokedStaysRevoked, Rest
<1>4. QED
  BY <1>2, <1>3 DEF IInv

\* Every state of the reload machinery is well formed.
THEOREM TypeCorrect == Spec => []TypeOK
<1>1. Init => TypeOK
  BY InitInv DEF IInv
<1>2. TypeOK /\ [Next]_vars => TypeOK'
  BY NextType
<1>3. QED
  BY <1>1, <1>2, PTL DEF Spec

\* However many reloads and bearer requests race and fail, a token set older
\* than a change answered with success is neither cached nor about to be.
THEOREM RevocationHolds == Spec => []RevokedStaysRevoked
<1>1. Init => IInv
  BY InitInv
<1>2. IInv /\ [Next]_vars => IInv'
  BY NextType, NextMonotone, NextRevoked DEF IInv
<1>3. IInv => RevokedStaysRevoked
  BY DEF IInv
<1>4. QED
  BY <1>1, <1>2, <1>3, PTL DEF Spec

----------------------------------------------------------------------------
(* What holds as long as no two reloads overlapped.                        *)

\* The parts a reload has applied when it is about to apply another.
Applied ==
    [early |-> {}, late |-> {"early"}, router |-> {"early", "late"},
     auth |-> {"early", "late", "router"}, drop |-> Part]

\* What actor a has loaded is as new as its own commit and as every answer
\* given, and the parts it has passed run it.
Loaded(a) ==
    actor[a].at \notin {"rest", "load"} =>
        /\ actor[a].cfg >= acked /\ actor[a].cfg >= actor[a].ver
        /\ \A p \in Applied[actor[a].at] : running[p] = actor[a].cfg

\* One reload at a time; what runs is as new as every answer at any moment,
\* and the authenticator lags the router in one stage only.
Serial ==
    /\ \A a, b \in Actor : actor[a].at # "rest" /\ actor[b].at # "rest" => a = b
    /\ \A p \in Part : running[p] >= acked
    /\ \A a \in Actor : Loaded(a)
    /\ (\A a \in Actor : actor[a].at # "auth") => running["auth"] = running["router"]

SerialInv == IInv /\ (~raced => Serial)

\* A change that is not overlapped starts from rest.
LEMMA StartSerial ==
    ASSUME IInv, Serial, NEW a \in Actor, NEW v \in Nat, Start(a, v),
           UNCHANGED <<running, acked>>, ~raced'
    PROVE  Serial'
<1>1. TypeOK
  BY DEF IInv
<1>2. Quiet
  BY DEF Start
<1>3. \A b \in Actor : actor'[b].at = IF b = a THEN "load" ELSE "rest"
  BY <1>1, <1>2 DEF Start, Quiet, TypeOK
<1>4. \A b \in Actor : Loaded(b)'
  BY <1>3 DEF Loaded
<1>5. running'["auth"] = running'["router"]
  BY <1>2 DEF Quiet, Serial
<1>6. QED
  BY <1>3, <1>4, <1>5 DEF Serial

\* The load sees every version anyone waits for or was answered about.
LEMMA LoadSerial ==
    ASSUME IInv, Serial, NEW a \in Actor, LoadCompiled(a)
    PROVE  Serial'
<1>1. TypeOK /\ Monotone
  BY DEF IInv
<1>2. /\ \A b \in Actor : b # a => actor'[b] = actor[b]
      /\ actor'[a].at = "early" /\ actor'[a].ver = actor[a].ver
      /\ actor'[a].cfg = stored
  BY <1>1 DEF LoadCompiled, TypeOK
<1>3. UNCHANGED <<running, acked>> /\ actor[a].at = "load"
  BY DEF LoadCompiled
<1>4. Loaded(a)'
  BY <1>1, <1>2, <1>3 DEF Loaded, Monotone, Applied, TypeOK
<1>5. \A b \in Actor : Loaded(b)'
  BY <1>2, <1>3, <1>4 DEF Serial, Loaded
<1>6. \A b, c \in Actor : actor'[b].at # "rest" /\ actor'[c].at # "rest" => b = c
  BY <1>2, <1>3 DEF Serial
<1>7. (\A b \in Actor : actor'[b].at # "auth") => running'["auth"] = running'["router"]
  BY <1>2, <1>3 DEF Serial
<1>8. QED
  BY <1>3, <1>5, <1>6, <1>7 DEF Serial

\* A stage applies what was loaded, and the authenticator follows the router
\* at the next one.
LEMMA ApplySerial ==
    ASSUME IInv, Serial, NEW a \in Actor, Apply(a)
    PROVE  Serial'
<1>1. TypeOK
  BY DEF IInv
<1> DEFINE p == actor[a].at
           q == After[p]
<1>2. /\ p \in Part /\ acked' = acked
      /\ running' = [running EXCEPT ![p] = actor[a].cfg]
      /\ actor' = [actor EXCEPT ![a].at = q]
  BY DEF Apply, Proceed
<1>3. /\ \A b \in Actor : b # a => actor'[b] = actor[b]
      /\ actor'[a].at = q /\ actor'[a].ver = actor[a].ver
      /\ actor'[a].cfg = actor[a].cfg
  BY <1>1, <1>2 DEF TypeOK
<1>4. \A b \in Actor : b # a => actor[b].at = "rest"
  BY <1>2 DEF Serial, Part
<1>5. /\ actor[a].cfg >= acked /\ actor[a].cfg >= actor[a].ver
      /\ \A x \in Applied[p] : running[x] = actor[a].cfg
  BY <1>2 DEF Serial, Loaded, Part
<1>6. /\ running'[p] = actor[a].cfg
      /\ \A x \in Part : x # p => running'[x] = running[x]
  BY <1>1, <1>2 DEF TypeOK
<1>7. Applied[q] = Applied[p] \cup {p} /\ q \notin {"rest", "load"}
  BY <1>2 DEF Applied, After, Part
<1>8. Applied[p] \subseteq Part
  BY <1>2 DEF Applied, Part
<1>9. Loaded(a)'
  BY <1>2, <1>3, <1>5, <1>6, <1>7, <1>8 DEF Loaded
<1>10. \A b \in Actor : Loaded(b)'
  BY <1>3, <1>4, <1>9 DEF Loaded
<1>11. \A x \in Part : running'[x] >= acked'
  BY <1>2, <1>5, <1>6 DEF Serial
<1>12. \A b, c \in Actor : actor'[b].at # "rest" /\ actor'[c].at # "rest" => b = c
  BY <1>3, <1>4
<1>13. ASSUME q # "auth" PROVE running'["auth"] = running'["router"]
  <2>1. CASE p = "auth"
    BY <2>1, <1>5, <1>6 DEF Applied, Part
  <2>2. CASE p \in {"early", "late"}
    BY <2>2, <1>4, <1>6 DEF Serial, Part
  <2>3. CASE p = "router"
    BY <2>3, <1>13 DEF After
  <2>4. QED
    BY <1>2, <2>1, <2>2, <2>3 DEF Part
<1>14. QED
  BY <1>3, <1>10, <1>11, <1>12, <1>13 DEF Serial

\* A reload ends, with or without its answer, where auth and router agree.
LEMMA EndSerial ==
    ASSUME IInv, Serial, NEW a \in Actor,
           InvalidateTokenCache(a) \/ ReloadFails(a)
    PROVE  Serial'
<1>1. TypeOK
  BY DEF IInv
<1>2. /\ actor' = [actor EXCEPT ![a].at = "rest"] /\ running' = running
      /\ actor[a].at \in {"load", "late", "router", "drop"}
  BY DEF InvalidateTokenCache, ReloadFails, Proceed
<1>3. \A b \in Actor : actor'[b].at = "rest"
  BY <1>1, <1>2 DEF Serial, TypeOK
<1>4. \A b \in Actor : Loaded(b)'
  BY <1>3 DEF Loaded
<1>5. running["auth"] = running["router"]
  BY <1>2 DEF Serial
<1>6. \A p \in Part : running[p] >= acked'
  <2>1. CASE ReloadFails(a)
    BY <2>1 DEF ReloadFails, Serial
  <2>2. CASE InvalidateTokenCache(a)
    <3>1. actor[a].at = "drop" /\ acked' = Max2(acked, actor[a].ver)
      BY <2>2 DEF InvalidateTokenCache
    <3>2. \A p \in Part : running[p] = actor[a].cfg
      BY <3>1 DEF Serial, Loaded, Applied
    <3>3. actor[a].cfg >= acked /\ actor[a].cfg >= actor[a].ver
      BY <3>1 DEF Serial, Loaded
    <3>4. QED
      BY <3>1, <3>2, <3>3 DEF Max2
  <2>3. QED
    BY <2>1, <2>2
<1>7. QED
  BY <1>2, <1>3, <1>4, <1>5, <1>6 DEF Serial

\* Every step keeps what serial reloads establish.
LEMMA NextSerial ==
    ASSUME SerialInv, [Next]_vars
    PROVE  SerialInv'
<1>1. IInv /\ (~raced => Serial)
  BY DEF SerialInv
<1>2. IInv'
  BY <1>1, NextType, NextMonotone, NextRevoked DEF IInv
<1> SUFFICES ASSUME ~raced' PROVE Serial'
  BY <1>2 DEF SerialInv
<1>3. raced => raced'
  BY <1>1 DEF Next, Commit, Unchanged, Renewed, Pull, Start, Reloading, LoadCompiled,
     Apply, InvalidateTokenCache, ReloadFails, LeaderCommits, LoadTokens, CacheTokens, vars
<1>4. Serial /\ TypeOK
  BY <1>1, <1>3 DEF IInv
<1>5. CASE UNCHANGED <<running, acked, actor>>
  BY <1>4, <1>5 DEF Serial, Loaded
<1>6. ASSUME NEW a \in Actor, Commit(a) \/ Renewed(a) \/ Pull(a) PROVE Serial'
  <2>1. PICK v \in Nat : Start(a, v)
    BY <1>4, <1>6 DEF Commit, Renewed, Pull, TypeOK
  <2>2. UNCHANGED <<running, acked>>
    BY <1>6 DEF Commit, Renewed, Pull
  <2>3. QED
    BY <1>1, <1>4, <2>1, <2>2, StartSerial
<1>7. ASSUME NEW a \in Actor, Reloading(a) \/ ReloadFails(a) PROVE Serial'
  BY <1>1, <1>4, <1>7, LoadSerial, ApplySerial, EndSerial DEF Reloading
<1>8. ASSUME NEW a \in Actor, Unchanged(a) PROVE UNCHANGED <<running, acked, actor>>
  BY <1>8 DEF Unchanged
<1>9. LeaderCommits \/ LoadTokens \/ CacheTokens \/ UNCHANGED vars
      => UNCHANGED <<running, acked, actor>>
  BY DEF LeaderCommits, LoadTokens, CacheTokens, vars
<1>10. QED
  BY <1>5, <1>6, <1>7, <1>8, <1>9 DEF Next

\* The process starts with one configuration in every part.
LEMMA InitSerial == Init => SerialInv
<1> SUFFICES ASSUME Init PROVE Serial
  BY InitInv DEF SerialInv
<1>1. \A a \in Actor : actor[a].at = "rest"
  BY DEF Init, Rest
<1>2. \A a \in Actor : Loaded(a)
  BY <1>1 DEF Loaded
<1>3. QED
  BY <1>1, <1>2 DEF Init, Serial, Part

\* What reloads that do not overlap establish, in every reachable state.
LEMMA SerialThroughout == Spec => []SerialInv
<1>1. SerialInv /\ [Next]_vars => SerialInv'
  BY NextSerial
<1>2. QED
  BY <1>1, InitSerial, PTL DEF Spec

\* A change answered with success is live in every part of the process while
\* reloads do not overlap, whichever of them fail and at whichever stage.
THEOREM AnswersAreLive == Spec => []AnsweredMeansLive
<1>1. SerialInv => AnsweredMeansLive
  BY DEF SerialInv, Serial, AnsweredMeansLive
<1>2. QED
  BY <1>1, SerialThroughout, PTL

\* A rejected reload leaves the authenticator with the router's configuration.
THEOREM AuthenticatorFollows == Spec => []AuthFollowsRouter
<1>1. SerialInv => AuthFollowsRouter
  BY DEF SerialInv, Serial, AuthFollowsRouter, Quiet
<1>2. QED
  BY <1>1, SerialThroughout, PTL

=============================================================================
