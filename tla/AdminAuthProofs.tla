-------------------------- MODULE AdminAuthProofs --------------------------
(***************************************************************************)
(* Proofs about AdminAuth, for any number of browsers, names, requests in  *)
(* flight and sessions, any limits and any configurations.                 *)
(***************************************************************************)
EXTENDS AdminAuth, FiniteSetTheorems, TLAPS

Idps == {cf.idp : cf \in Conf} \cup {NoOne}
Issuers == {p.issuer : p \in Idps \ {NoOne}} \cup {NoOne}
RoleNames == {"admin"} \cup {MapRole(Groups[w], p.roles) : w \in Client, p \in Idps \ {NoOne}}

Entry == [fails : Nat, reset : Nat]
Half == [kind : {"oidc", "totp"}, iss : Issuers, by : Client, exp : Nat]
Session == [who : Client \cup {NoOne}, local : BOOLEAN, role : RoleNames, exp : Nat,
            allowed : BOOLEAN]
Jar == [state : Token \cup {NoOne}, sid : Sid \cup {NoOne}]
LocalPc == {"user", "verify", "second", "code"}
Call == [pc : LocalPc \cup {"idle", "client", "discover", "pend", "exchange", "mint", "note",
                            "slide"},
         c : Client \cup {NoOne}, u : User \cup {NoOne}, t : Token \cup {NoOne},
         good : BOOLEAN, code : Steps, from : Issuers, idp : Idps, iss : Issuers,
         s : Sid \cup {NoOne}, who : Client \cup {NoOne}, totp : BOOLEAN,
         mine : SUBSET (Client \cup User), allowed : BOOLEAN]

\* What a request carries at each point of its handler.
WellFormed(q) ==
    /\ q.pc # "idle" => q.c \in Client
    /\ q.pc \in {"discover", "pend", "exchange"} => q.idp # NoOne
    /\ q.pc \in LocalPc \cup {"note"} => q.idp = NoOne /\ q.u \in User
    /\ q.pc = "mint" /\ q.idp = NoOne => q.u \in User
    /\ q.pc \in {"user", "verify"} /\ q.totp => q.t \in Token
    /\ q.pc = "slide" => q.s \in Sid
    /\ q.pc \in {"client", "discover", "exchange"} /\ q.t # NoOne => q.who \in Client
    /\ q.pc = "exchange" => q.t # NoOne
    /\ q.pc = "mint" /\ q.idp # NoOne => q.who \in Client
    /\ q.pc = "user" => q.mine \subseteq {q.c}

GatesType ==
    /\ ipGate \in [Client -> Entry \cup {NoOne}]
    /\ userGate \in [User -> Entry \cup {NoOne}]
    /\ startGate \in [Client -> Entry \cup {NoOne}]
    /\ guesses \in [Client \cup User -> [n : Nat, at : Nat]]
StateType ==
    /\ authNow \in Nat /\ conf \in Conf /\ totp \in BOOLEAN
    /\ idpClient \in Idps
    /\ pending \in [Token -> Half \cup {NoOne}]
    /\ lastStep \in Steps \cup {NoOne}
    /\ sessions \in [Sid -> Session \cup {NoOne}]
    /\ jar \in [Client -> Jar]
    /\ spent \in [Steps -> Nat]
    /\ out \subseteq Sid
CallsType == req \in [Req -> Call] /\ \A r \in Req : WellFormed(req[r])

AuthTypeOK == GatesType /\ StateType /\ CallsType

----------------------------------------------------------------------------
(* Requests.                                                               *)

\* A slot at rest.
LEMMA NoCallOK == NoCall \in Call /\ WellFormed(NoCall) /\ NoCall.mine = {} /\ NoCall.s = NoOne
                  /\ NoCall.pc = "idle" /\ NoCall.t = NoOne
<1>1. 0 \in Steps /\ NoOne \in Idps /\ NoOne \in Issuers
  BY AuthAssumption DEF Steps, Idps, Issuers
<1>2. NoCall \in Call
  BY <1>1 DEF NoCall, Call
<1>3. WellFormed(NoCall)
  BY DEF NoCall, WellFormed, LocalPc
<1>4. QED
  BY <1>2, <1>3 DEF NoCall

\* One request moves on with what it should carry.
LEMMA CallMoves ==
    ASSUME CallsType, NEW r \in Req, NEW v \in Call, WellFormed(v),
           req' = [req EXCEPT ![r] = v]
    PROVE  CallsType' /\ req'[r] = v /\ \A q \in Req \ {r} : req'[q] = req[q]
BY DEF CallsType

\* One request ends.
LEMMA CallEnds ==
    ASSUME CallsType, NEW r \in Req, Done(r)
    PROVE  CallsType' /\ req'[r] = NoCall /\ \A q \in Req \ {r} : req'[q] = req[q]
BY NoCallOK, CallMoves DEF Done

\* One request goes to the next point, carrying what it has.
LEMMA CallGoes ==
    ASSUME CallsType, NEW r \in Req, NEW pc, Goto(r, pc), [req[r] EXCEPT !.pc = pc] \in Call,
           WellFormed([req[r] EXCEPT !.pc = pc])
    PROVE  /\ CallsType' /\ req'[r] = [req[r] EXCEPT !.pc = pc]
           /\ \A q \in Req \ {r} : req'[q] = req[q]
<1>1. req' = [req EXCEPT ![r] = [req[r] EXCEPT !.pc = pc]]
  BY DEF Goto
<1>2. QED
  BY <1>1, CallMoves

----------------------------------------------------------------------------
(* The gates.                                                              *)

GateOf(K) == [K -> Entry \cup {NoOne}]

\* What looking at a gate leaves: entries, less some that have run out.
Thinned(g, h) == \A k \in DOMAIN g : h[k] = g[k] \/ (h[k] = NoOne /\ Lapsed(g[k]))

\* Sweeping, looking and refusing count nothing.
LEMMA GateThins ==
    ASSUME NEW K, NEW g \in GateOf(K), NEW k \in K
    PROVE  /\ Sweep(g) \in GateOf(K) /\ Thinned(g, Sweep(g))
           /\ SweptKeys(g) \in GateOf(K) /\ Thinned(g, SweptKeys(g))
           /\ Looked(g, k) \in GateOf(K) /\ Thinned(g, Looked(g, k))
           /\ Refused(g, k) \in GateOf(K) /\ Thinned(g, Refused(g, k))
<1>1. ASSUME NEW h \in GateOf(K)
      PROVE  Sweep(h) \in GateOf(K) /\ Thinned(h, Sweep(h))
  BY DEF Sweep, GateOf, Thinned
<1>2. ASSUME NEW h \in GateOf(K)
      PROVE  SweptKeys(h) \in GateOf(K) /\ Thinned(h, SweptKeys(h))
  <2>1. Thinned(h, h)
    BY DEF Thinned
  <2>2. QED
    BY <1>1, <2>1 DEF SweptKeys
<1>3. Looked(g, k) \in GateOf(K) /\ Thinned(g, Looked(g, k))
  <2>1. CASE g[k] = NoOne
    BY <1>2, <2>1 DEF Looked
  <2>2. CASE g[k] # NoOne
    BY <2>2 DEF Looked, GateOf, Thinned
  <2>3. QED
    BY <2>1, <2>2
<1>4. Refused(g, k) \in GateOf(K) /\ Thinned(g, Refused(g, k))
  <2>1. CASE g[k] = NoOne \/ Lapsed(g[k])
    <3> DEFINE h == [g EXCEPT ![k] = NoOne]
    <3>1. h \in GateOf(K) /\ Thinned(g, h)
      BY <2>1 DEF GateOf, Thinned
    <3>2. SweptKeys(h) \in GateOf(K) /\ Thinned(h, SweptKeys(h))
      BY <1>2, <3>1
    <3>3. Refused(g, k) = SweptKeys(h)
      BY <2>1 DEF Refused
    <3> HIDE DEF h
    <3>4. QED
      BY <3>1, <3>2, <3>3 DEF GateOf, Thinned
  <2>2. CASE ~(g[k] = NoOne \/ Lapsed(g[k]))
    BY <2>2 DEF Refused, GateOf, Thinned
  <2>3. QED
    BY <2>1, <2>2
<1>5. QED
  BY <1>1, <1>2, <1>3, <1>4

\* An attempt is counted for its key and for no other.
LEMMA GateCounts ==
    ASSUME authNow \in Nat, NEW K, NEW g \in GateOf(K), NEW k \in K
    PROVE  /\ Begun(g, k) \in GateOf(K)
           /\ Begun(g, k)[k] = [fails |-> IF g[k] = NoOne \/ Lapsed(g[k]) THEN 1
                                          ELSE g[k].fails + 1,
                                reset |-> authNow + Lockout]
           /\ \A j \in K \ {k} : \/ Begun(g, k)[j] = g[j]
                                 \/ Begun(g, k)[j] = NoOne /\ Lapsed(g[j])
<1> USE AuthAssumption
<1>1. ASSUME NEW h \in GateOf(K), NEW n \in Nat
      PROVE  /\ Count(h, k, n, Lockout) \in GateOf(K)
             /\ Count(h, k, n, Lockout)[k] = [fails |-> n, reset |-> authNow + Lockout]
             /\ \A j \in K \ {k} : Count(h, k, n, Lockout)[j] = h[j]
  <2>1. [fails |-> n, reset |-> authNow + Lockout] \in Entry
    BY DEF Entry
  <2>2. QED
    BY <2>1 DEF Count, GateOf
<1>2. CASE g[k] = NoOne \/ Lapsed(g[k])
  <2> DEFINE h == [g EXCEPT ![k] = NoOne]
  <2>1. h \in GateOf(K) /\ \A j \in K \ {k} : h[j] = g[j]
    BY DEF GateOf
  <2>2. SweptKeys(h) \in GateOf(K) /\ Thinned(h, SweptKeys(h))
    BY <2>1, GateThins
  <2>3. Begun(g, k) = Count(SweptKeys(h), k, 1, Lockout)
    BY <1>2 DEF Begun
  <2> HIDE DEF h
  <2>4. QED
    BY <1>1, <1>2, <2>1, <2>2, <2>3 DEF Thinned, GateOf
<1>3. CASE ~(g[k] = NoOne \/ Lapsed(g[k]))
  <2>1. g[k].fails + 1 \in Nat
    BY <1>3 DEF GateOf, Entry
  <2>2. QED
    BY <1>1, <1>3, <2>1 DEF Begun
<1>4. QED
  BY <1>2, <1>3

\* A started login is counted.
LEMMA GateRecords ==
    ASSUME authNow \in Nat, NEW K, NEW g \in GateOf(K), NEW k \in K
    PROVE  Recorded(g, k) \in GateOf(K)
<1> USE AuthAssumption
<1>1. ASSUME NEW h \in GateOf(K), NEW n \in Nat
      PROVE  Count(h, k, n, StartWindow) \in GateOf(K)
  <2>1. [fails |-> n, reset |-> authNow + StartWindow] \in Entry
    BY DEF Entry
  <2>2. QED
    BY <2>1 DEF Count, GateOf
<1>2. CASE g[k] = NoOne
  BY <1>1, <1>2, GateThins DEF Recorded
<1>3. CASE g[k] # NoOne
  <2>1. (IF Lapsed(g[k]) THEN 1 ELSE g[k].fails + 1) \in Nat
    BY <1>3 DEF GateOf, Entry
  <2>2. QED
    BY <1>1, <1>3, <2>1 DEF Recorded
<1>4. QED
  BY <1>2, <1>3

----------------------------------------------------------------------------
(* Every step keeps the state well formed.                                 *)

\* A request for the provider: what BeginLogin, the callback and their calls to
\* the provider do.
LEMMA ProviderTyped ==
    ASSUME AuthTypeOK, NEW r \in Req,
           \/ \E c \in Client : StartLogin(r, c) \/ \E t \in Token : Callback(r, c, t)
           \/ OIDCClient(r) \/ Discover(r) \/ AddPending(r) \/ Exchange(r)
    PROVE  AuthTypeOK'
<1> USE AuthAssumption
<1>t. GatesType /\ StateType /\ CallsType /\ req[r] \in Call /\ WellFormed(req[r])
  BY DEF AuthTypeOK, CallsType
<1>k. \A t \in Token : pending[t] = NoOne \/ pending[t] \in Half
  BY <1>t DEF StateType
<1>c. Collected \in [Token -> Half \cup {NoOne}]
  BY <1>k DEF Collected
<1>1. ASSUME NEW c \in Client, StartLogin(r, c)
      PROVE  AuthTypeOK'
  <2> DEFINE v == [NoCall EXCEPT !.pc = "client", !.c = c]
  <2>1. v \in Call /\ WellFormed(v)
    BY NoCallOK DEF NoCall, Call, WellFormed, LocalPc
  <2>2. CallsType'
    BY <1>1, <1>t, <2>1, CallMoves DEF StartLogin
  <2>3. GatesType'
    BY <1>1, <1>t, GateThins DEF StartLogin, GatesType, GateOf
  <2>4. QED
    BY <1>1, <1>t, <2>2, <2>3 DEF StartLogin, AuthTypeOK, StateType, world
<1>2. ASSUME NEW c \in Client, NEW t \in Token, Callback(r, c, t)
      PROVE  AuthTypeOK'
  <2>1. jar' \in [Client -> Jar]
    BY <1>2, <1>t DEF Callback, StateType, Jar
  <2>2. pending' \in [Token -> Half \cup {NoOne}]
    BY <1>2, <1>t DEF Callback, StateType, RemovePending
  <2>3. CallsType'
    <3>1. CASE UNCHANGED req
      BY <1>t, <3>1 DEF CallsType
    <3>2. CASE ~UNCHANGED req
      <4> DEFINE v == [NoCall EXCEPT !.pc = "client", !.c = c, !.t = t, !.who = pending[t].by,
                                     !.from = pending[t].iss]
      <4>1. Bound(c, t) /\ pending[t] # NoOne /\ req' = [req EXCEPT ![r] = v]
        BY <1>2, <3>2 DEF Callback
      <4>2. pending[t] \in Half
        BY <1>k, <4>1
      <4>3. v \in Call /\ v.pc = "client" /\ v.c = c /\ v.who = pending[t].by /\ v.t = t
        BY <4>2, NoCallOK DEF NoCall, Call, LocalPc, Half
      <4>4. WellFormed(v)
        BY <4>2, <4>3 DEF WellFormed, LocalPc, Half
      <4> HIDE DEF v
      <4>5. QED
        BY <1>t, <4>1, <4>3, <4>4, CallMoves
    <3>3. QED
      BY <3>1, <3>2
  <2>4. QED
    BY <1>2, <1>t, <2>1, <2>2, <2>3 DEF Callback, AuthTypeOK, StateType, GatesType, world, gates
<1>3. CASE OIDCClient(r)
  <2> DEFINE next == IF req[r].t = NoOne THEN "pend" ELSE "exchange"
             v == [req[r] EXCEPT !.idp = conf.idp, !.iss = idpClient.issuer, !.pc = next]
             w == [req[r] EXCEPT !.idp = conf.idp, !.pc = "discover"]
  <2>1. conf.idp \in Idps
    BY <1>t DEF StateType, Idps
  <2>3. ASSUME conf.idp # NoOne, idpClient # NoOne, req' = [req EXCEPT ![r] = v]
        PROVE  CallsType'
    <3>1. idpClient.issuer \in Issuers
      BY <1>t, <2>3 DEF StateType, Issuers
    <3>2. v \in Call /\ WellFormed(v)
      BY <1>3, <1>t, <2>1, <2>3, <3>1 DEF OIDCClient, Call, WellFormed, LocalPc
    <3>3. QED
      BY <1>t, <2>3, <3>2, CallMoves
  <2>4. ASSUME conf.idp # NoOne, req' = [req EXCEPT ![r] = w]
        PROVE  CallsType'
    <3>1. w \in Call /\ WellFormed(w)
      BY <1>3, <1>t, <2>1, <2>4 DEF OIDCClient, Call, WellFormed, LocalPc
    <3>2. QED
      BY <1>t, <2>4, <3>1, CallMoves
  <2>5. CallsType'
    BY <1>3, <2>3, <2>4, <1>t, CallEnds DEF OIDCClient
  <2>6. QED
    BY <1>3, <1>t, <2>5 DEF OIDCClient, AuthTypeOK, StateType, GatesType, env, gates
<1>4. CASE Discover(r)
  <2> DEFINE next == IF req[r].t = NoOne THEN "pend" ELSE "exchange"
             v == [req[r] EXCEPT !.iss = req[r].idp.issuer, !.pc = next]
  <2>1. req[r].idp \in Idps \ {NoOne}
    BY <1>4, <1>t DEF Discover, Call, WellFormed
  <2>2. v \in Call /\ WellFormed(v)
    <3>1. req[r].idp.issuer \in Issuers
      BY <2>1 DEF Issuers
    <3>2. v \in Call
      BY <1>4, <1>t, <2>1, <3>1 DEF Discover, Call, LocalPc
    <3>3. QED
      BY <1>4, <1>t, <2>1, <3>1, <3>2 DEF Discover, Call, WellFormed, LocalPc
  <2>3. req' = [req EXCEPT ![r] = v] => CallsType'
    BY <1>t, <2>2, CallMoves
  <2>4. CallsType' /\ idpClient' \in Idps
    BY <1>4, <1>t, <2>1, <2>3, CallEnds DEF Discover, StateType
  <2>5. QED
    BY <1>4, <1>t, <2>4 DEF Discover, AuthTypeOK, StateType, GatesType, env, gates
<1>5. CASE AddPending(r)
  <2>1. req[r].c \in Client /\ req[r].iss \in Issuers
    BY <1>5, <1>t DEF AddPending, Call, WellFormed
  <2>2. [kind |-> "oidc", iss |-> req[r].iss, by |-> req[r].c, exp |-> authNow + PendTTL]
            \in Half
    BY <1>t, <2>1 DEF Half, StateType
  <2>3. pending' \in [Token -> Half \cup {NoOne}]
    BY <1>5, <1>c, <2>2 DEF AddPending
  <2>4. jar' \in [Client -> Jar]
    <3>1. ASSUME NEW t \in Token
          PROVE  [jar EXCEPT ![req[r].c].state = t] \in [Client -> Jar]
      BY <1>t, <2>1 DEF StateType, Jar
    <3>2. jar' = jar \/ \E t \in Token : jar' = [jar EXCEPT ![req[r].c].state = t]
      BY <1>5 DEF AddPending
    <3>3. jar \in [Client -> Jar]
      BY <1>t DEF StateType
    <3>4. QED
      BY <3>1, <3>2, <3>3
  <2>5. startGate' \in GateOf(Client)
    BY <1>5, <1>t, <2>1, GateRecords DEF AddPending, GatesType, StateType, GateOf
  <2>6. CallsType'
    BY <1>5, <1>t, CallEnds DEF AddPending
  <2>7. QED
    BY <1>5, <1>t, <2>3, <2>4, <2>5, <2>6
    DEF AddPending, AuthTypeOK, StateType, GatesType, GateOf, env
<1>6. CASE Exchange(r)
  <2>1. [req[r] EXCEPT !.pc = "mint"] \in Call /\ WellFormed([req[r] EXCEPT !.pc = "mint"])
    BY <1>6, <1>t DEF Exchange, Call, WellFormed, LocalPc
  <2>2. CallsType'
    BY <1>6, <1>t, <2>1, CallEnds, CallGoes DEF Exchange
  <2>3. QED
    BY <1>6, <1>t, <2>2 DEF Exchange, AuthTypeOK, StateType, GatesType, env, gates
<1>7. QED
  BY <1>1, <1>2, <1>3, <1>4, <1>5, <1>6

\* An attempt taken up: the gates and the request.
LEMMA ChargeTyped ==
    ASSUME AuthTypeOK, NEW r \in Req, NEW k \in Client \cup User, NEW rec \in Call,
           WellFormed([rec EXCEPT !.mine = @ \cup {k}]), Charge(r, k, rec)
    PROVE  /\ CallsType' /\ guesses' \in [Client \cup User -> [n : Nat, at : Nat]]
           /\ req'[r] = [rec EXCEPT !.mine = @ \cup {k}]
<1>1. [rec EXCEPT !.mine = @ \cup {k}] \in Call
  BY DEF Call
<1>2. ASSUME NEW q \in Req
      PROVE  [req[q] EXCEPT !.mine = @ \ {k}] \in Call /\ WellFormed([req[q] EXCEPT !.mine = @ \ {k}])
  BY DEF AuthTypeOK, CallsType, Call, WellFormed, LocalPc
<1>3. CallsType' /\ req'[r] = [rec EXCEPT !.mine = @ \cup {k}]
  BY <1>1, <1>2 DEF Charge, AuthTypeOK, CallsType
<1>4. guesses' \in [Client \cup User -> [n : Nat, at : Nat]]
  BY DEF Charge, AuthTypeOK, GatesType, StateType
<1>5. QED
  BY <1>3, <1>4

\* A failed attempt.
LEMMA FailTyped ==
    ASSUME AuthTypeOK, NEW r \in Req, Fail(r)
    PROVE  /\ CallsType' /\ guesses' \in [Client \cup User -> [n : Nat, at : Nat]]
           /\ req'[r] = NoCall /\ \A q \in Req \ {r} : req'[q] = req[q]
<1>1. guesses' \in [Client \cup User -> [n : Nat, at : Nat]]
  BY DEF Fail, AuthTypeOK, GatesType
<1>2. QED
  BY <1>1, CallEnds DEF Fail, AuthTypeOK

\* A request as it is presented.
LEMMA CallPresented ==
    ASSUME NEW rec \in Call, NEW c \in Client, NEW u \in User, NEW a \in BOOLEAN
    PROVE  [rec EXCEPT !.pc = "user", !.c = c, !.u = u, !.allowed = a] \in Call
<1>1. "user" \in LocalPc
  BY DEF LocalPc
<1>2. QED
  BY <1>1 DEF Call

\* The handlers of the local login begin by reserving an attempt.
LEMMA PresentTyped ==
    ASSUME AuthTypeOK, NEW r \in Req, NEW c \in Client, NEW u \in User, NEW rec \in Call,
           rec.idp = NoOne, rec.mine = {}, rec.totp => rec.t \in Token,
           Present(r, c, u, rec)
    PROVE  AuthTypeOK'
<1>t. GatesType /\ StateType /\ CallsType /\ LocalAllowed(conf) \in BOOLEAN
  BY DEF AuthTypeOK, LocalAllowed
<1> DEFINE v == [rec EXCEPT !.pc = "user", !.c = c, !.u = u, !.allowed = LocalAllowed(conf)]
<1>1. /\ v \in Call /\ v.pc = "user" /\ v.c = c /\ v.u = u /\ v.mine = {} /\ v.idp = NoOne
      /\ v.totp => v.t \in Token
  <2>1. ASSUME NEW a \in BOOLEAN
        PROVE  LET w == [rec EXCEPT !.pc = "user", !.c = c, !.u = u, !.allowed = a]
               IN  /\ w \in Call /\ w.pc = "user" /\ w.c = c /\ w.u = u /\ w.mine = {}
                   /\ w.idp = NoOne /\ (w.totp => w.t \in Token)
    <3> DEFINE w == [rec EXCEPT !.pc = "user", !.c = c, !.u = u, !.allowed = a]
    <3>1. w \in Call
      BY CallPresented
    <3>2. w.pc = "user" /\ w.c = c /\ w.u = u
      BY DEF Call
    <3>3. w.mine = rec.mine /\ w.idp = rec.idp /\ w.t = rec.t /\ w.totp = rec.totp
      BY DEF Call
    <3> HIDE DEF w
    <3>4. w.totp => w.t \in Token
      BY <3>3
    <3>5. QED
      BY <3>1, <3>2, <3>3, <3>4 DEF w
  <2>2. QED
    BY <1>t, <2>1
<1> HIDE DEF v
<1>2. WellFormed([v EXCEPT !.mine = @ \cup {c}])
  BY <1>1 DEF Call, WellFormed, LocalPc
<1>3. userGate' \in GateOf(User)
  BY <1>t, GateThins DEF Present, GatesType, GateOf
<1>4. ipGate' \in GateOf(Client)
  <2>1. ipGate \in GateOf(Client) /\ authNow \in Nat
    BY <1>t DEF GatesType, StateType, GateOf
  <2>2. Begun(ipGate, c) \in GateOf(Client)
    BY <2>1, GateCounts
  <2>3. Refused(ipGate, c) \in GateOf(Client)
    BY <2>1, GateThins
  <2>4. QED
    BY <2>2, <2>3 DEF Present
<1>5. CallsType' /\ guesses' \in [Client \cup User -> [n : Nat, at : Nat]]
  <2>1. CASE Charge(r, c, v)
    BY <1>1, <1>2, <2>1, ChargeTyped
  <2>2. CASE UNCHANGED <<req, guesses>>
    BY <1>t, <2>2 DEF CallsType, GatesType
  <2>3. QED
    BY <2>1, <2>2 DEF Present, v
<1>6. QED
  BY <1>t, <1>3, <1>4, <1>5 DEF Present, AuthTypeOK, StateType, GatesType, GateOf, world

\* The handlers of the local login, up to the session.
LEMMA LocalTyped ==
    ASSUME AuthTypeOK, NEW r \in Req,
           \/ \E c \in Client, u \in User, good \in BOOLEAN : LocalLogin(r, c, u, good)
           \/ \E c \in Client, u \in User, t \in Token, n \in Steps : LocalTOTP(r, c, u, t, n)
           \/ ReserveUser(r) \/ VerifyPassword(r) \/ AskCode(r) \/ Redeem(r) \/ CheckCode(r)
    PROVE  AuthTypeOK'
<1>t. GatesType /\ StateType /\ CallsType /\ req[r] \in Call /\ WellFormed(req[r])
  BY DEF AuthTypeOK, CallsType
<1>c. Collected \in [Token -> Half \cup {NoOne}]
  BY <1>t DEF Collected, StateType
<1>1. ASSUME NEW c \in Client, NEW u \in User, NEW good \in BOOLEAN, LocalLogin(r, c, u, good)
      PROVE  AuthTypeOK'
  <2> DEFINE rec == [NoCall EXCEPT !.good = good]
  <2>1. rec \in Call /\ rec.idp = NoOne /\ rec.mine = {} /\ (rec.totp => rec.t \in Token)
    BY NoCallOK DEF NoCall, Call
  <2> HIDE DEF rec
  <2>2. QED
    BY <1>1, <2>1, PresentTyped DEF LocalLogin, rec
<1>2. ASSUME NEW c \in Client, NEW u \in User, NEW t \in Token, NEW n \in Steps,
             LocalTOTP(r, c, u, t, n)
      PROVE  AuthTypeOK'
  <2> DEFINE rec == [NoCall EXCEPT !.t = t, !.code = n, !.totp = TRUE]
  <2>1. rec \in Call /\ rec.idp = NoOne /\ rec.mine = {} /\ (rec.totp => rec.t \in Token)
    BY NoCallOK DEF NoCall, Call
  <2> HIDE DEF rec
  <2>2. QED
    BY <1>2, <2>1, PresentTyped DEF LocalTOTP, rec
<1>3. CASE ReserveUser(r)
  <2> DEFINE v == [req[r] EXCEPT !.pc = "verify"]
  <2>1. req[r].u \in User /\ req[r].idp = NoOne /\ req[r].c \in Client
    BY <1>3, <1>t DEF ReserveUser, WellFormed, LocalPc
  <2>2. v \in Call
    BY <1>t DEF Call, LocalPc
  <2>3. WellFormed([v EXCEPT !.mine = @ \cup {req[r].u}])
    BY <1>3, <1>t, <2>1, <2>2 DEF ReserveUser, Call, WellFormed, LocalPc
  <2>4. userGate' \in GateOf(User)
    <3>1. userGate \in GateOf(User) /\ authNow \in Nat
      BY <1>t DEF GatesType, StateType, GateOf
    <3>2. ASSUME NEW u \in User PROVE Begun(userGate, u) \in GateOf(User)
      BY <3>1, GateCounts
    <3>3. Refused(userGate, req[r].u) \in GateOf(User)
      BY <2>1, <3>1, GateThins
    <3>4. QED
      BY <1>3, <2>1, <3>2, <3>3 DEF ReserveUser
  <2>5. CallsType' /\ guesses' \in [Client \cup User -> [n : Nat, at : Nat]]
    BY <1>3, <1>t, <2>1, <2>2, <2>3, ChargeTyped, CallEnds DEF ReserveUser, GatesType
  <2>6. QED
    BY <1>3, <1>t, <2>4, <2>5 DEF ReserveUser, AuthTypeOK, StateType, GatesType, GateOf, env
<1>4. CASE VerifyPassword(r)
  <2>1. ASSUME NEW pc \in {"second", "mint"}
        PROVE  [req[r] EXCEPT !.pc = pc] \in Call /\ WellFormed([req[r] EXCEPT !.pc = pc])
    BY <1>4, <1>t DEF VerifyPassword, Call, WellFormed, LocalPc
  <2>2. CallsType' /\ guesses' \in [Client \cup User -> [n : Nat, at : Nat]]
    BY <1>4, <1>t, <2>1, CallGoes, FailTyped DEF VerifyPassword, GatesType
  <2>3. QED
    BY <1>4, <1>t, <2>2 DEF VerifyPassword, AuthTypeOK, StateType, GatesType, env
<1>5. CASE AskCode(r)
  <2>1. req[r].c \in Client
    BY <1>5, <1>t DEF AskCode, WellFormed
  <2>2. [kind |-> "totp", iss |-> NoOne, by |-> req[r].c, exp |-> authNow + TotpTTL] \in Half
    BY <1>t, <2>1, AuthAssumption DEF Half, StateType, Issuers
  <2>3. pending' \in [Token -> Half \cup {NoOne}]
    BY <1>5, <1>c, <2>2 DEF AskCode
  <2>4. CallsType' /\ guesses' \in [Client \cup User -> [n : Nat, at : Nat]]
    BY <1>5, <1>t, CallEnds, FailTyped DEF AskCode, GatesType
  <2>5. QED
    BY <1>5, <1>t, <2>3, <2>4 DEF AskCode, AuthTypeOK, StateType, GatesType, env
<1>6. CASE Redeem(r)
  <2>1. [req[r] EXCEPT !.pc = "code"] \in Call /\ WellFormed([req[r] EXCEPT !.pc = "code"])
    BY <1>6, <1>t DEF Redeem, Call, WellFormed, LocalPc
  <2>2. CallsType' /\ guesses' \in [Client \cup User -> [n : Nat, at : Nat]]
    BY <1>6, <1>t, <2>1, CallGoes, FailTyped DEF Redeem, GatesType
  <2>3. pending' \in [Token -> Half \cup {NoOne}]
    BY <1>6, <1>t DEF Redeem, RemovePending, StateType
  <2>4. QED
    BY <1>6, <1>t, <2>2, <2>3 DEF Redeem, AuthTypeOK, StateType, GatesType, env
<1>7. CASE CheckCode(r)
  <2>1. [req[r] EXCEPT !.pc = "mint"] \in Call /\ WellFormed([req[r] EXCEPT !.pc = "mint"])
    BY <1>7, <1>t DEF CheckCode, Call, WellFormed, LocalPc
  <2>2. CallsType' /\ guesses' \in [Client \cup User -> [n : Nat, at : Nat]]
    BY <1>7, <1>t, <2>1, CallGoes, FailTyped DEF CheckCode, GatesType
  <2>3. lastStep' \in Steps \cup {NoOne} /\ spent' \in [Steps -> Nat]
    <3>1. req[r].code \in Steps
      BY <1>t DEF Call
    <3>2. QED
      BY <1>7, <1>t, <3>1 DEF CheckCode, StateType
  <2>4. QED
    BY <1>7, <1>t, <2>2, <2>3 DEF CheckCode, AuthTypeOK, StateType, GatesType, env
<1>8. QED
  BY <1>1, <1>2, <1>3, <1>4, <1>5, <1>6, <1>7

\* Sessions are made, extended, deleted and collected.
LEMMA SessionTyped ==
    ASSUME AuthTypeOK,
           \/ \E r \in Req : \/ \E s \in Sid : Mint(r, s)
                             \/ CreateFails(r) \/ Note(r) \/ Slide(r)
                             \/ \E c \in Client : Authenticate(r, c)
           \/ \E c \in Client : Logout(c)
           \/ GC
    PROVE  AuthTypeOK'
<1>t. GatesType /\ StateType /\ CallsType
  BY DEF AuthTypeOK
<1>c. \A r \in Req : req[r] \in Call /\ WellFormed(req[r])
  BY <1>t DEF CallsType
<1>1. ASSUME NEW r \in Req, NEW s \in Sid, Mint(r, s)
      PROVE  AuthTypeOK'
  <2> DEFINE q == req[r]
             local == q.idp = NoOne
             role == IF local THEN "admin" ELSE MapRole(Groups[q.who], q.idp.roles)
             row == [who |-> q.who, local |-> local, role |-> role,
                     exp |-> authNow + SessTTL, allowed |-> q.allowed]
  <2>1. role \in RoleNames
    BY <1>1, <1>c DEF Mint, WellFormed, Call, RoleNames
  <2>2. local \in BOOLEAN /\ q.who \in Client \cup {NoOne} /\ q.allowed \in BOOLEAN
    BY <1>c DEF Call
  <2>3. authNow + SessTTL \in Nat
    BY <1>t, AuthAssumption DEF StateType
  <2> HIDE DEF role, local
  <2>4. row \in Session
    BY <2>1, <2>2, <2>3 DEF Session
  <2>5. sessions' = [sessions EXCEPT ![s] = row]
    BY <1>1 DEF Mint, role, local
  <2>6. sessions' \in [Sid -> Session \cup {NoOne}]
    BY <1>t, <2>4, <2>5 DEF StateType
  <2>7. q.c \in Client /\ jar' = [jar EXCEPT ![q.c].sid = s]
    BY <1>1, <1>c DEF Mint, WellFormed
  <2>8. jar' \in [Client -> Jar]
    BY <1>t, <2>7 DEF StateType, Jar
  <2>9. CASE local
    <3>1. [q EXCEPT !.pc = "note"] \in Call /\ WellFormed([q EXCEPT !.pc = "note"])
      BY <1>1, <1>c, <2>9 DEF Mint, Call, WellFormed, LocalPc, local
    <3>2. CallsType'
      BY <1>1, <1>t, <2>9, <3>1, CallGoes DEF Mint, local
    <3>3. QED
      BY <1>1, <1>t, <2>6, <2>8, <3>2 DEF Mint, AuthTypeOK, StateType, GatesType, env, gates
  <2>10. CASE ~local
    <3>1. CallsType'
      BY <1>1, <1>t, <2>10, CallEnds DEF Mint, local
    <3>2. QED
      BY <1>1, <1>t, <2>6, <2>8, <3>1 DEF Mint, AuthTypeOK, StateType, GatesType, env, gates
  <2>11. QED
    BY <2>9, <2>10
<1>2. ASSUME NEW r \in Req, CreateFails(r)
      PROVE  AuthTypeOK'
  BY <1>2, <1>t, FailTyped DEF CreateFails, AuthTypeOK, StateType, GatesType, env
<1>3. ASSUME NEW r \in Req, Note(r)
      PROVE  AuthTypeOK'
  <2>1. req[r].c \in Client /\ req[r].u \in User
    BY <1>3, <1>c DEF Note, WellFormed
  <2>2. ipGate' \in GateOf(Client) /\ userGate' \in GateOf(User)
    BY <1>3, <1>t DEF Note, GatesType, GateOf
  <2>3. guesses' \in [Client \cup User -> [n : Nat, at : Nat]]
    BY <1>3, <1>t, <2>1 DEF Note, GatesType
  <2>4. CallsType'
    <3>1. ASSUME NEW q \in Req, NEW S
          PROVE  [req[q] EXCEPT !.mine = @ \ S] \in Call
                 /\ WellFormed([req[q] EXCEPT !.mine = @ \ S])
      BY <1>c DEF Call, WellFormed, LocalPc
    <3>2. QED
      BY <1>3, <3>1, NoCallOK DEF Note, CallsType
  <2>5. QED
    BY <1>3, <1>t, <2>2, <2>3, <2>4 DEF Note, AuthTypeOK, StateType, GatesType, GateOf, env
<1>4. ASSUME NEW r \in Req, Slide(r)
      PROVE  AuthTypeOK'
  <2>1. req[r].c \in Client /\ req[r].s \in Sid
    BY <1>4, <1>c DEF Slide, WellFormed
  <2>2. authNow + SessTTL \in Nat
    BY <1>t, AuthAssumption DEF StateType
  <2>3. Touch(req[r].s) \in [Sid -> Session \cup {NoOne}]
    <3>1. ASSUME NEW row \in Session
          PROVE  [row EXCEPT !.exp = authNow + SessTTL] \in Session
      BY <2>2 DEF Session
    <3>2. QED
      BY <1>t, <2>1, <3>1 DEF Touch, StateType
  <2>4. jar' \in [Client -> Jar] /\ sessions' \in [Sid -> Session \cup {NoOne}]
    BY <1>4, <1>t, <2>1, <2>3 DEF Slide, StateType, Jar
  <2>5. CallsType'
    BY <1>4, <1>t, CallEnds DEF Slide
  <2>6. QED
    BY <1>4, <1>t, <2>4, <2>5 DEF Slide, AuthTypeOK, StateType, GatesType, env, gates
<1>5. ASSUME NEW r \in Req, NEW c \in Client, Authenticate(r, c)
      PROVE  AuthTypeOK'
  <2> DEFINE v == [NoCall EXCEPT !.pc = "slide", !.c = c, !.s = jar[c].sid]
  <2>1. jar[c].sid \in Sid
    BY <1>5, <1>t DEF Authenticate, StateType, Jar
  <2>2. v \in Call /\ WellFormed(v)
    BY <2>1, NoCallOK DEF NoCall, Call, WellFormed, LocalPc
  <2>3. sessions' \in [Sid -> Session \cup {NoOne}]
    BY <1>5, <1>t DEF Authenticate, StateType, Delete
  <2>4. req' = req \/ req' = [req EXCEPT ![r] = v]
    BY <1>5 DEF Authenticate
  <2>5. CallsType'
    BY <1>t, <2>2, <2>4, CallMoves DEF CallsType
  <2>6. QED
    BY <1>5, <1>t, <2>3, <2>5 DEF Authenticate, AuthTypeOK, StateType, GatesType, world, gates
<1>6. ASSUME NEW c \in Client, Logout(c)
      PROVE  AuthTypeOK'
  <2>1. jar[c].sid \in Sid
    BY <1>6, <1>t DEF Logout, StateType, Jar
  <2>2. jar' \in [Client -> Jar] /\ out' \subseteq Sid
    BY <1>6, <1>t, <2>1 DEF Logout, StateType, Jar
  <2>3. sessions' \in [Sid -> Session \cup {NoOne}]
    BY <1>6, <1>t DEF Logout, StateType, Delete
  <2>4. QED
    BY <1>6, <1>t, <2>2, <2>3
    DEF Logout, AuthTypeOK, StateType, GatesType, CallsType, env, gates
<1>7. CASE GC
  <2>1. sessions' \in [Sid -> Session \cup {NoOne}]
    BY <1>7, <1>t DEF GC, StateType
  <2>2. QED
    BY <1>7, <1>t, <2>1 DEF GC, AuthTypeOK, StateType, GatesType, CallsType, env, gates
<1>8. QED
  BY <1>1, <1>2, <1>3, <1>4, <1>5, <1>6, <1>7

\* The settings change, time passes.
LEMMA SurroundingsTyped ==
    ASSUME AuthTypeOK, (\E cf \in Conf : Configure(cf)) \/ AuthTick \/ UNCHANGED authVars
    PROVE  AuthTypeOK'
<1>t. GatesType /\ StateType /\ CallsType
  BY DEF AuthTypeOK
<1>1. ASSUME NEW cf \in Conf, Configure(cf)
      PROVE  AuthTypeOK'
  <2>1. ASSUME NEW r \in Req, NEW a \in BOOLEAN
        PROVE  /\ [req[r] EXCEPT !.allowed = a] \in Call
               /\ WellFormed([req[r] EXCEPT !.allowed = a])
    BY <1>t DEF CallsType, Call, WellFormed, LocalPc
  <2>2. \A r \in Req : (req[r].allowed \/ LocalAllowed(cf)) \in BOOLEAN
    OBVIOUS
  <2>3. CallsType'
    BY <1>1, <1>t, <2>1, <2>2 DEF Configure, CallsType
  <2>4. QED
    BY <1>1, <1>t, <2>3 DEF Configure, AuthTypeOK, StateType, GatesType, gates, Idps
<1>2. CASE AuthTick
  BY <1>2, <1>t DEF AuthTick, AuthTypeOK, StateType, GatesType, CallsType, gates
<1>3. CASE UNCHANGED authVars
  BY <1>3, <1>t DEF authVars, AuthTypeOK, StateType, GatesType, CallsType
<1>4. QED
  BY <1>1, <1>2, <1>3

\* Every step keeps the state well formed.
LEMMA AuthTyped == ASSUME AuthTypeOK, [AuthNext]_authVars PROVE AuthTypeOK'
BY ProviderTyped, LocalTyped, SessionTyped, SurroundingsTyped DEF AuthNext

\* Nobody is signed in at start.
LEMMA AuthStarts == ASSUME AuthInit PROVE AuthTypeOK
<1>1. GatesType
  BY DEF AuthInit, GatesType
<1>2. StateType
  <2>1. EmptyJar \in Jar
    BY DEF EmptyJar, Jar
  <2>2. QED
    BY <2>1 DEF AuthInit, StateType, Idps
<1>3. CallsType
  BY NoCallOK DEF AuthInit, CallsType
<1>4. QED
  BY <1>1, <1>2, <1>3 DEF AuthTypeOK

\* The state of admin authentication is well formed in every reachable state.
THEOREM AuthTypeCorrect == AuthSpec => []AuthTypeOK
<1>1. AuthInit => AuthTypeOK
  BY AuthStarts
<1>2. AuthTypeOK /\ [AuthNext]_authVars => AuthTypeOK'
  BY AuthTyped
<1>3. QED
  BY <1>1, <1>2, PTL DEF AuthSpec

----------------------------------------------------------------------------
(* Logging out.                                                            *)

\* Who makes, changes or ends sessions, and who does not.
LEMMA SessionFrame ==
    ASSUME [AuthNext]_authVars
    PROVE  \/ UNCHANGED <<sessions, out>>
           \/ \E r \in Req : (\E s \in Sid : Mint(r, s)) \/ Slide(r)
                             \/ \E c \in Client : Authenticate(r, c)
           \/ \E c \in Client : Logout(c)
           \/ GC
<1>1. ASSUME NEW r \in Req, NEW c \in Client,
             \/ StartLogin(r, c) \/ (\E t \in Token : Callback(r, c, t))
             \/ (\E u \in User, good \in BOOLEAN : LocalLogin(r, c, u, good))
             \/ (\E u \in User, t \in Token, n \in Steps : LocalTOTP(r, c, u, t, n))
      PROVE  UNCHANGED <<sessions, out>>
  BY <1>1 DEF StartLogin, Callback, LocalLogin, LocalTOTP, Present
<1>2. ASSUME NEW r \in Req,
             \/ OIDCClient(r) \/ Discover(r) \/ AddPending(r) \/ Exchange(r)
             \/ ReserveUser(r) \/ VerifyPassword(r) \/ AskCode(r) \/ Redeem(r)
             \/ CheckCode(r) \/ CreateFails(r) \/ Note(r)
      PROVE  UNCHANGED <<sessions, out>>
  BY <1>2 DEF OIDCClient, Discover, AddPending, Exchange, ReserveUser, VerifyPassword, AskCode,
              Redeem, CheckCode, CreateFails, Note
<1>3. (\E cf \in Conf : Configure(cf)) \/ AuthTick \/ UNCHANGED authVars
          => UNCHANGED <<sessions, out>>
  BY DEF Configure, AuthTick, authVars
<1>4. QED
  BY <1>1, <1>2, <1>3 DEF AuthNext

\* Nothing brings a deleted row back under the same id.
LEMMA LogoutStep ==
    ASSUME AuthTypeOK, LogoutIsFinal, [AuthNext]_authVars
    PROVE  LogoutIsFinal'
<1>t. /\ sessions \in [Sid -> Session \cup {NoOne}] /\ out \subseteq Sid
      /\ \A s \in out : sessions[s] = NoOne
  BY DEF AuthTypeOK, StateType, LogoutIsFinal
<1>1. CASE UNCHANGED <<sessions, out>>
  BY <1>1, <1>t DEF LogoutIsFinal
<1>2. ASSUME NEW r \in Req, NEW s \in Sid, Mint(r, s)
      PROVE  LogoutIsFinal'
  BY <1>2, <1>t DEF Mint, LogoutIsFinal
<1>3. ASSUME NEW r \in Req, Slide(r)
      PROVE  LogoutIsFinal'
  BY <1>3, <1>t DEF Slide, Touch, LogoutIsFinal
<1>4. ASSUME NEW r \in Req, NEW c \in Client, Authenticate(r, c)
      PROVE  LogoutIsFinal'
  BY <1>4, <1>t DEF Authenticate, Delete, LogoutIsFinal
<1>5. ASSUME NEW c \in Client, Logout(c)
      PROVE  LogoutIsFinal'
  <2>1. jar[c].sid \in Sid
    BY <1>5 DEF Logout, AuthTypeOK, StateType, Jar
  <2>2. QED
    BY <1>5, <1>t, <2>1 DEF Logout, Delete, LogoutIsFinal
<1>6. CASE GC
  BY <1>6, <1>t DEF GC, LogoutIsFinal
<1>7. QED
  BY <1>1, <1>2, <1>3, <1>4, <1>5, <1>6, SessionFrame

\* A session that was logged out stays so, whichever requests authenticated
\* before (Store.Touch, Logout).
THEOREM LogoutsAreFinal == AuthSpec => []LogoutIsFinal
<1>1. AuthInit => AuthTypeOK /\ LogoutIsFinal
  <2>1. AuthInit => LogoutIsFinal
    BY DEF AuthInit, LogoutIsFinal
  <2>2. QED
    BY <2>1, AuthStarts
<1>2. AuthTypeOK /\ LogoutIsFinal /\ [AuthNext]_authVars => (AuthTypeOK /\ LogoutIsFinal)'
  BY AuthTyped, LogoutStep
<1>3. QED
  BY <1>1, <1>2, PTL DEF AuthSpec

----------------------------------------------------------------------------
(* Sessions are earned.                                                    *)

\* A local login that went past the password or the code was allowed at some
\* time since the request began, and so was the session it made.
LocallyAllowed ==
    /\ \A r \in Req :
         /\ req[r].pc \in LocalPc /\ LocalAllowed(conf) => req[r].allowed
         /\ req[r].pc = "second" \/ (req[r].pc = "mint" /\ req[r].idp = NoOne)
                => req[r].allowed
    /\ \A s \in Sid : sessions[s] # NoOne /\ sessions[s].local => sessions[s].allowed

\* The steps whose codes were accepted are behind the last one.
SpentOnce ==
    \A n \in Steps : spent[n] <= 1 /\ (spent[n] > 0 => lastStep # NoOne /\ n <= lastStep)

\* A state token, a login that came back and a session belong to one browser.
OwnLogins ==
    /\ \A c \in Client, t \in Token :
         jar[c].state = t /\ pending[t] # NoOne => pending[t].by = c
    /\ \A r \in Req :
         /\ req[r].pc \in {"client", "discover", "exchange"} /\ req[r].t # NoOne
                => req[r].who = req[r].c
         /\ req[r].pc = "mint" /\ req[r].idp # NoOne => req[r].who = req[r].c
OwnSessions ==
    /\ \A c \in Client, s \in Sid :
         jar[c].sid = s /\ sessions[s] # NoOne /\ ~sessions[s].local => sessions[s].who = c
    /\ \A r \in Req, s \in Sid :
         req[r].pc = "slide" /\ req[r].s = s /\ sessions[s] # NoOne /\ ~sessions[s].local
             => sessions[s].who = req[r].c

\* A request that ends, or goes on with the same browser, token, name and person.
LEMMA Carried ==
    ASSUME CallsType, NEW r \in Req
    PROVE  /\ Done(r) => /\ req'[r].pc = "idle" /\ req'[r].mine = {} /\ req'[r].s = NoOne
                         /\ \A q \in Req \ {r} : req'[q] = req[q]
           /\ \A pc : Goto(r, pc) =>
                /\ req'[r].pc = pc /\ req'[r].c = req[r].c /\ req'[r].t = req[r].t
                /\ req'[r].who = req[r].who /\ req'[r].idp = req[r].idp
                /\ req'[r].mine = req[r].mine /\ req'[r].s = req[r].s
                /\ req'[r].allowed = req[r].allowed
                /\ \A q \in Req \ {r} : req'[q] = req[q]
<1>1. Done(r) => /\ req'[r].pc = "idle" /\ req'[r].mine = {} /\ req'[r].s = NoOne
                 /\ \A q \in Req \ {r} : req'[q] = req[q]
  BY NoCallOK, CallEnds
<1>2. ASSUME NEW pc, Goto(r, pc)
      PROVE  /\ req'[r].pc = pc /\ req'[r].c = req[r].c /\ req'[r].t = req[r].t
             /\ req'[r].who = req[r].who /\ req'[r].idp = req[r].idp
             /\ req'[r].mine = req[r].mine /\ req'[r].s = req[r].s
             /\ req'[r].allowed = req[r].allowed
             /\ \A q \in Req \ {r} : req'[q] = req[q]
  BY <1>2 DEF Goto, CallsType, Call
<1>3. QED
  BY <1>1, <1>2

\* What the provider's handlers carry: no local login, no session yet.
LEMMA ProviderCarries ==
    ASSUME AuthTypeOK, NEW r \in Req,
           \/ \E c \in Client : StartLogin(r, c) \/ \E t \in Token : Callback(r, c, t)
           \/ OIDCClient(r) \/ Discover(r) \/ AddPending(r) \/ Exchange(r)
    PROVE  /\ req'[r] = req[r] \/ /\ req'[r].pc \notin LocalPc \cup {"slide", "note"}
                                  /\ req'[r].pc = "mint" => req'[r].idp # NoOne
                                  /\ req'[r].mine \subseteq req[r].mine
           /\ \A q \in Req \ {r} : req'[q] = req[q]
           /\ UNCHANGED <<conf, sessions, out, lastStep, spent, guesses, ipGate, userGate, authNow>>
<1>t. CallsType /\ req \in [Req -> Call] /\ req[r] \in Call /\ WellFormed(req[r])
  BY DEF AuthTypeOK, CallsType
<1> USE DEF LocalPc
<1>1. ASSUME NEW c \in Client, StartLogin(r, c)
      PROVE  /\ req'[r].pc = "client" /\ req'[r].mine = {}
             /\ \A q \in Req \ {r} : req'[q] = req[q]
             /\ UNCHANGED <<conf, sessions, out, lastStep, spent, guesses, ipGate, userGate, authNow>>
  BY <1>1, <1>t DEF StartLogin, NoCall, world
<1>2. ASSUME NEW c \in Client, NEW t \in Token, Callback(r, c, t)
      PROVE  /\ req'[r] = req[r] \/ (req'[r].pc = "client" /\ req'[r].mine = {})
             /\ \A q \in Req \ {r} : req'[q] = req[q]
             /\ UNCHANGED <<conf, sessions, out, lastStep, spent, guesses, ipGate, userGate, authNow>>
  <2>1. UNCHANGED <<conf, sessions, out, lastStep, spent, guesses, ipGate, userGate, authNow>>
    BY <1>2 DEF Callback, world, gates
  <2>2. CASE UNCHANGED req
    BY <2>1, <2>2
  <2>3. ASSUME req' = [req EXCEPT ![r] = [NoCall EXCEPT !.pc = "client", !.c = c, !.t = t,
                         !.who = pending[t].by, !.from = pending[t].iss]]
        PROVE  /\ req'[r].pc = "client" /\ req'[r].mine = {}
               /\ \A q \in Req \ {r} : req'[q] = req[q]
    BY <1>t, <2>3 DEF NoCall
  <2>4. QED
    BY <1>2, <2>1, <2>2, <2>3 DEF Callback
<1>3. CASE OIDCClient(r)
  <2>1. UNCHANGED <<conf, sessions, out, lastStep, spent, guesses, ipGate, userGate, authNow>>
    BY <1>3 DEF OIDCClient, env, gates
  <2>2. /\ req'[r].pc \in {"idle", "pend", "exchange", "discover"}
        /\ req'[r].mine \subseteq req[r].mine /\ \A q \in Req \ {r} : req'[q] = req[q]
    BY <1>3, <1>t, Carried DEF OIDCClient, Call
  <2>3. QED
    BY <2>1, <2>2
<1>4. CASE Discover(r)
  <2>1. UNCHANGED <<conf, sessions, out, lastStep, spent, guesses, ipGate, userGate, authNow>>
    BY <1>4 DEF Discover, env, gates
  <2>2. /\ req'[r].pc \in {"idle", "pend", "exchange"}
        /\ req'[r].mine \subseteq req[r].mine /\ \A q \in Req \ {r} : req'[q] = req[q]
    BY <1>4, <1>t, Carried DEF Discover, Call
  <2>3. QED
    BY <2>1, <2>2
<1>5. CASE AddPending(r)
  BY <1>5, <1>t, Carried DEF AddPending, env
<1>6. CASE Exchange(r)
  <2>1. UNCHANGED <<conf, sessions, out, lastStep, spent, guesses, ipGate, userGate, authNow>>
    BY <1>6 DEF Exchange, env, gates
  <2>2. req[r].idp # NoOne
    BY <1>6, <1>t DEF Exchange, WellFormed
  <2>3. QED
    BY <1>6, <1>t, <2>1, <2>2, Carried DEF Exchange
<1>7. QED
  BY <1>1, <1>2, <1>3, <1>4, <1>5, <1>6

\* What the handlers of the local login carry: the others lose at most attempts
\* that ran out; nobody gains or loses a session.
LEMMA LocalCarries ==
    ASSUME AuthTypeOK, NEW r \in Req,
           \/ \E c \in Client, u \in User, good \in BOOLEAN : LocalLogin(r, c, u, good)
           \/ \E c \in Client, u \in User, t \in Token, n \in Steps : LocalTOTP(r, c, u, t, n)
           \/ ReserveUser(r) \/ VerifyPassword(r) \/ AskCode(r) \/ Redeem(r) \/ CheckCode(r)
           \/ CreateFails(r) \/ Note(r)
    PROVE  /\ \/ req'[r] = req[r] \/ req'[r].pc = "idle"
              \/ req'[r].pc = "user" /\ req'[r].allowed = LocalAllowed(conf)
              \/ /\ req[r].pc \in LocalPc /\ req'[r].pc \in {"verify", "second", "code", "mint"}
                 /\ req'[r].allowed = req[r].allowed /\ req'[r].idp = req[r].idp
                 /\ req'[r].pc \in {"second", "mint"} => LocalAllowed(conf)
           /\ \A q \in Req \ {r} :
                /\ req'[q].pc = req[q].pc /\ req'[q].c = req[q].c /\ req'[q].t = req[q].t
                /\ req'[q].who = req[q].who /\ req'[q].idp = req[q].idp
                /\ req'[q].s = req[q].s /\ req'[q].allowed = req[q].allowed
           /\ UNCHANGED <<conf, sessions, out, jar>>
<1>t. CallsType /\ req \in [Req -> Call] /\ req[r] \in Call /\ WellFormed(req[r])
  BY DEF AuthTypeOK, CallsType
<1>m. ASSUME NEW q \in Req, NEW S
      PROVE  LET w == [req[q] EXCEPT !.mine = @ \ S]
             IN  /\ w.pc = req[q].pc /\ w.c = req[q].c /\ w.t = req[q].t /\ w.who = req[q].who
                 /\ w.idp = req[q].idp /\ w.s = req[q].s /\ w.allowed = req[q].allowed
  BY <1>t DEF Call
<1>c. ASSUME NEW k, NEW rec \in Call, Charge(r, k, rec)
      PROVE  /\ req'[r].pc = rec.pc /\ req'[r].allowed = rec.allowed /\ req'[r].idp = rec.idp
             /\ \A q \in Req \ {r} :
                  /\ req'[q].pc = req[q].pc /\ req'[q].c = req[q].c /\ req'[q].t = req[q].t
                  /\ req'[q].who = req[q].who /\ req'[q].idp = req[q].idp
                  /\ req'[q].s = req[q].s /\ req'[q].allowed = req[q].allowed
  BY <1>c, <1>m, <1>t DEF Charge, Call
<1>1. ASSUME NEW c \in Client, NEW u \in User, NEW rec \in Call, Present(r, c, u, rec)
      PROVE  /\ \/ req'[r] = req[r]
                \/ req'[r].pc = "user" /\ req'[r].allowed = LocalAllowed(conf)
             /\ \A q \in Req \ {r} :
                  /\ req'[q].pc = req[q].pc /\ req'[q].c = req[q].c /\ req'[q].t = req[q].t
                  /\ req'[q].who = req[q].who /\ req'[q].idp = req[q].idp
                  /\ req'[q].s = req[q].s /\ req'[q].allowed = req[q].allowed
             /\ UNCHANGED <<conf, sessions, out, jar>>
  <2>1. LocalAllowed(conf) \in BOOLEAN
    BY DEF LocalAllowed
  <2> DEFINE v == [rec EXCEPT !.pc = "user", !.c = c, !.u = u, !.allowed = LocalAllowed(conf)]
  <2>2. v \in Call
    BY <2>1, CallPresented
  <2>3. v.pc = "user" /\ v.allowed = LocalAllowed(conf)
    BY DEF Call
  <2>4. UNCHANGED <<conf, sessions, out, jar>>
    BY <1>1 DEF Present, world
  <2> HIDE DEF v
  <2>5. Charge(r, c, v) \/ UNCHANGED req
    BY <1>1 DEF Present, v
  <2>6. QED
    BY <1>c, <2>2, <2>3, <2>4, <2>5
<1>2. ASSUME NEW c \in Client, NEW u \in User, NEW good \in BOOLEAN
      PROVE  [NoCall EXCEPT !.good = good] \in Call
  BY NoCallOK DEF Call
<1>3. ASSUME NEW t \in Token, NEW n \in Steps
      PROVE  [NoCall EXCEPT !.t = t, !.code = n, !.totp = TRUE] \in Call
  BY NoCallOK DEF Call
<1>4. CASE ReserveUser(r)
  <2>1. [req[r] EXCEPT !.pc = "verify"] \in Call
    BY <1>t DEF Call, LocalPc
  <2>2. /\ [req[r] EXCEPT !.pc = "verify"].pc = "verify"
        /\ [req[r] EXCEPT !.pc = "verify"].allowed = req[r].allowed
        /\ [req[r] EXCEPT !.pc = "verify"].idp = req[r].idp
    BY <1>t DEF Call
  <2>3. UNCHANGED <<conf, sessions, out, jar>> /\ req[r].pc \in LocalPc
    BY <1>4 DEF ReserveUser, env, LocalPc
  <2>4. CASE Done(r)
    BY <1>t, <2>3, <2>4, Carried
  <2>5. CASE Charge(r, req[r].u, [req[r] EXCEPT !.pc = "verify"])
    BY <1>c, <2>1, <2>2, <2>3, <2>5
  <2>6. QED
    BY <1>4, <2>4, <2>5 DEF ReserveUser
<1>5. CASE VerifyPassword(r)
  <2>1. req[r].pc \in LocalPc /\ UNCHANGED <<conf, sessions, out, jar>>
    BY <1>5 DEF VerifyPassword, env, LocalPc
  <2>2. QED
    BY <1>5, <1>t, <2>1, Carried DEF VerifyPassword, Fail
<1>6. CASE AskCode(r)
  BY <1>6, <1>t, Carried DEF AskCode, Fail, env
<1>7. CASE Redeem(r)
  <2>1. req[r].pc \in LocalPc /\ UNCHANGED <<conf, sessions, out, jar>>
    BY <1>7 DEF Redeem, env, LocalPc
  <2>2. QED
    BY <1>7, <1>t, <2>1, Carried DEF Redeem, Fail
<1>8. CASE CheckCode(r)
  <2>1. req[r].pc \in LocalPc /\ UNCHANGED <<conf, sessions, out, jar>>
    BY <1>8 DEF CheckCode, env, LocalPc
  <2>2. QED
    BY <1>8, <1>t, <2>1, Carried DEF CheckCode, Fail
<1>9. CASE CreateFails(r)
  BY <1>9, <1>t, Carried DEF CreateFails, Fail, env
<1>10. CASE Note(r)
  BY <1>10, <1>t, <1>m, NoCallOK DEF Note, env
<1>11. QED
  BY <1>1, <1>2, <1>3, <1>4, <1>5, <1>6, <1>7, <1>8, <1>9, <1>10 DEF LocalLogin, LocalTOTP

\* A local session was allowed while it was earned.
LEMMA AllowedStep ==
    ASSUME AuthTypeOK, LocallyAllowed, [AuthNext]_authVars
    PROVE  LocallyAllowed'
<1>t. CallsType /\ req \in [Req -> Call] /\ sessions \in [Sid -> Session \cup {NoOne}]
  BY DEF AuthTypeOK, CallsType, StateType
<1>1. ASSUME NEW r \in Req,
             \/ \E c \in Client : StartLogin(r, c) \/ \E t \in Token : Callback(r, c, t)
             \/ OIDCClient(r) \/ Discover(r) \/ AddPending(r) \/ Exchange(r)
      PROVE  LocallyAllowed'
  BY <1>1, ProviderCarries DEF LocallyAllowed, LocalAllowed, LocalPc
<1>2. ASSUME NEW r \in Req,
             \/ \E c \in Client, u \in User, good \in BOOLEAN : LocalLogin(r, c, u, good)
             \/ \E c \in Client, u \in User, t \in Token, n \in Steps : LocalTOTP(r, c, u, t, n)
             \/ ReserveUser(r) \/ VerifyPassword(r) \/ AskCode(r) \/ Redeem(r) \/ CheckCode(r)
             \/ CreateFails(r) \/ Note(r)
      PROVE  LocallyAllowed'
  <2>1. UNCHANGED <<conf, sessions>> /\ LocalAllowed(conf)' = LocalAllowed(conf)
    BY <1>2, LocalCarries DEF LocalAllowed
  <2>2. QED
    BY <1>2, <2>1, LocalCarries DEF LocallyAllowed, LocalPc
<1>3. ASSUME NEW r \in Req, NEW s \in Sid, Mint(r, s)
      PROVE  LocallyAllowed'
  <2>1. CASE req[r].idp = NoOne
    <3>1. UNCHANGED conf /\ Goto(r, "note") /\ req[r].allowed
      BY <1>3, <2>1 DEF Mint, LocallyAllowed, env
    <3>2. sessions'[s].allowed /\ \A o \in Sid \ {s} : sessions'[o] = sessions[o]
      BY <1>3, <1>t, <3>1 DEF Mint
    <3>3. \A o \in Sid : sessions'[o] # NoOne /\ sessions'[o].local => sessions'[o].allowed
      BY <3>2 DEF LocallyAllowed
    <3>4. QED
      BY <1>t, <3>1, <3>3, Carried DEF LocallyAllowed, LocalPc, LocalAllowed
  <2>2. CASE req[r].idp # NoOne
    <3>1. UNCHANGED conf /\ Done(r)
      BY <1>3, <2>2 DEF Mint, env
    <3>2. ~sessions'[s].local /\ \A o \in Sid \ {s} : sessions'[o] = sessions[o]
      BY <1>3, <2>2, <1>t DEF Mint
    <3>3. \A o \in Sid : sessions'[o] # NoOne /\ sessions'[o].local => sessions'[o].allowed
      BY <3>2 DEF LocallyAllowed
    <3>4. QED
      BY <1>t, <3>1, <3>3, Carried DEF LocallyAllowed, LocalPc, LocalAllowed
  <2>3. QED
    BY <2>1, <2>2
<1>4. ASSUME NEW r \in Req, Slide(r)
      PROVE  LocallyAllowed'
  <2>1. UNCHANGED conf /\ Done(r)
    BY <1>4 DEF Slide, env
  <2>2. \A s \in Sid : sessions'[s] # NoOne =>
          /\ sessions[s] # NoOne /\ sessions'[s].local = sessions[s].local
          /\ sessions'[s].allowed = sessions[s].allowed
    BY <1>4, <1>t DEF Slide, Touch, Session
  <2>3. QED
    BY <1>t, <2>1, <2>2, Carried DEF LocallyAllowed, LocalPc, LocalAllowed
<1>5. ASSUME NEW r \in Req, NEW c \in Client, Authenticate(r, c)
      PROVE  LocallyAllowed'
  <2>1. UNCHANGED conf /\ \A s \in Sid : sessions'[s] = sessions[s] \/ sessions'[s] = NoOne
    BY <1>5, <1>t DEF Authenticate, Delete, world
  <2>2. /\ req'[r] = req[r] \/ req'[r].pc = "slide"
        /\ \A q \in Req \ {r} : req'[q] = req[q]
    BY <1>5, <1>t DEF Authenticate, NoCall
  <2>3. QED
    BY <2>1, <2>2 DEF LocallyAllowed, LocalPc, LocalAllowed
<1>6. ASSUME NEW c \in Client, Logout(c)
      PROVE  LocallyAllowed'
  BY <1>6, <1>t DEF Logout, Delete, LocallyAllowed, LocalPc, LocalAllowed, env
<1>7. CASE GC
  BY <1>7, <1>t DEF GC, LocallyAllowed, LocalPc, LocalAllowed, env
<1>8. ASSUME NEW cf \in Conf, Configure(cf)
      PROVE  LocallyAllowed'
  <2>1. ASSUME NEW r \in Req
        PROVE  /\ req'[r].pc = req[r].pc /\ req'[r].idp = req[r].idp
               /\ req[r].allowed => req'[r].allowed
               /\ LocalAllowed(cf) /\ req[r].pc # "idle" => req'[r].allowed
    BY <1>8, <1>t DEF Configure, Call
  <2>2. conf' = cf /\ sessions' = sessions
    BY <1>8 DEF Configure
  <2>3. QED
    BY <2>1, <2>2 DEF LocallyAllowed, LocalPc, LocalAllowed
<1>9. CASE AuthTick \/ UNCHANGED authVars
  BY <1>9 DEF AuthTick, authVars, LocallyAllowed, LocalPc, LocalAllowed
<1>10. QED
  BY <1>1, <1>2, <1>3, <1>4, <1>5, <1>6, <1>7, <1>8, <1>9 DEF AuthNext

\* A code is accepted once: none at or before the last one is.
LEMMA SpentStep ==
    ASSUME AuthTypeOK, SpentOnce, [AuthNext]_authVars
    PROVE  SpentOnce'
<1>t. /\ spent \in [Steps -> Nat] /\ lastStep \in Steps \cup {NoOne} /\ req \in [Req -> Call]
      /\ Steps \subseteq Nat /\ NoOne \notin Nat
  BY AuthAssumption DEF AuthTypeOK, StateType, CallsType, Steps
<1>1. CASE UNCHANGED <<spent, lastStep>>
  BY <1>1 DEF SpentOnce
<1>2. ASSUME NEW r \in Req, CheckCode(r)
      PROVE  SpentOnce'
  <2>1. CASE UNCHANGED <<spent, lastStep>>
    BY <1>1, <2>1
  <2>2. CASE ~UNCHANGED <<spent, lastStep>>
    <3>1. /\ lastStep' = req[r].code /\ spent' = [spent EXCEPT ![req[r].code] = @ + 1]
          /\ lastStep = NoOne \/ req[r].code > lastStep
      BY <1>2, <2>2 DEF CheckCode
    <3>2. req[r].code \in Steps
      BY <1>t DEF Call
    <3>3. \A n \in Steps : spent[n] \in Nat /\ spent[n] <= 1
                           /\ (spent[n] > 0 => lastStep \in Nat /\ n <= lastStep)
      BY <1>t DEF SpentOnce
    <3>4. lastStep' \in Nat /\ lastStep' # NoOne
      BY <1>t, <3>1, <3>2
    <3>5. ASSUME NEW n \in Steps
          PROVE  spent'[n] <= 1 /\ (spent'[n] > 0 => n <= lastStep')
      <4>1. CASE n = req[r].code
        <5>1. spent[n] = 0
          BY <1>t, <3>1, <3>2, <3>3, <4>1
        <5>2. QED
          BY <1>t, <3>1, <3>2, <4>1, <5>1
      <4>2. CASE n # req[r].code
        <5>1. spent'[n] = spent[n] /\ spent[n] \in Nat
          BY <1>t, <3>1, <3>2, <4>2
        <5>2. lastStep \in Nat => lastStep < lastStep'
          BY <1>t, <3>1, <3>2
        <5>3. n \in Nat
          BY <1>t
        <5>4. QED
          BY <3>3, <3>4, <5>1, <5>2, <5>3
      <4>3. QED
        BY <4>1, <4>2
    <3>6. QED
      BY <3>4, <3>5 DEF SpentOnce
  <2>3. QED
    BY <2>1, <2>2
<1>3. ASSUME NEW r \in Req, NEW c \in Client,
             \/ StartLogin(r, c) \/ (\E t \in Token : Callback(r, c, t))
             \/ (\E u \in User, good \in BOOLEAN : LocalLogin(r, c, u, good))
             \/ (\E u \in User, t \in Token, n \in Steps : LocalTOTP(r, c, u, t, n))
             \/ Authenticate(r, c)
      PROVE  UNCHANGED <<spent, lastStep>>
  BY <1>3 DEF StartLogin, Callback, LocalLogin, LocalTOTP, Present, Authenticate
<1>4. ASSUME NEW r \in Req,
             \/ OIDCClient(r) \/ Discover(r) \/ AddPending(r) \/ Exchange(r)
             \/ ReserveUser(r) \/ VerifyPassword(r) \/ AskCode(r) \/ Redeem(r)
             \/ (\E s \in Sid : Mint(r, s)) \/ CreateFails(r) \/ Note(r) \/ Slide(r)
      PROVE  UNCHANGED <<spent, lastStep>>
  BY <1>4 DEF OIDCClient, Discover, AddPending, Exchange, ReserveUser, VerifyPassword, AskCode,
              Redeem, Mint, CreateFails, Note, Slide
<1>5. ASSUME \/ \E c \in Client : Logout(c)
             \/ GC \/ (\E cf \in Conf : Configure(cf)) \/ AuthTick \/ UNCHANGED authVars
      PROVE  UNCHANGED <<spent, lastStep>>
  BY <1>5 DEF Logout, GC, Configure, AuthTick, authVars
<1>6. QED
  BY <1>1, <1>2, <1>3, <1>4, <1>5 DEF AuthNext

\* A login that comes back through another browser is not taken up.
LEMMA OwnLoginStep ==
    ASSUME AuthTypeOK, OwnLogins, [AuthNext]_authVars
    PROVE  OwnLogins'
<1>t. /\ CallsType /\ req \in [Req -> Call] /\ jar \in [Client -> Jar]
      /\ pending \in [Token -> Half \cup {NoOne}] /\ \A r \in Req : WellFormed(req[r])
  BY DEF AuthTypeOK, CallsType, StateType
<1>n. NoOne \notin Token
  BY AuthAssumption
<1>c. \A t \in Token : Collected[t] = pending[t] \/ Collected[t] = NoOne
  BY DEF Collected
<1>1. ASSUME NEW r \in Req, NEW c \in Client, StartLogin(r, c)
      PROVE  OwnLogins'
  <2>1. req'[r].pc = "client" /\ req'[r].t = NoOne /\ \A q \in Req \ {r} : req'[q] = req[q]
    BY <1>1, <1>t DEF StartLogin, NoCall
  <2>2. UNCHANGED <<pending, jar>>
    BY <1>1 DEF StartLogin
  <2>3. QED
    BY <2>1, <2>2 DEF OwnLogins
<1>2. ASSUME NEW r \in Req, NEW c \in Client, NEW t \in Token, Callback(r, c, t)
      PROVE  OwnLogins'
  <2>1. /\ \A d \in Client : jar'[d].state = jar[d].state \/ jar'[d].state = NoOne
        /\ \A u \in Token : pending'[u] = pending[u] \/ pending'[u] = NoOne
    BY <1>2, <1>t DEF Callback, RemovePending, Jar
  <2>2. CASE UNCHANGED req
    BY <1>n, <2>1, <2>2 DEF OwnLogins
  <2>3. ASSUME Bound(c, t), pending[t] # NoOne,
               req' = [req EXCEPT ![r] = [NoCall EXCEPT !.pc = "client", !.c = c, !.t = t,
                         !.who = pending[t].by, !.from = pending[t].iss]]
        PROVE  OwnLogins'
    <3>1. req'[r].pc = "client" /\ req'[r].who = pending[t].by /\ req'[r].c = c
      BY <1>t, <2>3 DEF NoCall
    <3>2. \A q \in Req \ {r} : req'[q] = req[q]
      BY <1>t, <2>3
    <3>3. pending[t].by = c
      BY <2>3 DEF Bound, OwnLogins
    <3>4. QED
      BY <1>n, <2>1, <3>1, <3>2, <3>3 DEF OwnLogins
  <2>4. QED
    BY <1>2, <2>2, <2>3 DEF Callback
<1>3. ASSUME NEW r \in Req, OIDCClient(r)
      PROVE  OwnLogins'
  <2>1. \/ req'[r].pc = "idle"
        \/ /\ req'[r].pc \in {"pend", "exchange", "discover"} /\ req[r].pc = "client"
           /\ req'[r].t = req[r].t /\ req'[r].who = req[r].who /\ req'[r].c = req[r].c
    BY <1>3, <1>t, Carried DEF OIDCClient, Call
  <2>2. (\A q \in Req \ {r} : req'[q] = req[q]) /\ UNCHANGED <<pending, jar>>
    BY <1>3, <1>t, Carried DEF OIDCClient
  <2>3. QED
    BY <2>1, <2>2 DEF OwnLogins
<1>4. ASSUME NEW r \in Req, Discover(r)
      PROVE  OwnLogins'
  <2>1. \/ req'[r].pc = "idle"
        \/ /\ req'[r].pc \in {"pend", "exchange"} /\ req[r].pc = "discover"
           /\ req'[r].t = req[r].t /\ req'[r].who = req[r].who /\ req'[r].c = req[r].c
    BY <1>4, <1>t, Carried DEF Discover, Call
  <2>2. (\A q \in Req \ {r} : req'[q] = req[q]) /\ UNCHANGED <<pending, jar>>
    BY <1>4, <1>t, Carried DEF Discover
  <2>3. QED
    BY <2>1, <2>2 DEF OwnLogins
<1>5. ASSUME NEW r \in Req, AddPending(r)
      PROVE  OwnLogins'
  <2>1. req'[r].pc = "idle" /\ \A q \in Req \ {r} : req'[q] = req[q]
    BY <1>5, <1>t, Carried DEF AddPending
  <2>2. CASE UNCHANGED jar /\ pending' = Collected
    BY <1>c, <2>1, <2>2 DEF OwnLogins
  <2>3. ASSUME NEW t \in Token, Fresh(t), jar' = [jar EXCEPT ![req[r].c].state = t],
               pending' = [Collected EXCEPT ![t] = [kind |-> "oidc", iss |-> req[r].iss,
                             by |-> req[r].c, exp |-> authNow + PendTTL]]
        PROVE  OwnLogins'
    <3>1. /\ \A u \in Token \ {t} : pending'[u] = pending[u] \/ pending'[u] = NoOne
          /\ pending'[t].by = req[r].c
      BY <1>c, <2>3 DEF Collected
    <3>2. \A d \in Client : jar'[d].state = IF d = req[r].c THEN t ELSE jar[d].state
      BY <1>t, <2>3 DEF Jar
    <3>3. \A d \in Client : jar[d].state # t
      BY <2>3 DEF Fresh
    <3>4. QED
      BY <2>1, <3>1, <3>2, <3>3 DEF OwnLogins
  <2>4. QED
    BY <1>5, <2>2, <2>3 DEF AddPending
<1>6. ASSUME NEW r \in Req, Exchange(r)
      PROVE  OwnLogins'
  <2>1. \/ req'[r].pc = "idle"
        \/ /\ req'[r].pc = "mint" /\ req[r].pc = "exchange" /\ req[r].t # NoOne
           /\ req'[r].t = req[r].t /\ req'[r].who = req[r].who /\ req'[r].c = req[r].c
    BY <1>6, <1>t, Carried DEF Exchange, WellFormed
  <2>2. (\A q \in Req \ {r} : req'[q] = req[q]) /\ UNCHANGED <<pending, jar>>
    BY <1>6, <1>t, Carried DEF Exchange
  <2>3. QED
    BY <2>1, <2>2 DEF OwnLogins
<1>7. ASSUME NEW r \in Req,
             \/ \E c \in Client, u \in User, good \in BOOLEAN : LocalLogin(r, c, u, good)
             \/ \E c \in Client, u \in User, t \in Token, n \in Steps : LocalTOTP(r, c, u, t, n)
             \/ ReserveUser(r) \/ VerifyPassword(r) \/ AskCode(r) \/ Redeem(r) \/ CheckCode(r)
             \/ CreateFails(r) \/ Note(r)
      PROVE  OwnLogins'
  <2>1. \A t \in Token : \/ pending'[t] = pending[t] \/ pending'[t] = NoOne
                         \/ \A d \in Client : jar[d].state # t
    <3>1. CASE AskCode(r)
      BY <1>c, <3>1 DEF AskCode, Fresh, Collected
    <3>2. CASE Redeem(r)
      BY <1>t, <3>2 DEF Redeem, RemovePending
    <3>3. CASE UNCHANGED pending
      BY <3>3
    <3>4. QED
      BY <1>7, <3>1, <3>2, <3>3
      DEF LocalLogin, LocalTOTP, Present, ReserveUser, VerifyPassword, CheckCode, CreateFails, Note
  <2>2. req[r].pc \in LocalPc => req[r].idp = NoOne
    BY <1>t DEF WellFormed
  <2>3. QED
    BY <1>7, <2>1, <2>2, LocalCarries DEF OwnLogins, LocalPc
<1>8. ASSUME NEW r \in Req, NEW s \in Sid, Mint(r, s)
      PROVE  OwnLogins'
  <2>1. UNCHANGED pending /\ \A d \in Client : jar'[d].state = jar[d].state
    BY <1>8, <1>t DEF Mint, Jar
  <2>2. req'[r].pc \in {"idle", "note"} /\ \A q \in Req \ {r} : req'[q] = req[q]
    BY <1>8, <1>t, Carried DEF Mint
  <2>3. QED
    BY <2>1, <2>2 DEF OwnLogins
<1>9. ASSUME NEW r \in Req, Slide(r)
      PROVE  OwnLogins'
  <2>1. UNCHANGED pending /\ \A d \in Client : jar'[d].state = jar[d].state
    BY <1>9, <1>t DEF Slide, Jar
  <2>2. req'[r].pc = "idle" /\ \A q \in Req \ {r} : req'[q] = req[q]
    BY <1>9, <1>t, Carried DEF Slide
  <2>3. QED
    BY <2>1, <2>2 DEF OwnLogins
<1>10. ASSUME NEW r \in Req, NEW c \in Client, Authenticate(r, c)
       PROVE  OwnLogins'
  <2>1. /\ req'[r] = req[r] \/ req'[r].pc = "slide"
        /\ \A q \in Req \ {r} : req'[q] = req[q]
    BY <1>10, <1>t DEF Authenticate, NoCall
  <2>2. UNCHANGED <<pending, jar>>
    BY <1>10 DEF Authenticate
  <2>3. QED
    BY <2>1, <2>2 DEF OwnLogins
<1>11. ASSUME NEW c \in Client, Logout(c)
       PROVE  OwnLogins'
  <2>1. UNCHANGED <<pending, req>> /\ \A d \in Client : jar'[d].state = jar[d].state
    BY <1>11, <1>t DEF Logout, Jar
  <2>2. QED
    BY <2>1 DEF OwnLogins
<1>12. ASSUME NEW cf \in Conf, Configure(cf)
       PROVE  OwnLogins'
  <2>1. \A r \in Req : /\ req'[r].pc = req[r].pc /\ req'[r].idp = req[r].idp
                       /\ req'[r].t = req[r].t /\ req'[r].who = req[r].who
                       /\ req'[r].c = req[r].c
    BY <1>12, <1>t DEF Configure, Call
  <2>2. UNCHANGED <<pending, jar>>
    BY <1>12 DEF Configure
  <2>3. QED
    BY <2>1, <2>2 DEF OwnLogins
<1>13. CASE GC \/ AuthTick \/ UNCHANGED authVars
  BY <1>13 DEF GC, AuthTick, authVars, OwnLogins
<1>14. QED
  BY <1>1, <1>2, <1>3, <1>4, <1>5, <1>6, <1>7, <1>8, <1>9, <1>10, <1>11, <1>12, <1>13
  DEF AuthNext

\* A cookie names a session of the browser that holds it, and so does a renewal
\* under way.
LEMMA OwnSessionStep ==
    ASSUME AuthTypeOK, OwnLogins, OwnSessions, [AuthNext]_authVars
    PROVE  OwnSessions'
<1>t. /\ CallsType /\ req \in [Req -> Call] /\ jar \in [Client -> Jar]
      /\ sessions \in [Sid -> Session \cup {NoOne}] /\ \A r \in Req : WellFormed(req[r])
  BY DEF AuthTypeOK, CallsType, StateType
<1>n. NoOne \notin Sid
  BY AuthAssumption
<1>1. ASSUME NEW r \in Req,
             \/ \E c \in Client : StartLogin(r, c) \/ \E t \in Token : Callback(r, c, t)
             \/ OIDCClient(r) \/ Discover(r) \/ AddPending(r) \/ Exchange(r)
      PROVE  OwnSessions'
  <2>1. \A c \in Client : jar'[c].sid = jar[c].sid
    <3>1. ASSUME NEW c \in Client, NEW t \in Token, Callback(r, c, t)
          PROVE  \A d \in Client : jar'[d].sid = jar[d].sid
      BY <1>t, <3>1 DEF Callback, Jar
    <3>2. ASSUME AddPending(r)
          PROVE  \A d \in Client : jar'[d].sid = jar[d].sid
      <4>1. ASSUME NEW t \in Token, jar' = [jar EXCEPT ![req[r].c].state = t]
            PROVE  \A d \in Client : jar'[d].sid = jar[d].sid
        BY <1>t, <4>1 DEF Jar
      <4>2. QED
        BY <3>2, <4>1 DEF AddPending
    <3>3. ASSUME (\E c \in Client : StartLogin(r, c)) \/ OIDCClient(r) \/ Discover(r) \/ Exchange(r)
          PROVE  UNCHANGED jar
      BY <3>3 DEF StartLogin, OIDCClient, Discover, Exchange
    <3>4. QED
      BY <1>1, <3>1, <3>2, <3>3
  <2>2. QED
    BY <1>1, <2>1, ProviderCarries DEF OwnSessions
<1>2. ASSUME NEW r \in Req,
             \/ \E c \in Client, u \in User, good \in BOOLEAN : LocalLogin(r, c, u, good)
             \/ \E c \in Client, u \in User, t \in Token, n \in Steps : LocalTOTP(r, c, u, t, n)
             \/ ReserveUser(r) \/ VerifyPassword(r) \/ AskCode(r) \/ Redeem(r) \/ CheckCode(r)
             \/ CreateFails(r) \/ Note(r)
      PROVE  OwnSessions'
  BY <1>2, LocalCarries DEF OwnSessions, LocalPc
<1>3. ASSUME NEW r \in Req, NEW s \in Sid, Mint(r, s)
      PROVE  OwnSessions'
  <2>1. /\ \A o \in Sid \ {s} : sessions'[o] = sessions[o]
        /\ sessions'[s].who = req[r].who /\ (sessions'[s].local <=> req[r].idp = NoOne)
    BY <1>3, <1>t DEF Mint
  <2>2. \A d \in Client : jar'[d].sid = IF d = req[r].c THEN s ELSE jar[d].sid
    BY <1>3, <1>t DEF Mint, Jar
  <2>3. /\ \A d \in Client : jar[d].sid # s
        /\ \A q \in Req : req[q].s # s
        /\ req[r].idp # NoOne => req[r].who = req[r].c
    BY <1>3 DEF Mint, OwnLogins
  <2>4. req'[r].pc \in {"idle", "note"} /\ \A q \in Req \ {r} : req'[q] = req[q]
    BY <1>3, <1>t, Carried DEF Mint
  <2>5. QED
    BY <2>1, <2>2, <2>3, <2>4 DEF OwnSessions
<1>4. ASSUME NEW r \in Req, Slide(r)
      PROVE  OwnSessions'
  <2>1. \A s \in Sid : sessions'[s] # NoOne =>
          /\ sessions[s] # NoOne /\ (sessions'[s].local <=> sessions[s].local)
          /\ sessions'[s].who = sessions[s].who
    BY <1>4, <1>t DEF Slide, Touch, Session
  <2>2. \A d \in Client : \/ jar'[d].sid = jar[d].sid
                          \/ d = req[r].c /\ jar'[d].sid = req[r].s
    BY <1>4, <1>t DEF Slide, Jar
  <2>3. req[r].pc = "slide" /\ req'[r].pc = "idle" /\ \A q \in Req \ {r} : req'[q] = req[q]
    BY <1>4, <1>t, Carried DEF Slide
  <2>4. QED
    BY <2>1, <2>2, <2>3 DEF OwnSessions
<1>5. ASSUME NEW r \in Req, NEW c \in Client, Authenticate(r, c)
      PROVE  OwnSessions'
  <2>1. UNCHANGED jar /\ \A s \in Sid : sessions'[s] = sessions[s] \/ sessions'[s] = NoOne
    BY <1>5, <1>t DEF Authenticate, Delete
  <2>2. /\ \/ req'[r] = req[r]
           \/ (req'[r].pc = "slide" /\ req'[r].c = c /\ req'[r].s = jar[c].sid)
        /\ \A q \in Req \ {r} : req'[q] = req[q]
    <3>1. \/ req' = req
          \/ req' = [req EXCEPT ![r] = [NoCall EXCEPT !.pc = "slide", !.c = c, !.s = jar[c].sid]]
      BY <1>5 DEF Authenticate
    <3>2. CASE req' = req
      BY <3>2
    <3>3. CASE req' = [req EXCEPT ![r] = [NoCall EXCEPT !.pc = "slide", !.c = c, !.s = jar[c].sid]]
      <4>1. req'[r] = [NoCall EXCEPT !.pc = "slide", !.c = c, !.s = jar[c].sid]
        BY <1>t, <3>3
      <4>2. req'[r].pc = "slide" /\ req'[r].c = c /\ req'[r].s = jar[c].sid
        BY <4>1 DEF NoCall
      <4>3. QED
        BY <1>t, <3>3, <4>2
    <3>4. QED
      BY <3>1, <3>2, <3>3
  <2>3. QED
    BY <2>1, <2>2 DEF OwnSessions
<1>6. ASSUME NEW c \in Client, Logout(c)
      PROVE  OwnSessions'
  <2>1. UNCHANGED req /\ \A s \in Sid : sessions'[s] = sessions[s] \/ sessions'[s] = NoOne
    BY <1>6, <1>t DEF Logout, Delete
  <2>2. \A d \in Client : jar'[d].sid = jar[d].sid \/ jar'[d].sid = NoOne
    BY <1>6, <1>t DEF Logout, Jar
  <2>3. QED
    BY <1>n, <2>1, <2>2 DEF OwnSessions
<1>7. CASE GC
  BY <1>7, <1>t DEF GC, OwnSessions
<1>8. ASSUME NEW cf \in Conf, Configure(cf)
      PROVE  OwnSessions'
  <2>1. \A r \in Req : req'[r].pc = req[r].pc /\ req'[r].s = req[r].s /\ req'[r].c = req[r].c
    BY <1>8, <1>t DEF Configure, Call
  <2>2. UNCHANGED <<sessions, jar>>
    BY <1>8 DEF Configure
  <2>3. QED
    BY <2>1, <2>2 DEF OwnSessions
<1>9. CASE AuthTick \/ UNCHANGED authVars
  BY <1>9 DEF AuthTick, authVars, OwnSessions
<1>10. QED
  BY <1>1, <1>2, <1>3, <1>4, <1>5, <1>6, <1>7, <1>8, <1>9 DEF AuthNext

\* A local session was made while local login was allowed, a second factor with a
\* code no other session used, and a provider's session belongs to the person
\* who signed in with that browser (localAllowed, acceptTOTPCounter,
\* handleCallback).
THEOREM SessionsAreEarned == AuthSpec => []SessionsEarned
<1> DEFINE I == AuthTypeOK /\ LocallyAllowed /\ SpentOnce /\ OwnLogins /\ OwnSessions
<1>1. AuthInit => I
  <2> SUFFICES ASSUME AuthInit PROVE I
    OBVIOUS
  <2>1. AuthTypeOK
    BY AuthStarts
  <2>2. LocallyAllowed /\ OwnLogins /\ OwnSessions
    BY NoCallOK DEF AuthInit, LocallyAllowed, OwnLogins, OwnSessions, LocalPc
  <2>3. SpentOnce
    BY AuthAssumption DEF AuthInit, SpentOnce
  <2>4. QED
    BY <2>1, <2>2, <2>3
<1>2. I /\ [AuthNext]_authVars => I'
  BY AuthTyped, AllowedStep, SpentStep, OwnLoginStep, OwnSessionStep
<1>3. I => SessionsEarned
  BY DEF AuthTypeOK, StateType, Jar, LocallyAllowed, SpentOnce, OwnSessions, SessionsEarned
<1>4. QED
  BY <1>1, <1>2, <1>3, PTL DEF AuthSpec

----------------------------------------------------------------------------
(* Guesses.                                                                *)

\* The requests whose attempt on k is neither lost nor won yet.
Charged(k) == {q \in Req : k \in req[q].mine}

\* A gate's entry covers the failures counted and the attempts still open; where
\* there is no entry there are none, or their window is over.
Fits(e, n, at, m, t, limit) ==
    /\ n + m <= limit
    /\ e # NoOne => e.reset = at + Lockout /\ n + m <= e.fails /\ e.fails <= limit
    /\ e = NoOne => n + m = 0 \/ t > at + Lockout

Covered(g, k, limit) ==
    Fits(g[k], guesses[k].n, guesses[k].at, Cardinality(Charged(k)), authNow, limit)

Budgets ==
    /\ \A c \in Client : Covered(ipGate, c, IPLimit)
    /\ \A u \in User : Covered(userGate, u, UserLimit)

\* Time passes, entries run out, open attempts become fewer.
LEMMA FitsLess ==
    ASSUME NEW e \in Entry \cup {NoOne}, NEW f, NEW n \in Nat, NEW at \in Nat, NEW m \in Nat,
           NEW l \in Nat, l <= m, NEW t \in Nat, NEW u \in Nat, t <= u, NEW limit \in Nat,
           f = e \/ (f = NoOne /\ e # NoOne /\ t > e.reset), Fits(e, n, at, m, t, limit)
    PROVE  Fits(f, n, at, l, u, limit)
BY AuthAssumption DEF Fits, Entry

\* An attempt that tryBegin lets in.
LEMMA FitsMore ==
    ASSUME NEW e \in Entry \cup {NoOne}, NEW n \in Nat, NEW at \in Nat, NEW m \in Nat,
           NEW t \in Nat, NEW limit \in Nat \ {0}, NEW l \in Nat, NEW j \in Nat,
           Fits(e, n, at, m, t, limit), (e # NoOne /\ t <= e.reset) => e.fails < limit,
           l <= IF t > at + Lockout THEN 1 ELSE m + 1,
           j = IF t > at + Lockout THEN 0 ELSE n
    PROVE  Fits([fails |-> IF e = NoOne \/ (e # NoOne /\ t > e.reset) THEN 1 ELSE e.fails + 1,
                 reset |-> t + Lockout], j, t, l, t, limit)
<1> DEFINE fails == IF e = NoOne \/ (e # NoOne /\ t > e.reset) THEN 1 ELSE e.fails + 1
           f == [fails |-> fails, reset |-> t + Lockout]
<1>1. fails \in Nat /\ t + Lockout \in Nat
  BY AuthAssumption DEF Entry
<1>2. fails <= limit /\ j + l <= fails
  <2>1. CASE e = NoOne
    BY <2>1, AuthAssumption DEF Fits
  <2>2. CASE e # NoOne /\ t > e.reset
    BY <2>2, AuthAssumption DEF Fits, Entry
  <2>3. CASE e # NoOne /\ ~(t > e.reset)
    BY <2>3, AuthAssumption DEF Fits, Entry
  <2>4. QED
    BY <2>1, <2>2, <2>3
<1> HIDE DEF fails
<1>3. f \in Entry
  BY <1>1 DEF Entry
<1>4. f # NoOne /\ f.fails = fails /\ f.reset = t + Lockout
  BY <1>3, AuthAssumption DEF Entry
<1>5. Fits(f, j, t, l, t, limit)
  BY <1>1, <1>2, <1>4 DEF Fits
<1>6. QED
  BY <1>5 DEF fails

\* An attempt that failed.
LEMMA FitsFailed ==
    ASSUME NEW e \in Entry \cup {NoOne}, NEW n \in Nat, NEW at \in Nat, NEW m \in Nat,
           NEW l \in Nat, m = l + 1, NEW t \in Nat, NEW limit \in Nat, Fits(e, n, at, m, t, limit)
    PROVE  Fits(e, n + 1, at, l, t, limit)
BY AuthAssumption DEF Fits, Entry

\* Open attempts are counted.
LEMMA ChargedFinite ==
    /\ \A k : IsFiniteSet(Charged(k)) /\ Cardinality(Charged(k)) \in Nat
    /\ \A k : IsFiniteSet(Charged(k)') /\ Cardinality(Charged(k)') \in Nat
<1>1. \A k : Charged(k) \subseteq Req /\ Charged(k)' \subseteq Req
  BY DEF Charged
<1>2. IsFiniteSet(Req)
  BY AuthAssumption
<1>3. QED
  BY <1>1, <1>2, FS_Subset, FS_CardinalityType

\* Who gives up attempts leaves no more of them open.
LEMMA ChargedLess ==
    ASSUME NEW k, \A q \in Req : req'[q].mine \subseteq req[q].mine
    PROVE  Cardinality(Charged(k)') <= Cardinality(Charged(k))
<1>1. Charged(k)' \subseteq Charged(k)
  BY DEF Charged
<1>2. QED
  BY <1>1, ChargedFinite, FS_Subset

\* The entry of a key that nothing was counted for.
KeptOrLapsed(e, f) == f = e \/ (f = NoOne /\ Lapsed(e))

\* A key whose attempts only become fewer stays covered.
LEMMA CoveredLess ==
    ASSUME AuthTypeOK, Budgets, authNow' \in Nat, authNow <= authNow',
           NEW k \in Client \cup User, guesses'[k] = guesses[k],
           \A q \in Req : k \in req'[q].mine => k \in req[q].mine
    PROVE  /\ (k \in Client /\ KeptOrLapsed(ipGate[k], ipGate'[k]))
                 => Covered(ipGate, k, IPLimit)'
           /\ (k \in User /\ KeptOrLapsed(userGate[k], userGate'[k]))
                 => Covered(userGate, k, UserLimit)'
<1> DEFINE m == Cardinality(Charged(k))
           l == Cardinality(Charged(k)')
<1>1. guesses[k].n \in Nat /\ guesses[k].at \in Nat /\ authNow \in Nat
  BY DEF AuthTypeOK, GatesType, StateType
<1>2. m \in Nat /\ l \in Nat /\ l <= m
  <2>1. Charged(k)' \subseteq Charged(k)
    BY DEF Charged
  <2>2. QED
    BY <2>1, ChargedFinite, FS_Subset
<1> HIDE DEF m, l
<1>3. ASSUME NEW e \in Entry \cup {NoOne}, NEW f, NEW limit \in Nat, KeptOrLapsed(e, f),
             Fits(e, guesses[k].n, guesses[k].at, m, authNow, limit)
      PROVE  Fits(f, guesses[k].n, guesses[k].at, l, authNow', limit)
  <2>1. f = e \/ (f = NoOne /\ e # NoOne /\ authNow > e.reset)
    BY <1>3 DEF KeptOrLapsed, Lapsed
  <2>2. QED
    BY <1>1, <1>2, <1>3, <2>1, FitsLess
<1>4. IPLimit \in Nat /\ UserLimit \in Nat
  BY AuthAssumption
<1>5. ASSUME k \in Client, KeptOrLapsed(ipGate[k], ipGate'[k])
      PROVE  Covered(ipGate, k, IPLimit)'
  <2>1. ipGate[k] \in Entry \cup {NoOne} /\ Fits(ipGate[k], guesses[k].n, guesses[k].at, m, authNow, IPLimit)
    BY <1>5 DEF AuthTypeOK, GatesType, Budgets, Covered, m
  <2>2. QED
    BY <1>3, <1>4, <1>5, <2>1 DEF Covered, l
<1>6. ASSUME k \in User, KeptOrLapsed(userGate[k], userGate'[k])
      PROVE  Covered(userGate, k, UserLimit)'
  <2>1. userGate[k] \in Entry \cup {NoOne} /\ Fits(userGate[k], guesses[k].n, guesses[k].at, m, authNow, UserLimit)
    BY <1>6 DEF AuthTypeOK, GatesType, Budgets, Covered, m
  <2>2. QED
    BY <1>3, <1>4, <1>6, <2>1 DEF Covered, l
<1>7. QED
  BY <1>5, <1>6

\* A step that counts no attempt and loses none.
LEMMA BudgetsThin ==
    ASSUME AuthTypeOK, Budgets, authNow' \in Nat, authNow <= authNow', UNCHANGED guesses,
           \A q \in Req : req'[q].mine \subseteq req[q].mine,
           \A c \in Client : KeptOrLapsed(ipGate[c], ipGate'[c]),
           \A u \in User : KeptOrLapsed(userGate[u], userGate'[u])
    PROVE  Budgets'
BY CoveredLess DEF Budgets

\* Charging an attempt touches its own key only.
LEMMA ChargeOthers ==
    ASSUME AuthTypeOK, NEW r \in Req, NEW k \in Client \cup User, NEW rec \in Call,
           rec.mine \subseteq req[r].mine, Charge(r, k, rec)
    PROVE  \A j \in (Client \cup User) \ {k} :
             /\ guesses'[j] = guesses[j]
             /\ \A q \in Req : j \in req'[q].mine => j \in req[q].mine
<1>t. req \in [Req -> Call] /\ guesses \in [Client \cup User -> [n : Nat, at : Nat]]
  BY DEF AuthTypeOK, CallsType, GatesType
<1>1. req'[r].mine = rec.mine \cup {k}
  BY <1>t DEF Charge, Call
<1>2. \A q \in Req \ {r} : req'[q].mine \subseteq req[q].mine
  BY <1>t DEF Charge, Call
<1>3. \A j \in (Client \cup User) \ {k} : guesses'[j] = guesses[j]
  BY <1>t DEF Charge
<1>4. QED
  BY <1>1, <1>2, <1>3

\* The attempt tryBegin counted is covered by the entry it wrote.
LEMMA ChargeCovered ==
    ASSUME AuthTypeOK, NEW r \in Req, NEW k \in Client \cup User, NEW rec \in Call,
           Charge(r, k, rec), UNCHANGED authNow,
           NEW e \in Entry \cup {NoOne}, NEW limit \in Nat \ {0},
           Fits(e, guesses[k].n, guesses[k].at, Cardinality(Charged(k)), authNow, limit),
           (e # NoOne /\ ~Lapsed(e)) => e.fails < limit
    PROVE  Fits([fails |-> IF e = NoOne \/ Lapsed(e) THEN 1 ELSE e.fails + 1,
                 reset |-> authNow + Lockout],
                guesses'[k].n, guesses'[k].at, Cardinality(Charged(k)'), authNow', limit)
<1>t. /\ req \in [Req -> Call] /\ guesses \in [Client \cup User -> [n : Nat, at : Nat]]
      /\ authNow \in Nat /\ Lockout \in Nat
  BY AuthAssumption DEF AuthTypeOK, CallsType, GatesType, StateType
<1> DEFINE n == guesses[k].n
           at == guesses[k].at
           m == Cardinality(Charged(k))
           l == Cardinality(Charged(k)')
           new == authNow > at + Lockout
<1>1. n \in Nat /\ at \in Nat /\ m \in Nat /\ l \in Nat
  BY <1>t, ChargedFinite
<1>2. guesses'[k].n = (IF new THEN 0 ELSE n) /\ guesses'[k].at = authNow
  BY <1>t DEF Charge
<1>3. l <= IF new THEN 1 ELSE m + 1
  <2>1. CASE new
    <3>1. Charged(k)' \subseteq {r}
      BY <1>t, <2>1 DEF Charge, Charged, Call
    <3>2. IsFiniteSet({r}) /\ Cardinality({r}) = 1
      BY FS_Singleton
    <3>3. l <= 1
      BY <3>1, <3>2, FS_Subset
    <3>4. QED
      BY <2>1, <3>3
  <2>2. CASE ~new
    <3>1. Charged(k)' \subseteq Charged(k) \cup {r}
      BY <1>t, <2>2 DEF Charge, Charged
    <3>2. /\ IsFiniteSet(Charged(k) \cup {r})
          /\ Cardinality(Charged(k) \cup {r}) = m \/ Cardinality(Charged(k) \cup {r}) = m + 1
      BY ChargedFinite, FS_AddElement
    <3>3. l <= Cardinality(Charged(k) \cup {r})
      BY <3>1, <3>2, FS_Subset
    <3>4. QED
      BY <1>1, <2>2, <3>2, <3>3
  <2>3. QED
    BY <2>1, <2>2
<1>4. authNow' = authNow /\ guesses'[k].n \in Nat
  BY <1>1, <1>2
<1> HIDE DEF l, m
<1>5. Lapsed(e) <=> (e # NoOne /\ authNow > e.reset)
  BY DEF Lapsed
<1>6. (e # NoOne /\ authNow <= e.reset) => e.fails < limit
  BY <1>t, <1>5 DEF Entry
<1>7. Fits(e, n, at, m, authNow, limit)
  BY DEF m
<1> DEFINE j == guesses'[k].n
<1>8. j = (IF authNow > at + Lockout THEN 0 ELSE n) /\ j \in Nat
  BY <1>2, <1>4
<1> HIDE DEF j, n, at
<1>9. l <= IF authNow > at + Lockout THEN 1 ELSE m + 1
  BY <1>3
<1>10. Fits([fails |-> IF e = NoOne \/ (e # NoOne /\ authNow > e.reset) THEN 1 ELSE e.fails + 1,
             reset |-> authNow + Lockout], j, authNow, l, authNow, limit)
  BY <1>t, <1>1, <1>6, <1>7, <1>8, <1>9, FitsMore
<1>11. QED
  BY <1>2, <1>4, <1>5, <1>10 DEF j, l

\* A failed attempt stays counted.
LEMMA BudgetsFail ==
    ASSUME AuthTypeOK, Budgets, NEW r \in Req, Fail(r), UNCHANGED <<authNow, ipGate, userGate>>
    PROVE  Budgets'
<1>t. /\ CallsType /\ authNow \in Nat
      /\ guesses \in [Client \cup User -> [n : Nat, at : Nat]]
      /\ req'[r].mine = {} /\ \A q \in Req \ {r} : req'[q] = req[q]
  BY Carried DEF AuthTypeOK, StateType, GatesType, Fail
<1>1. ASSUME NEW k \in Client \cup User, k \notin req[r].mine
      PROVE  (k \in Client => Covered(ipGate, k, IPLimit)')
             /\ (k \in User => Covered(userGate, k, UserLimit)')
  <2>1. guesses'[k] = guesses[k]
    BY <1>1, <1>t DEF Fail
  <2>2. \A q \in Req : k \in req'[q].mine => k \in req[q].mine
    BY <1>t
  <2>3. KeptOrLapsed(ipGate[k], ipGate'[k]) /\ KeptOrLapsed(userGate[k], userGate'[k])
    BY DEF KeptOrLapsed
  <2>4. authNow' \in Nat /\ authNow <= authNow'
    BY <1>t
  <2>5. QED
    BY <2>1, <2>2, <2>3, <2>4, CoveredLess
<1>2. ASSUME NEW k \in Client \cup User, k \in req[r].mine, NEW e \in Entry \cup {NoOne},
             NEW limit \in Nat,
             Fits(e, guesses[k].n, guesses[k].at, Cardinality(Charged(k)), authNow, limit)
      PROVE  Fits(e, guesses'[k].n, guesses'[k].at, Cardinality(Charged(k)'), authNow', limit)
  <2>1. guesses'[k].n = guesses[k].n + 1 /\ guesses'[k].at = guesses[k].at
    BY <1>2, <1>t DEF Fail
  <2>2. r \in Charged(k) /\ Charged(k)' = Charged(k) \ {r}
    BY <1>2, <1>t DEF Charged
  <2>3. /\ Cardinality(Charged(k)) \in Nat /\ Cardinality(Charged(k)') \in Nat
        /\ Cardinality(Charged(k)) = Cardinality(Charged(k)') + 1
    <3>1. Cardinality(Charged(k) \ {r}) = Cardinality(Charged(k)) - 1
      BY <2>2, ChargedFinite, FS_RemoveElement
    <3>2. Cardinality(Charged(k)) \in Nat /\ Cardinality(Charged(k)') \in Nat
      BY ChargedFinite
    <3>3. QED
      BY <2>2, <3>1, <3>2
  <2>4. guesses[k].n \in Nat /\ guesses[k].at \in Nat
    BY <1>2, <1>t
  <2> DEFINE m == Cardinality(Charged(k))
             l == Cardinality(Charged(k)')
             n == guesses[k].n
             at == guesses[k].at
  <2> HIDE DEF m, l, n, at
  <2>5. Fits(e, n + 1, at, l, authNow, limit)
    BY <1>2, <1>t, <2>3, <2>4, FitsFailed DEF m, l, n, at
  <2>6. authNow' = authNow
    OBVIOUS
  <2>7. QED
    BY <2>1, <2>5, <2>6 DEF l, n, at
<1>3. ASSUME NEW k \in Client
      PROVE  Covered(ipGate, k, IPLimit)'
  <2>1. CASE k \notin req[r].mine
    BY <1>1, <2>1
  <2>2. CASE k \in req[r].mine
    <3>1. /\ ipGate[k] \in Entry \cup {NoOne} /\ IPLimit \in Nat
          /\ Fits(ipGate[k], guesses[k].n, guesses[k].at, Cardinality(Charged(k)), authNow, IPLimit)
      BY AuthAssumption DEF AuthTypeOK, GatesType, Budgets, Covered
    <3>2. QED
      BY <1>2, <2>2, <3>1 DEF Covered
  <2>3. QED
    BY <2>1, <2>2
<1>4. ASSUME NEW k \in User
      PROVE  Covered(userGate, k, UserLimit)'
  <2>1. CASE k \notin req[r].mine
    BY <1>1, <2>1
  <2>2. CASE k \in req[r].mine
    <3>1. /\ userGate[k] \in Entry \cup {NoOne} /\ UserLimit \in Nat
          /\ Fits(userGate[k], guesses[k].n, guesses[k].at, Cardinality(Charged(k)), authNow, UserLimit)
      BY AuthAssumption DEF AuthTypeOK, GatesType, Budgets, Covered
    <3>2. QED
      BY <1>2, <2>2, <3>1 DEF Covered
  <2>3. QED
    BY <2>1, <2>2
<1>5. QED
  BY <1>3, <1>4 DEF Budgets

\* An address presents an attempt.
LEMMA BudgetsPresent ==
    ASSUME AuthTypeOK, Budgets, NEW r \in Req, NEW c \in Client, NEW u \in User, NEW rec \in Call,
           rec.mine = {}, Present(r, c, u, rec)
    PROVE  Budgets'
<1>t. /\ ipGate \in GateOf(Client) /\ userGate \in GateOf(User) /\ authNow \in Nat
      /\ LocalAllowed(conf) \in BOOLEAN /\ authNow' = authNow
  BY DEF AuthTypeOK, StateType, GatesType, GateOf, LocalAllowed, Present, world
<1>n. authNow' \in Nat /\ authNow <= authNow'
  BY <1>t
<1>u. \A j \in User : KeptOrLapsed(userGate[j], userGate'[j])
  <2>1. Thinned(userGate, Looked(userGate, u))
    BY <1>t, GateThins
  <2>2. QED
    BY <1>t, <2>1 DEF Present, Thinned, KeptOrLapsed, GateOf
<1>1. CASE ipGate' = Refused(ipGate, c) /\ UNCHANGED <<req, guesses>>
  <2>1. Thinned(ipGate, Refused(ipGate, c))
    BY <1>t, GateThins
  <2>2. \A j \in Client : KeptOrLapsed(ipGate[j], ipGate'[j])
    BY <1>1, <1>t, <2>1 DEF Thinned, KeptOrLapsed, GateOf
  <2>3. \A q \in Req : req'[q].mine \subseteq req[q].mine
    BY <1>1
  <2>4. QED
    BY <1>1, <1>n, <1>u, <2>2, <2>3, BudgetsThin
<1>2. CASE MayBegin(ipGate, c, IPLimit) /\ ~(ipGate' = Refused(ipGate, c) /\ UNCHANGED <<req, guesses>>)
  <2> DEFINE v == [rec EXCEPT !.pc = "user", !.c = c, !.u = u, !.allowed = LocalAllowed(conf)]
  <2>1. v \in Call /\ v.mine = {}
    <3>1. v \in Call
      <4>1. LocalAllowed(conf) \in BOOLEAN
        BY <1>t
      <4>2. ASSUME NEW a \in BOOLEAN
            PROVE  [rec EXCEPT !.pc = "user", !.c = c, !.u = u, !.allowed = a] \in Call
        BY CallPresented, Zenon
      <4>3. QED
        BY <4>1, <4>2, Zenon
    <3>2. v.mine = {}
      BY DEF Call
    <3>3. QED
      BY <3>1, <3>2
  <2>2. Charge(r, c, v) /\ ipGate' = Begun(ipGate, c)
    BY <1>2 DEF Present
  <2> HIDE DEF v
  <2>3. \A j \in (Client \cup User) \ {c} :
          /\ guesses'[j] = guesses[j]
          /\ \A q \in Req : j \in req'[q].mine => j \in req[q].mine
    BY <2>1, <2>2, ChargeOthers
  <2> DEFINE e == ipGate[c]
  <2>4. /\ ipGate'[c] = [fails |-> IF e = NoOne \/ Lapsed(e) THEN 1 ELSE e.fails + 1,
                         reset |-> authNow + Lockout]
        /\ \A j \in Client \ {c} : KeptOrLapsed(ipGate[j], ipGate'[j])
    BY <1>t, <2>2, GateCounts DEF KeptOrLapsed
  <2>5. e \in Entry \cup {NoOne} /\ IPLimit \in Nat \ {0}
    BY <1>t, AuthAssumption DEF GateOf
  <2>6. (e # NoOne /\ ~Lapsed(e)) => e.fails < IPLimit
    BY <1>2 DEF MayBegin
  <2>7. Fits(e, guesses[c].n, guesses[c].at, Cardinality(Charged(c)), authNow, IPLimit)
    BY DEF Budgets, Covered
  <2> HIDE DEF e
  <2>8. Covered(ipGate, c, IPLimit)'
    <3>1. Fits([fails |-> IF e = NoOne \/ Lapsed(e) THEN 1 ELSE e.fails + 1,
                reset |-> authNow + Lockout],
               guesses'[c].n, guesses'[c].at, Cardinality(Charged(c)'), authNow', IPLimit)
      BY <1>t, <2>1, <2>2, <2>5, <2>6, <2>7, ChargeCovered
    <3>2. QED
      BY <2>4, <3>1 DEF Covered
  <2>9. \A j \in Client \ {c} : Covered(ipGate, j, IPLimit)'
    BY <1>n, <2>3, <2>4, CoveredLess
  <2>10. \A j \in User : Covered(userGate, j, UserLimit)'
    BY <1>n, <1>u, <2>3, CoveredLess, AuthAssumption
  <2>11. QED
    BY <2>8, <2>9, <2>10 DEF Budgets
<1>3. QED
  BY <1>1, <1>2 DEF Present

\* The attempt is counted for the name too.
LEMMA BudgetsReserve ==
    ASSUME AuthTypeOK, Budgets, NEW r \in Req, ReserveUser(r)
    PROVE  Budgets'
<1>w. req[r].u \in User
  BY DEF AuthTypeOK, ReserveUser, CallsType, WellFormed, LocalPc
<1>x. PICK u \in User : u = req[r].u
  BY <1>w
<1>t. /\ ipGate \in GateOf(Client) /\ userGate \in GateOf(User) /\ authNow \in Nat
      /\ authNow' = authNow /\ ipGate' = ipGate /\ CallsType /\ req[r] \in Call
  BY DEF AuthTypeOK, StateType, GatesType, GateOf, ReserveUser, env, CallsType
<1>n. authNow' \in Nat /\ authNow <= authNow'
  BY <1>t
<1>i. \A j \in Client : KeptOrLapsed(ipGate[j], ipGate'[j])
  BY <1>t DEF KeptOrLapsed
<1>1. CASE userGate' = Refused(userGate, u) /\ Done(r) /\ UNCHANGED guesses
  <2>1. Thinned(userGate, Refused(userGate, u))
    BY <1>t, GateThins
  <2>2. \A j \in User : KeptOrLapsed(userGate[j], userGate'[j])
    BY <1>1, <1>t, <2>1 DEF Thinned, KeptOrLapsed, GateOf
  <2>3. \A q \in Req : req'[q].mine \subseteq req[q].mine
    BY <1>1, <1>t, Carried
  <2>4. QED
    BY <1>1, <1>n, <1>i, <2>2, <2>3, BudgetsThin
<1>2. CASE MayBegin(userGate, u, UserLimit) /\ ~(userGate' = Refused(userGate, u) /\ Done(r) /\ UNCHANGED guesses)
  <2> DEFINE v == [req[r] EXCEPT !.pc = "verify"]
  <2>1. v \in Call /\ v.mine = req[r].mine
    BY <1>t DEF Call, LocalPc
  <2>2. Charge(r, u, v) /\ userGate' = Begun(userGate, u)
    BY <1>2, <1>x DEF ReserveUser
  <2> HIDE DEF v
  <2>3. \A j \in (Client \cup User) \ {u} :
          /\ guesses'[j] = guesses[j]
          /\ \A q \in Req : j \in req'[q].mine => j \in req[q].mine
    BY <1>t, <2>1, <2>2, ChargeOthers
  <2> DEFINE e == userGate[u]
  <2>4. /\ userGate'[u] = [fails |-> IF e = NoOne \/ Lapsed(e) THEN 1 ELSE e.fails + 1,
                           reset |-> authNow + Lockout]
        /\ \A j \in User \ {u} : KeptOrLapsed(userGate[j], userGate'[j])
    BY <1>t, <2>2, GateCounts DEF KeptOrLapsed
  <2>5. e \in Entry \cup {NoOne} /\ UserLimit \in Nat \ {0}
    BY <1>t, AuthAssumption DEF GateOf
  <2>6. (e # NoOne /\ ~Lapsed(e)) => e.fails < UserLimit
    BY <1>2 DEF MayBegin
  <2>7. Fits(e, guesses[u].n, guesses[u].at, Cardinality(Charged(u)), authNow, UserLimit)
    BY <1>t DEF Budgets, Covered
  <2> HIDE DEF e
  <2>8. Covered(userGate, u, UserLimit)'
    <3>1. Fits([fails |-> IF e = NoOne \/ Lapsed(e) THEN 1 ELSE e.fails + 1,
                reset |-> authNow + Lockout],
               guesses'[u].n, guesses'[u].at, Cardinality(Charged(u)'), authNow', UserLimit)
      BY <1>t, <2>1, <2>2, <2>5, <2>6, <2>7, ChargeCovered
    <3>2. Fits(userGate'[u], guesses'[u].n, guesses'[u].at, Cardinality(Charged(u)'), authNow',
               UserLimit)
      BY <2>4, <3>1
    <3>3. QED
      BY <3>2 DEF Covered
  <2>9. \A j \in User \ {u} : Covered(userGate, j, UserLimit)'
    BY <1>n, <2>3, <2>4, CoveredLess
  <2>10. \A j \in Client : Covered(ipGate, j, IPLimit)'
    BY <1>n, <1>i, <1>t, <2>3, CoveredLess, AuthAssumption
  <2>11. QED
    BY <2>8, <2>9, <2>10 DEF Budgets
<1>3. QED
  BY <1>1, <1>2, <1>x DEF ReserveUser

\* A completed login clears its keys.
LEMMA BudgetsNote ==
    ASSUME AuthTypeOK, Budgets, NEW r \in Req, Note(r)
    PROVE  Budgets'
<1>w. req[r].u \in User /\ req[r].c \in Client
  BY DEF AuthTypeOK, Note, CallsType, WellFormed, LocalPc
<1>x. PICK u \in User, c \in Client : u = req[r].u /\ c = req[r].c
  BY <1>w
<1>t. /\ authNow \in Nat /\ authNow' = authNow /\ req \in [Req -> Call]
      /\ guesses \in [Client \cup User -> [n : Nat, at : Nat]]
      /\ ipGate \in [Client -> Entry \cup {NoOne}] /\ userGate \in [User -> Entry \cup {NoOne}]
  BY DEF AuthTypeOK, StateType, GatesType, CallsType, Note, env
<1>n. authNow' \in Nat /\ authNow <= authNow'
  BY <1>t
<1>1. \A q \in Req : req'[q].mine \subseteq req[q].mine \ {c, u}
  <2>1. req'[r].mine = {}
    BY NoCallOK DEF Note
  <2>2. \A q \in Req \ {r} : req'[q].mine = req[q].mine \ {c, u}
    BY <1>t, <1>x DEF Note, Call
  <2>3. QED
    BY <2>1, <2>2
<1>2. \A k \in (Client \cup User) \ {c, u} : guesses'[k] = guesses[k]
  BY <1>t, <1>x DEF Note
<1>3. guesses'[c].n = 0 /\ guesses'[u].n = 0
  <2>1. c # u
    BY AuthAssumption
  <2>2. QED
    BY <1>t, <1>x, <2>1 DEF Note
<1>4. Cardinality(Charged(c)') = 0 /\ Cardinality(Charged(u)') = 0
  <2>1. Charged(c)' = {} /\ Charged(u)' = {}
    BY <1>1 DEF Charged
  <2>2. QED
    BY <2>1, FS_EmptySet
<1>5. ipGate'[c] = NoOne /\ \A j \in Client \ {c} : ipGate'[j] = ipGate[j]
  BY <1>t, <1>x DEF Note
<1>6. userGate'[u] = NoOne /\ \A j \in User \ {u} : userGate'[j] = userGate[j]
  BY <1>t, <1>x DEF Note
<1>7. Covered(ipGate, c, IPLimit)' /\ Covered(userGate, u, UserLimit)'
  BY <1>3, <1>4, <1>5, <1>6, AuthAssumption DEF Covered, Fits
<1>8. \A j \in Client \ {c} : Covered(ipGate, j, IPLimit)'
  BY <1>1, <1>2, <1>5, <1>n, CoveredLess, AuthAssumption DEF KeptOrLapsed
<1>9. \A j \in User \ {u} : Covered(userGate, j, UserLimit)'
  BY <1>1, <1>2, <1>6, <1>n, CoveredLess, AuthAssumption DEF KeptOrLapsed
<1>10. QED
  BY <1>7, <1>8, <1>9 DEF Budgets

\* However requests overlap, the attempts open and failed fit the budgets.
LEMMA BudgetStep ==
    ASSUME AuthTypeOK, Budgets, [AuthNext]_authVars
    PROVE  Budgets'
<1>t. CallsType /\ req \in [Req -> Call] /\ authNow \in Nat
  BY DEF AuthTypeOK, CallsType, StateType
<1>q. ASSUME UNCHANGED <<guesses, ipGate, userGate>>, authNow' \in Nat, authNow <= authNow',
             \A q \in Req : req'[q].mine \subseteq req[q].mine
      PROVE  Budgets'
  BY <1>q, BudgetsThin DEF KeptOrLapsed
<1>n. UNCHANGED authNow => authNow' \in Nat /\ authNow <= authNow'
  BY <1>t
<1>1. ASSUME NEW r \in Req,
             \/ \E c \in Client : StartLogin(r, c) \/ \E t \in Token : Callback(r, c, t)
             \/ OIDCClient(r) \/ Discover(r) \/ AddPending(r) \/ Exchange(r)
      PROVE  Budgets'
  <2>1. UNCHANGED <<guesses, ipGate, userGate, authNow>>
    BY <1>1, ProviderCarries
  <2>2. \A q \in Req : req'[q].mine \subseteq req[q].mine
    BY <1>1, ProviderCarries
  <2>3. QED
    BY <1>n, <1>q, <2>1, <2>2
<1>2. ASSUME NEW r \in Req, NEW c \in Client, NEW u \in User, NEW good \in BOOLEAN,
             LocalLogin(r, c, u, good)
      PROVE  Budgets'
  <2>1. [NoCall EXCEPT !.good = good] \in Call /\ [NoCall EXCEPT !.good = good].mine = {}
    BY NoCallOK DEF Call
  <2>2. QED
    BY <1>2, <2>1, BudgetsPresent DEF LocalLogin
<1>3. ASSUME NEW r \in Req, NEW c \in Client, NEW u \in User, NEW t \in Token, NEW n \in Steps,
             LocalTOTP(r, c, u, t, n)
      PROVE  Budgets'
  <2>1. /\ [NoCall EXCEPT !.t = t, !.code = n, !.totp = TRUE] \in Call
        /\ [NoCall EXCEPT !.t = t, !.code = n, !.totp = TRUE].mine = {}
    BY NoCallOK DEF Call
  <2>2. QED
    BY <1>3, <2>1, BudgetsPresent DEF LocalTOTP
<1>4. ASSUME NEW r \in Req, VerifyPassword(r) \/ AskCode(r) \/ Redeem(r) \/ CheckCode(r)
                            \/ CreateFails(r)
      PROVE  Budgets'
  <2>1. UNCHANGED <<authNow, ipGate, userGate>>
    BY <1>4 DEF VerifyPassword, AskCode, Redeem, CheckCode, CreateFails, env
  <2>2. Fail(r) \/ (UNCHANGED guesses /\ (Done(r) \/ \E pc : Goto(r, pc)))
    BY <1>4 DEF VerifyPassword, AskCode, Redeem, CheckCode, CreateFails
  <2>3. (Done(r) \/ \E pc : Goto(r, pc)) => \A q \in Req : req'[q].mine \subseteq req[q].mine
    BY <1>t, Carried
  <2>4. QED
    BY <1>n, <1>q, <2>1, <2>2, <2>3, BudgetsFail
<1>5. ASSUME NEW r \in Req, NEW s \in Sid, Mint(r, s)
      PROVE  Budgets'
  <2>1. UNCHANGED <<guesses, ipGate, userGate, authNow>>
    BY <1>5 DEF Mint, env, gates
  <2>2. \A q \in Req : req'[q].mine \subseteq req[q].mine
    BY <1>5, <1>t, Carried DEF Mint
  <2>3. QED
    BY <1>n, <1>q, <2>1, <2>2
<1>6. ASSUME NEW r \in Req, Slide(r)
      PROVE  Budgets'
  <2>1. UNCHANGED <<guesses, ipGate, userGate, authNow>>
    BY <1>6 DEF Slide, env, gates
  <2>2. \A q \in Req : req'[q].mine \subseteq req[q].mine
    BY <1>6, <1>t, Carried DEF Slide
  <2>3. QED
    BY <1>n, <1>q, <2>1, <2>2
<1>7. ASSUME NEW r \in Req, NEW c \in Client, Authenticate(r, c)
      PROVE  Budgets'
  <2>1. UNCHANGED <<guesses, ipGate, userGate, authNow>>
    BY <1>7 DEF Authenticate, world, gates
  <2>2. req'[r] = req[r] \/ req'[r] = [NoCall EXCEPT !.pc = "slide", !.c = c, !.s = jar[c].sid]
    BY <1>7, <1>t DEF Authenticate
  <2>3. [NoCall EXCEPT !.pc = "slide", !.c = c, !.s = jar[c].sid].mine = {}
    BY DEF NoCall
  <2>4. \A q \in Req \ {r} : req'[q] = req[q]
    BY <1>7, <1>t DEF Authenticate
  <2>5. \A q \in Req : req'[q].mine \subseteq req[q].mine
    BY <2>2, <2>3, <2>4
  <2>6. QED
    BY <1>n, <1>q, <2>1, <2>5
<1>8. ASSUME NEW cf \in Conf, Configure(cf)
      PROVE  Budgets'
  <2>1. UNCHANGED <<guesses, ipGate, userGate, authNow>>
    BY <1>8 DEF Configure, gates
  <2>2. \A q \in Req : req'[q].mine = req[q].mine
    BY <1>8, <1>t DEF Configure, Call
  <2>3. QED
    BY <1>n, <1>q, <2>1, <2>2
<1>9. ASSUME (\E c \in Client : Logout(c)) \/ GC \/ AuthTick \/ UNCHANGED authVars
      PROVE  Budgets'
  <2>1. UNCHANGED <<guesses, ipGate, userGate, req>> /\ (authNow' = authNow \/ authNow' = authNow + 1)
    BY <1>9 DEF Logout, GC, AuthTick, authVars, gates, env
  <2>2. authNow' \in Nat /\ authNow <= authNow'
    BY <1>t, <2>1
  <2>3. QED
    BY <1>q, <2>1, <2>2
<1>10. ASSUME NEW r \in Req, ReserveUser(r) \/ Note(r)
       PROVE  Budgets'
  BY <1>10, BudgetsReserve, BudgetsNote
<1>11. QED
  BY <1>1, <1>2, <1>3, <1>4, <1>5, <1>6, <1>7, <1>8, <1>9, <1>10 DEF AuthNext

\* However attempts overlap, a window holds at most the limit of failed ones per
\* address and per name, unless a login was completed: tryBegin counts an
\* attempt before the credential is looked at, and only NoteLoginResult clears it.
THEOREM GuessesAreBounded == AuthSpec => []GuessesBounded
<1>1. AuthInit => AuthTypeOK /\ Budgets
  <2> SUFFICES ASSUME AuthInit PROVE AuthTypeOK /\ Budgets
    OBVIOUS
  <2>1. AuthTypeOK
    BY AuthStarts
  <2>2. \A k \in Client \cup User : Cardinality(Charged(k)) = 0
    <3>1. \A k \in Client \cup User : Charged(k) = {}
      BY NoCallOK DEF AuthInit, Charged
    <3>2. QED
      BY <3>1, FS_EmptySet
  <2>3. Budgets
    BY <2>2, AuthAssumption DEF AuthInit, Budgets, Covered, Fits
  <2>4. QED
    BY <2>1, <2>3
<1>2. AuthTypeOK /\ Budgets /\ [AuthNext]_authVars => (AuthTypeOK /\ Budgets)'
  BY AuthTyped, BudgetStep
<1>3. AuthTypeOK /\ Budgets => GuessesBounded
  <2> SUFFICES ASSUME AuthTypeOK, Budgets PROVE GuessesBounded
    OBVIOUS
  <2>1. ASSUME NEW k \in Client \cup User, NEW e, NEW limit \in Nat,
               Fits(e, guesses[k].n, guesses[k].at, Cardinality(Charged(k)), authNow, limit)
        PROVE  guesses[k].n <= limit
    <3>1. Cardinality(Charged(k)) \in Nat /\ guesses[k].n \in Nat
      BY ChargedFinite DEF AuthTypeOK, GatesType
    <3>2. QED
      BY <2>1, <3>1 DEF Fits
  <2>2. QED
    BY <2>1, AuthAssumption DEF Budgets, Covered, GuessesBounded
<1>4. QED
  BY <1>1, <1>2, <1>3, PTL DEF AuthSpec
=============================================================================
