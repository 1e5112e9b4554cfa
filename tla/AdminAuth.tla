----------------------------- MODULE AdminAuth -----------------------------
(***************************************************************************)
(* Signing in to the admin panel: internal/auth (the authenticator, TOTP,  *)
(* role mapping), internal/session, internal/oidc and the login handlers   *)
(* of internal/server.                                                     *)
(*                                                                         *)
(* Requests are goroutines.  One step of a request is what it does under   *)
(* one lock, one database statement or one call to the identity provider;  *)
(* requests, reconfigurations, the clock and the session collector         *)
(* interleave between steps.  A client stands for its browser and for the  *)
(* address the gates count it under.                                       *)
(***************************************************************************)
EXTENDS Naturals, FiniteSets

CONSTANTS
    Client,      \* browsers; also the keys of the per-address gates
    User,        \* user names submitted at the login form
    Admin,       \* the one that is the configured local user
    Req,         \* request slots: the concurrency
    Token,       \* values NewState can return
    Sid,         \* session ids Create can return (bound: sessions ever made)
    Conf,        \* configurations: [local, sso, idp], idp NoOne or a record
    Groups,      \* the groups the identity provider asserts for a client
    Mixes,       \* sets of handlers: a behaviour uses those of one (bound)
    NoOne,
    IPLimit, UserLimit, MaxKeys, \* maxLoginFails, maxUserLoginFails, cap
    StartLimit,                  \* maxPendingPerIP
    MaxPending,                  \* maxPendingLogins
    Lockout, StartWindow, PendTTL, TotpTTL, SessTTL, \* durations, in ticks
    MaxTime,     \* bound on the clock
    MaxCalls     \* bound on the requests that are let in

ASSUME AuthAssumption ==
    /\ NoOne \notin Client \cup User \cup Token \cup Sid \cup Nat
    /\ Admin \in User /\ Client \cap User = {} /\ IsFiniteSet(Req)
    /\ NoOne \notin [fails : Nat, reset : Nat]
    /\ {IPLimit, UserLimit} \subseteq Nat \ {0}
    /\ {MaxKeys, StartLimit, MaxPending, Lockout, StartWindow, PendTTL, TotpTTL,
        SessTTL, MaxTime, MaxCalls} \subseteq Nat

VARIABLES
    authNow,  \* the clock; one tick is also one TOTP step
    kinds,    \* the handlers in use
    calls,    \* requests let in so far
    totp,     \* LocalTOTPEnabled: given at start-up
    conf,     \* idps, settings and baseURL, as last configured
    idpClient, \* the cached OIDC client: NoOne or the provider it was built for
    pending,  \* half-finished logins, by token
    ipGate, userGate, startGate, \* the three rate gates
    lastStep, \* otpLastCounter of the local user, NoOne at start
    sessions, \* the session table
    jar,      \* per client: the login-state cookie and the session cookie
    req,      \* the requests in flight
    guesses,  \* history: per key, the failed attempts of the window still open
              \* since a login was completed, and the last attempt's time
    spent,    \* history: per TOTP step, times its code was accepted since start-up
    out       \* history: sessions logged out

authVars == <<authNow, kinds, calls, totp, conf, idpClient, pending, ipGate, userGate, startGate,
          lastStep, sessions, jar, req, guesses, spent, out>>
gates == <<ipGate, userGate, startGate, guesses>>
env == <<authNow, kinds, calls, totp, conf>>
world == <<authNow, kinds, totp, conf>>

NoCall == [pc |-> "idle", c |-> NoOne, u |-> NoOne, t |-> NoOne, good |-> FALSE,
         code |-> 0, from |-> NoOne, idp |-> NoOne, iss |-> NoOne, s |-> NoOne,
         who |-> NoOne, totp |-> FALSE, mine |-> {}, allowed |-> FALSE]

Steps == 0 .. MaxTime + 1
EmptyJar == [state |-> NoOne, sid |-> NoOne]

\* localAllowed: SSO-only turns the local login off whatever else is set.
LocalAllowed(cf) == ~cf.sso /\ cf.local

AuthInit ==
    /\ authNow = 0 /\ kinds \in Mixes /\ calls = 0 /\ totp \in BOOLEAN /\ conf \in Conf
    /\ idpClient = NoOne
    /\ pending = [t \in Token |-> NoOne]
    /\ ipGate = [k \in Client |-> NoOne]
    /\ userGate = [k \in User |-> NoOne]
    /\ startGate = [k \in Client |-> NoOne]
    /\ lastStep = NoOne
    /\ sessions = [s \in Sid |-> NoOne]
    /\ jar = [c \in Client |-> EmptyJar]
    /\ req = [r \in Req |-> NoCall]
    /\ guesses = [k \in Client \cup User |-> [n |-> 0, at |-> 0]]
    /\ spent = [n \in Steps |-> 0]
    /\ out = {}

----------------------------------------------------------------------------
(* rateGate: events counted per key over a rolling window.                 *)

Lapsed(e) == e # NoOne /\ authNow > e.reset
Sweep(g) == [k \in DOMAIN g |-> IF Lapsed(g[k]) THEN NoOne ELSE g[k]]
Tracked(g) == {k \in DOMAIN g : g[k] # NoOne}

\* saturatedLocked: full of live entries, the expired ones swept.
Saturated(g) ==
    Cardinality(Tracked(g)) >= MaxKeys
        /\ Cardinality(Tracked(Sweep(g))) >= MaxKeys
SweptKeys(g) == IF Cardinality(Tracked(g)) >= MaxKeys THEN Sweep(g) ELSE g

\* atLimit; an untracked key of a saturated gate counts as at its limit.
AtLimit(g, k, limit) ==
    IF g[k] = NoOne THEN Saturated(g)
                   ELSE ~Lapsed(g[k]) /\ g[k].fails >= limit

\* What atLimit leaves behind: an expired entry is dropped on the way out.
Looked(g, k) ==
    IF g[k] = NoOne THEN SweptKeys(g)
    ELSE IF Lapsed(g[k]) THEN [g EXCEPT ![k] = NoOne] ELSE g

Count(g, k, n, w) == [g EXCEPT ![k] = [fails |-> n, reset |-> authNow + w]]

\* Mutant: one attempt more than the limit.
MayBeginOneMore(g, k, limit) ==
    IF g[k] = NoOne \/ Lapsed(g[k]) THEN ~Saturated([g EXCEPT ![k] = NoOne])
                                   ELSE g[k].fails <= limit

\* tryBegin: the check and the count are one step.
MayBegin(g, k, limit) ==
    IF g[k] = NoOne \/ Lapsed(g[k]) THEN ~Saturated([g EXCEPT ![k] = NoOne])
                                   ELSE g[k].fails < limit
Begun(g, k) ==
    IF g[k] = NoOne \/ Lapsed(g[k])
    THEN Count(SweptKeys([g EXCEPT ![k] = NoOne]), k, 1, Lockout)
    ELSE Count(g, k, g[k].fails + 1, Lockout)
Refused(g, k) ==
    IF g[k] = NoOne \/ Lapsed(g[k]) THEN SweptKeys([g EXCEPT ![k] = NoOne]) ELSE g

\* record: as tryBegin, without a limit; a saturated gate counts nothing new.
Recorded(g, k) ==
    IF g[k] = NoOne
    THEN IF Saturated(g) THEN Sweep(g) ELSE Count(SweptKeys(g), k, 1, StartWindow)
    ELSE Count(g, k, IF Lapsed(g[k]) THEN 1 ELSE g[k].fails + 1, StartWindow)

----------------------------------------------------------------------------
(* Requests.                                                               *)

Start(r, kind) ==
    /\ req[r].pc = "idle" /\ kind \in kinds
    /\ calls < MaxCalls /\ calls' = calls + 1
Done(r) == req' = [req EXCEPT ![r] = NoCall]
Goto(r, pc) == req' = [req EXCEPT ![r].pc = pc]

\* The expired half-finished logins are collected before one is added.
Collected == [t \in Token |->
    IF pending[t] # NoOne /\ authNow > pending[t].exp THEN NoOne ELSE pending[t]]
Outstanding(p) == {t \in Token : p[t] # NoOne}

\* A token of NewState: 32 random bytes, never one still in use.
Fresh(t) ==
    /\ pending[t] = NoOne
    /\ \A r \in Req : req[r].t # t
    /\ \A c \in Client : jar[c].state # t

\* BeginLogin, up to the provider: the client's budget of started logins.
StartLogin(r, c) ==
    /\ Start(r, "oidc")
    /\ ~AtLimit(startGate, c, StartLimit)
    /\ startGate' = IF startGate[c] = NoOne THEN SweptKeys(startGate) ELSE startGate
    /\ req' = [req EXCEPT ![r] = [NoCall EXCEPT !.pc = "client", !.c = c]]
    /\ UNCHANGED <<world, idpClient, pending, ipGate, userGate, lastStep, sessions,
                   jar, guesses, spent, out>>

\* oidcClient under the read lock: the provider as configured and the cached
\* client; without one, a client is built outside the lock.
OIDCClient(r) ==
    /\ req[r].pc = "client"
    /\ \/ /\ conf.idp = NoOne
          /\ Done(r)
       \/ /\ conf.idp # NoOne /\ idpClient # NoOne
          /\ req' = [req EXCEPT ![r].idp = conf.idp, ![r].iss = idpClient.issuer,
                       ![r].pc = IF req[r].t = NoOne THEN "pend" ELSE "exchange"]
       \/ /\ conf.idp # NoOne /\ idpClient = NoOne
          /\ req' = [req EXCEPT ![r].idp = conf.idp, ![r].pc = "discover"]
    /\ UNCHANGED <<env, idpClient, pending, gates, lastStep, sessions, jar, spent,
                   out>>

\* oidc.New: discovery fails, or the new client is cached under the lock, for
\* the provider as it was read before.
Discover(r) ==
    /\ req[r].pc = "discover"
    /\ \/ Done(r) /\ UNCHANGED idpClient
       \/ /\ idpClient' = req[r].idp
          /\ req' = [req EXCEPT ![r].iss = req[r].idp.issuer,
                       ![r].pc = IF req[r].t = NoOne THEN "pend" ELSE "exchange"]
    /\ UNCHANGED <<env, pending, gates, lastStep, sessions, jar, spent, out>>

\* BeginLogin's end: the login is remembered if there is room, counted, and
\* bound to the browser by the state cookie.
AddPending(r) ==
    /\ req[r].pc = "pend"
    /\ \/ /\ Cardinality(Outstanding(Collected)) >= MaxPending
          /\ pending' = Collected
          /\ UNCHANGED <<startGate, jar>>
       \/ /\ Cardinality(Outstanding(Collected)) < MaxPending
          /\ \E t \in Token :
               /\ Fresh(t)
               /\ pending' = [Collected EXCEPT ![t] =
                    [kind |-> "oidc", iss |-> req[r].iss, by |-> req[r].c,
                     exp |-> authNow + PendTTL]]
               /\ jar' = [jar EXCEPT ![req[r].c].state = t]
          /\ startGate' = Recorded(startGate, req[r].c)
    /\ Done(r)
    /\ UNCHANGED <<env, idpClient, ipGate, userGate, lastStep, sessions, guesses,
                   spent, out>>

RemovePending(t) == [pending EXCEPT ![t] = NoOne]

\* Mutant: a callback is taken from any browser.
BoundLoosely(c, t) == TRUE

\* The state value must be the one in this browser's cookie.
Bound(c, t) == jar[c].state # NoOne /\ jar[c].state = t

\* handleCallback: the cookie is cleared whatever follows.  A callback with an
\* error or without a code drops the pending login, one that reached another
\* browser leaves it, and the rest is CompleteLogin: the state is redeemed once.
Callback(r, c, t) ==
    /\ Start(r, "callback")
    /\ pending[t] # NoOne \/ jar[c].state = t
    /\ jar' = [jar EXCEPT ![c].state = NoOne]
    /\ \/ pending' = RemovePending(t) /\ UNCHANGED req
       \/ /\ ~Bound(c, t)
          /\ UNCHANGED <<pending, req>>
       \/ /\ Bound(c, t)
          /\ pending' = RemovePending(t)
          /\ IF \/ pending[t] = NoOne
                \/ pending[t].kind # "oidc"
                \/ authNow > pending[t].exp
             THEN UNCHANGED req
             ELSE req' = [req EXCEPT ![r] = [NoCall EXCEPT !.pc = "client",
                            !.c = c, !.t = t, !.who = pending[t].by,
                            !.from = pending[t].iss]]
    /\ UNCHANGED <<world, idpClient, gates, lastStep, sessions, spent, out>>

\* MapRole: admin groups win over user groups, then the default; no mapping or
\* no match is no role.
MapRole(groups, rm) ==
    IF rm = NoOne THEN NoOne
    ELSE IF rm.admins \cap groups # {} THEN "admin"
    ELSE IF rm.users \cap groups # {} THEN "user"
    ELSE rm.default

\* Client.Exchange and the role: the provider refuses a code that another
\* issuer gave, and may fail.
Exchange(r) ==
    /\ req[r].pc = "exchange"
    /\ \/ Done(r)
       \/ /\ req[r].from = req[r].iss
          /\ MapRole(Groups[req[r].who], req[r].idp.roles) # NoOne
          /\ Goto(r, "mint")
    /\ UNCHANGED <<env, idpClient, pending, gates, lastStep, sessions, jar, spent,
                   out>>

----------------------------------------------------------------------------
(* Local login: password, then a TOTP code when it is enabled.             *)

\* An attempt that may go on; in a new window the old failures are history.
Charge(r, k, rec) ==
    LET new == authNow > guesses[k].at + Lockout IN
    /\ guesses' = [guesses EXCEPT ![k] =
                     [n |-> IF new THEN 0 ELSE @.n, at |-> authNow]]
    /\ req' = [q \in Req |->
         IF q = r THEN [rec EXCEPT !.mine = @ \cup {k}]
         ELSE IF new THEN [req[q] EXCEPT !.mine = @ \ {k}] ELSE req[q]]

\* handleLocalLogin and handleLocalTOTP begin alike: a locked name is turned
\* away before LoginAttempt reserves an attempt for the address.  (The name is
\* looked at again when its own attempt is reserved, so the first look and the
\* reservation are one step here.)
Present(r, c, u, rec) ==
    /\ Start(r, "local")
    /\ ~AtLimit(userGate, u, UserLimit)
    /\ userGate' = Looked(userGate, u)
    /\ \/ /\ MayBegin(ipGate, c, IPLimit)
          /\ ipGate' = Begun(ipGate, c)
          /\ Charge(r, c, [rec EXCEPT !.pc = "user", !.c = c, !.u = u,
                                      !.allowed = LocalAllowed(conf)])
       \/ /\ ~MayBegin(ipGate, c, IPLimit)
          /\ ipGate' = Refused(ipGate, c)
          /\ UNCHANGED <<req, guesses>>
    /\ UNCHANGED <<world, idpClient, pending, startGate, lastStep, sessions, jar,
                   spent, out>>

LocalLogin(r, c, u, good) == Present(r, c, u, [NoCall EXCEPT !.good = good])

LocalTOTP(r, c, u, t, n) ==
    /\ pending[t] # NoOne /\ n <= authNow + 1
    /\ Present(r, c, u, [NoCall EXCEPT !.t = t, !.code = n, !.totp = TRUE])

\* UserLoginAttempt: and one for the name.
ReserveUser(r) ==
    LET u == req[r].u IN
    /\ req[r].pc = "user"
    /\ \/ /\ MayBegin(userGate, u, UserLimit)
          /\ userGate' = Begun(userGate, u)
          /\ Charge(r, u, [req[r] EXCEPT !.pc = "verify"])
       \/ /\ ~MayBegin(userGate, u, UserLimit)
          /\ userGate' = Refused(userGate, u)
          /\ Done(r) /\ UNCHANGED guesses
    /\ UNCHANGED <<env, idpClient, pending, ipGate, startGate, lastStep, sessions,
                   jar, spent, out>>

\* The attempt failed: it stays counted.
Fail(r) ==
    /\ guesses' = [k \in DOMAIN guesses |->
                     IF k \in req[r].mine THEN [guesses[k] EXCEPT !.n = @ + 1]
                                          ELSE guesses[k]]
    /\ Done(r)

\* LocalLogin: policy and password.
VerifyPassword(r) ==
    /\ req[r].pc = "verify" /\ ~req[r].totp
    /\ IF LocalAllowed(conf) /\ req[r].u = Admin /\ req[r].good
       THEN /\ Goto(r, IF totp THEN "second" ELSE "mint")
            /\ UNCHANGED guesses
       ELSE Fail(r)
    /\ UNCHANGED <<env, idpClient, pending, ipGate, userGate, startGate, lastStep,
                   sessions, jar, spent, out>>

\* startPendingTOTP: no session yet, and the gates are not cleared.
AskCode(r) ==
    /\ req[r].pc = "second"
    /\ \/ /\ Cardinality(Outstanding(Collected)) >= MaxPending
          /\ pending' = Collected
          /\ Fail(r)
       \/ /\ Cardinality(Outstanding(Collected)) < MaxPending
          /\ \E t \in Token :
               /\ Fresh(t)
               /\ pending' = [Collected EXCEPT ![t] =
                    [kind |-> "totp", iss |-> NoOne, by |-> req[r].c,
                     exp |-> authNow + TotpTTL]]
          /\ Done(r) /\ UNCHANGED guesses
    /\ UNCHANGED <<env, idpClient, ipGate, userGate, startGate, lastStep, sessions,
                   jar, spent, out>>

\* CompleteTOTPLogin: the pending token is spent whatever the outcome.
Redeem(r) ==
    LET p == pending[req[r].t] IN
    /\ req[r].pc = "verify" /\ req[r].totp
    /\ pending' = RemovePending(req[r].t)
    /\ IF p # NoOne /\ p.kind = "totp" /\ authNow <= p.exp
       THEN Goto(r, "code") /\ UNCHANGED guesses
       ELSE Fail(r)
    /\ UNCHANGED <<env, idpClient, ipGate, userGate, startGate, lastStep, sessions,
                   jar, spent, out>>

\* verifyTOTP: the code of this step or of a neighbour.
InWindow(n) == n <= authNow + 1 /\ authNow <= n + 1

\* localAllowed again, verifyTOTP and acceptTOTPCounter: a step is accepted
\* once, and none older than the last.
CheckCode(r) ==
    /\ req[r].pc = "code"
    /\ IF /\ LocalAllowed(conf)
          /\ InWindow(req[r].code)
          /\ lastStep = NoOne \/ req[r].code > lastStep
       THEN /\ lastStep' = req[r].code
            /\ spent' = [spent EXCEPT ![req[r].code] = @ + 1]
            /\ Goto(r, "mint")
            /\ UNCHANGED guesses
       ELSE Fail(r) /\ UNCHANGED <<lastStep, spent>>
    /\ UNCHANGED <<env, idpClient, pending, ipGate, userGate, startGate, sessions,
                   jar, out>>

----------------------------------------------------------------------------
(* Sessions.                                                               *)

\* newLocalSession or CompleteLogin's end: Create inserts the row, the cookie
\* goes out with the answer; only then does a local login clear its gates.
Mint(r, s) ==
    LET q == req[r]
        local == q.idp = NoOne
    IN
    /\ q.pc = "mint"
    /\ sessions[s] = NoOne /\ s \notin out
    /\ (\A c \in Client : jar[c].sid # s) /\ \A o \in Req : req[o].s # s
    /\ sessions' = [sessions EXCEPT ![s] =
         [who |-> q.who, local |-> local,
          role |-> IF local THEN "admin"
                            ELSE MapRole(Groups[q.who], q.idp.roles),
          exp |-> authNow + SessTTL, allowed |-> q.allowed]]
    /\ jar' = [jar EXCEPT ![q.c].sid = s]
    /\ IF local THEN Goto(r, "note") ELSE Done(r)
    /\ UNCHANGED <<env, idpClient, pending, gates, lastStep, spent, out>>

\* The insert failed: no session, and an accepted code is spent all the same.
CreateFails(r) ==
    /\ req[r].pc = "mint"
    /\ Fail(r)
    /\ UNCHANGED <<env, idpClient, pending, ipGate, userGate, startGate, lastStep,
                   sessions, jar, spent, out>>

\* NoteLoginResult and NoteUserLoginResult: a completed login clears both.
Note(r) ==
    /\ req[r].pc = "note"
    /\ ipGate' = [ipGate EXCEPT ![req[r].c] = NoOne]
    /\ userGate' = [userGate EXCEPT ![req[r].u] = NoOne]
    /\ guesses' = [guesses EXCEPT ![req[r].c].n = 0, ![req[r].u].n = 0]
    /\ req' = [q \in Req |-> IF q = r THEN NoCall
                 ELSE [req[q] EXCEPT !.mine = @ \ {req[r].c, req[r].u}]]
    /\ UNCHANGED <<env, idpClient, pending, startGate, lastStep, sessions, jar,
                   spent, out>>

\* Store.Get finds a row only while it is live; an expired one is deleted.
SessionLive(s) == sessions[s] # NoOne /\ sessions[s].exp > authNow
\* Store.Delete; absence is no error.
Delete(s) == [sessions EXCEPT ![s] = NoOne]
\* Mutant: an upsert where the code updates the row if it is there.
TouchInserts(s) == [sessions EXCEPT ![s] =
    [who |-> NoOne, local |-> FALSE, role |-> "user", exp |-> authNow + SessTTL,
     allowed |-> TRUE]]
\* Store.Touch updates a row; it never inserts one.
Touch(s) == [sessions EXCEPT ![s] =
    IF @ = NoOne THEN NoOne ELSE [@ EXCEPT !.exp = authNow + SessTTL]]

\* authenticate: Get deletes an expired row; a live session past half its
\* lifetime will be extended.
Authenticate(r, c) ==
    LET s == jar[c].sid IN
    /\ Start(r, "api")
    /\ s # NoOne /\ sessions[s] # NoOne
    /\ IF ~SessionLive(s)
       THEN sessions' = Delete(s) /\ UNCHANGED req
       ELSE /\ 2 * (sessions[s].exp - authNow) <= SessTTL
            /\ req' = [req EXCEPT ![r] = [NoCall EXCEPT !.pc = "slide", !.c = c,
                                            !.s = s]]
            /\ UNCHANGED sessions
    /\ UNCHANGED <<world, idpClient, pending, gates, lastStep, jar, spent, out>>

\* maybeSlide: Touch updates the row, if it is still there, and the cookie is
\* issued again; Touch may fail.
Slide(r) ==
    LET q == req[r] IN
    /\ q.pc = "slide"
    /\ \/ UNCHANGED <<sessions, jar>>
       \/ /\ sessions' = Touch(q.s)
          /\ jar' = [jar EXCEPT ![q.c].sid = q.s]
    /\ Done(r)
    /\ UNCHANGED <<env, idpClient, pending, gates, lastStep, spent, out>>

\* Logout: the row goes, and the cookie.
Logout(c) ==
    /\ "api" \in kinds /\ jar[c].sid # NoOne
    /\ sessions' = Delete(jar[c].sid)
    /\ out' = out \cup {jar[c].sid}
    /\ jar' = [jar EXCEPT ![c].sid = NoOne]
    /\ UNCHANGED <<env, idpClient, pending, gates, lastStep, req, spent>>

\* sessionGC.
GC ==
    /\ \E s \in Sid : sessions[s] # NoOne /\ ~SessionLive(s)
    /\ sessions' = [s \in Sid |-> IF SessionLive(s) THEN sessions[s] ELSE NoOne]
    /\ UNCHANGED <<env, idpClient, pending, gates, lastStep, jar, req, spent, out>>

----------------------------------------------------------------------------
(* The surroundings.                                                       *)

\* Configure: the settings and providers, and an empty client cache.
Configure(cf) ==
    /\ "configure" \in kinds /\ conf # cf /\ conf' = cf
    /\ idpClient' = NoOne
    /\ req' = [r \in Req |-> IF req[r].pc = "idle" THEN req[r]
                 ELSE [req[r] EXCEPT !.allowed = @ \/ LocalAllowed(cf)]]
    /\ UNCHANGED <<authNow, kinds, calls, totp, pending, gates, lastStep, sessions,
                   jar, spent, out>>

AuthTick ==
    /\ authNow < MaxTime /\ authNow' = authNow + 1
    /\ UNCHANGED <<kinds, calls, totp, conf, idpClient, pending, gates, lastStep,
                   sessions, jar, req, spent, out>>

AuthNext ==
    \/ \E r \in Req, c \in Client :
         \/ StartLogin(r, c)
         \/ \E t \in Token : Callback(r, c, t)
         \/ \E u \in User, good \in BOOLEAN : LocalLogin(r, c, u, good)
         \/ \E u \in User, t \in Token, n \in Steps : LocalTOTP(r, c, u, t, n)
         \/ Authenticate(r, c)
    \/ \E r \in Req :
         \/ OIDCClient(r) \/ Discover(r) \/ AddPending(r) \/ Exchange(r)
         \/ ReserveUser(r) \/ VerifyPassword(r) \/ AskCode(r)
         \/ Redeem(r) \/ CheckCode(r)
         \/ \E s \in Sid : Mint(r, s)
         \/ CreateFails(r) \/ Note(r) \/ Slide(r)
    \/ \E c \in Client : Logout(c)
    \/ GC
    \/ \E cf \in Conf : Configure(cf)
    \/ AuthTick

AuthSpec == AuthInit /\ [][AuthNext]_authVars

----------------------------------------------------------------------------
(* Properties.                                                             *)

\* However requests overlap, a window holds at most the limit of failed
\* attempts per address and per name, passwords and codes together, unless a
\* login was completed: the attempt is counted before the credential is looked
\* at and a right password alone does not clear the count.
GuessesBounded ==
    /\ \A c \in Client : guesses[c].n <= IPLimit
    /\ \A u \in User : guesses[u].n <= UserLimit

\* A session is earned: a local one by a request during which local login was
\* allowed, so that a login half done before SSO-only was set is not finished
\* after it; one with a second factor by a code no other session was made with;
\* one of a provider by the person signing in with this browser.
SessionsEarned ==
    /\ \A s \in Sid : sessions[s] # NoOne /\ sessions[s].local
                       => sessions[s].allowed
    /\ \A n \in Steps : spent[n] <= 1
    /\ \A c \in Client : \A s \in {jar[c].sid} \ {NoOne} :
         sessions[s] # NoOne /\ ~sessions[s].local => sessions[s].who = c

\* A session that was logged out is not brought back by the sliding renewal of
\* a request that authenticated before.
LogoutIsFinal == \A s \in out : sessions[s] = NoOne
=============================================================================
