---------------------------- MODULE AcmeManager ----------------------------
(***************************************************************************)
(* The ACME manager (internal/acme) and what the data plane reads of it.   *)
(*                                                                         *)
(* The renewal loop (Run, EnsureAll) and the renew requests (RenewNow)     *)
(* order certificates one at a time under the mutex mu.  An order puts up  *)
(* its challenges, has them validated, finalises and writes chain, key and *)
(* metadata, file by file, where any reload of the data plane may read     *)
(* them at any moment.                                                     *)
(*                                                                         *)
(* A key pair is the number of the order that made it.  Account keys, the  *)
(* solvers' wire formats and the observation counters are left out.        *)
(***************************************************************************)
EXTENDS Naturals, FiniteSets

CONSTANTS
    Cert,      \* the acme certificates of the configuration
    Http,      \* the ones validated by http-01; the others by dns-01
    Authz,     \* the authorizations of an order
    Domains,   \* the domain sets a certificate may list
    Loop,      \* the renewal loop
    Req,       \* renew requests
    Ops,       \* what operators and time do
    Faults,    \* what may fail
    MaxEdits,  \* bound on the first
    MaxFails,  \* bound on the second
    None       \* no file, no holder

OpKinds == {"config", "renew", "age"}
FaultKinds == {"ca", "present", "cleanup", "write", "crash"}
Worker == {Loop} \cup Req
Config == [Cert -> [domains : Domains, disabled : BOOLEAN]]
Meta == [domains : Domains, serial : Nat, due : BOOLEAN]

ASSUME AcmeAssumption ==
    /\ Http \subseteq Cert
    /\ Loop \notin Req
    /\ None \notin Worker \cup Cert \cup Nat /\ None \notin Meta
    /\ Ops \subseteq OpKinds /\ Faults \subseteq FaultKinds
    /\ MaxEdits \in Nat /\ MaxFails \in Nat

VARIABLES
    conf,    \* the certificates as configured
    chain,   \* fullchain.pem, per certificate
    key,     \* privkey.pem
    meta,    \* meta.json; due: inside the renewal window
    txt,     \* TXT records standing at the DNS provider
    tokens,  \* HTTP01Store
    mu,      \* who holds the mutex
    job,     \* what each worker is doing
    tried,   \* certificates inside their cooldown: LastAttempt is less than an hour ago
    live,    \* the pair the data plane serves
    owed,    \* a configuration change is committed and its reload still to come
    up,      \* the process runs
    serial,  \* orders finalised so far
    edits,   \* operator actions and expiries so far
    fails    \* failures so far

disk == <<chain, key, meta>>
posts == <<txt, tokens>>
plane == <<live, owed>>
bounds == <<edits, fails>>
vars == <<conf, disk, posts, mu, job, tried, plane, up, serial, bounds>>

\* Phases of an order, and of a worker around it.
Ordering == {"start", "authz", "present", "finalize", "chain", "key", "meta", "issued", "failed"}
Phase == {"idle", "lock", "pass"} \cup Ordering

Job == [at : Phase, conf : Config, todo : SUBSET Cert, cert : Cert \cup {None},
        left : SUBSET (Authz \cup (Cert \X Authz)), posted : SUBSET (Cert \X Authz),
        made : Nat, changed : BOOLEAN]

----------------------------------------------------------------------------

Resting(cfg) == [at |-> "idle", conf |-> cfg, todo |-> {}, cert |-> None, left |-> {},
                 posted |-> {}, made |-> 0, changed |-> FALSE]

Init ==
    /\ conf \in [Cert -> [domains : Domains, disabled : {FALSE}]]
    /\ chain = [c \in Cert |-> None] /\ key = [c \in Cert |-> None]
    /\ meta = [c \in Cert |-> None]
    /\ txt = {} /\ tokens = {}
    /\ mu = None /\ job = [w \in Worker |-> Resting(conf)]
    /\ tried = {} /\ live = [c \in Cert |-> None] /\ owed = FALSE /\ up = TRUE
    /\ serial = 0 /\ edits = 0 /\ fails = 0

At(w, phase) == up /\ job[w].at = phase

----------------------------------------------------------------------------
(* buildCertResolver: a reload reads the files of every enabled            *)
(* certificate and installs nothing when one pair does not fit together.   *)

Loads(c) == conf[c].disabled \/ chain[c] = None \/ chain[c] = key[c]

Reloaded ==
    IF \A c \in Cert : Loads(c)
    THEN [c \in Cert |-> IF conf[c].disabled THEN None ELSE chain[c]]
    ELSE live

ApiReload ==
    /\ up /\ owed /\ owed' = FALSE
    /\ live' = Reloaded
    /\ UNCHANGED <<conf, disk, posts, mu, job, tried, up, serial, bounds>>

----------------------------------------------------------------------------
(* Operators and time.                                                     *)

Edit(op) == op \in Ops /\ edits < MaxEdits /\ edits' = edits + 1

\* A certificate is committed through the API, which reloads after it.
ChangeCert(c, setup) ==
    /\ up /\ Edit("config")
    /\ setup # conf[c]
    /\ conf' = [conf EXCEPT ![c] = setup]
    /\ owed' = TRUE
    /\ UNCHANGED <<disk, posts, mu, job, tried, live, up, serial, fails>>

\* An issued certificate comes within renewBefore of its expiry.
Ages(c) ==
    /\ Edit("age")
    /\ meta[c] # None /\ ~meta[c].due
    /\ meta' = [meta EXCEPT ![c].due = TRUE]
    /\ UNCHANGED <<conf, chain, key, posts, mu, job, tried, plane, up, serial, fails>>

\* renewCooldown passes.
CooldownElapses(c) ==
    /\ c \in tried
    /\ tried' = tried \ {c}
    /\ UNCHANGED <<conf, disk, posts, mu, job, plane, up, serial, bounds>>

\* An entry past its ttl is dropped by the lookup that finds it.  An order is
\* taken to end within the hour.
KeyAuthExpired(t) ==
    /\ t \in tokens /\ \A w \in Worker : t \notin job[w].posted
    /\ tokens' = tokens \ {t}
    /\ UNCHANGED <<conf, disk, txt, mu, job, tried, plane, up, serial, bounds>>

----------------------------------------------------------------------------
(* Run and RenewNow: the configuration is loaded, then the mutex taken.    *)

Enabled(cfg) == {c \in Cert : ~cfg[c].disabled}

Tick ==
    /\ At(Loop, "idle")
    /\ job' = [job EXCEPT ![Loop] =
                   [Resting(conf) EXCEPT !.at = "lock", !.todo = Enabled(conf)]]
    /\ UNCHANGED <<conf, disk, posts, mu, tried, plane, up, serial, bounds>>

\* EnsureAll waits for the mutex.
EnsureAll ==
    /\ At(Loop, "lock") /\ mu = None
    /\ mu' = Loop
    /\ job' = [job EXCEPT ![Loop].at = "pass"]
    /\ UNCHANGED <<conf, disk, posts, tried, plane, up, serial, bounds>>

\* A request is refused while the certificate is in its cooldown; the disabled
\* flag is not looked at.
RenewNow(r, c) ==
    /\ At(r, "idle") /\ Edit("renew")
    /\ c \notin tried
    /\ job' = [job EXCEPT ![r] = [Resting(conf) EXCEPT !.at = "lock", !.cert = c]]
    /\ UNCHANGED <<conf, disk, posts, mu, tried, plane, up, serial, fails>>

\* Mutant: a request does not look at the mutex.
TryLockAlways(r) ==
    /\ At(r, "lock")
    /\ mu' = r /\ job' = [job EXCEPT ![r].at = "start"]
    /\ UNCHANGED <<conf, disk, posts, tried, plane, up, serial, bounds>>

\* TryLock: refused when any order is in flight.
TryLock(r) ==
    /\ At(r, "lock")
    /\ \/ mu = None /\ mu' = r /\ job' = [job EXCEPT ![r].at = "start"]
       \/ mu # None /\ UNCHANGED mu /\ job' = [job EXCEPT ![r] = Resting(conf)]
    /\ UNCHANGED <<conf, disk, posts, tried, plane, up, serial, bounds>>

----------------------------------------------------------------------------
(* EnsureAll's pass.                                                       *)

\* Mutant: a changed domain set does not ask for a new certificate.
NeedsRenewalByAge(c, cfg) == meta[c] = None \/ meta[c].due

NeedsRenewal(c, cfg) ==
    IF meta[c] = None THEN TRUE ELSE meta[c].domains # cfg[c].domains \/ meta[c].due

EnsureNext(c) ==
    /\ At(Loop, "pass") /\ c \in job[Loop].todo
    /\ job' = [job EXCEPT ![Loop] =
                  [job[Loop] EXCEPT !.todo = @ \ {c}, !.cert = c,
                            !.at = IF NeedsRenewal(c, job[Loop].conf) THEN "start" ELSE "pass"]]
    /\ UNCHANGED <<conf, disk, posts, mu, tried, plane, up, serial, bounds>>

\* The pass, or the request's one order, is over: onChange reloads the data
\* plane if anything was issued, then the mutex is released.
EndPass(w) ==
    /\ At(w, "pass") /\ job[w].todo = {}
    /\ live' = IF job[w].changed THEN Reloaded ELSE live
    /\ mu' = None
    /\ job' = [job EXCEPT ![w] = Resting(conf)]
    /\ UNCHANGED <<conf, disk, posts, tried, owed, up, serial, bounds>>

----------------------------------------------------------------------------
(* renewOne and issue.                                                     *)

Fail(fault) == fault \in Faults /\ fails < MaxFails /\ fails' = fails + 1

Go(w, phase) == job' = [job EXCEPT ![w].at = phase]

\* The attempt is recorded, then solver, account and order are set up.
Attempt(w) ==
    /\ At(w, "start")
    /\ tried' = tried \cup {job[w].cert}
    /\ \/ job' = [job EXCEPT ![w].at = "authz", ![w].left = Authz] /\ UNCHANGED fails
       \/ Fail("ca") /\ Go(w, "failed")
    /\ UNCHANGED <<conf, disk, posts, mu, plane, up, serial, edits>>

Challenge(w, a) == <<job[w].cert, a>>

\* One authorization is fetched: valid already, or its challenge is prepared.
\* An http-01 response is served from here on.
GetAuthorization(w, a) ==
    /\ At(w, "authz") /\ a \in job[w].left
    /\ \/ /\ job' = [job EXCEPT ![w].left = @ \ {a}]
          /\ UNCHANGED tokens
       \/ /\ job' = [job EXCEPT ![w].left = @ \ {a}, ![w].posted = @ \cup {Challenge(w, a)}]
          /\ tokens' = IF job[w].cert \in Http THEN tokens \cup {Challenge(w, a)} ELSE tokens
    /\ UNCHANGED <<conf, disk, txt, mu, tried, plane, up, serial, bounds>>

\* It cannot be fetched or offers no such challenge: the order returns before
\* the deferred Delete is in place.
NoAuthorization(w) ==
    /\ At(w, "authz") /\ job[w].left # {}
    /\ Fail("ca")
    /\ job' = [job EXCEPT ![w].at = "failed", ![w].posted = {}]
    /\ UNCHANGED <<conf, disk, posts, mu, tried, plane, up, serial, edits>>

\* The response cannot be computed: the tokens put so far are deleted.
NoResponse(w) ==
    /\ At(w, "authz") /\ job[w].left # {} /\ job[w].cert \in Http
    /\ Fail("ca") /\ Go(w, "failed")
    /\ UNCHANGED <<conf, disk, posts, mu, tried, plane, up, serial, edits>>

Authorized(w) ==
    /\ At(w, "authz") /\ job[w].left = {}
    /\ job' = [job EXCEPT ![w].at = "present",
                          ![w].left = IF job[w].cert \in Http THEN {} ELSE job[w].posted]
    /\ UNCHANGED <<conf, disk, posts, mu, tried, plane, up, serial, bounds>>

\* Mutant: a failed Present returns without the cleanup.
PresentNoCleanup(w, t) ==
    /\ At(w, "present") /\ t \in job[w].left
    /\ \/ /\ txt' = txt \cup {t}
          /\ job' = [job EXCEPT ![w].left = @ \ {t}] /\ UNCHANGED fails
       \/ /\ Fail("present") /\ txt' \in {txt, txt \cup {t}}
          /\ job' = [job EXCEPT ![w].at = "failed", ![w].posted = {}]
    /\ UNCHANGED <<conf, disk, tokens, mu, tried, plane, up, serial, edits>>

\* A call that fails may still have created the record.
Present(w, t) ==
    /\ At(w, "present") /\ t \in job[w].left
    /\ \/ /\ txt' = txt \cup {t}
          /\ job' = [job EXCEPT ![w].left = @ \ {t}] /\ UNCHANGED fails
       \/ Fail("present") /\ txt' \in {txt, txt \cup {t}} /\ Go(w, "failed")
    /\ UNCHANGED <<conf, disk, tokens, mu, tried, plane, up, serial, edits>>

\* waitPropagation, Accept and WaitAuthorization.
Validate(w) ==
    /\ At(w, "present") /\ job[w].left = {}
    /\ \/ Go(w, "finalize") /\ UNCHANGED fails
       \/ Fail("ca") /\ Go(w, "failed")
    /\ UNCHANGED <<conf, disk, posts, mu, tried, plane, up, serial, edits>>

CreateOrderCert(w) ==
    /\ At(w, "finalize")
    /\ \/ /\ serial' = serial + 1
          /\ job' = [job EXCEPT ![w].at = "chain", ![w].made = serial + 1]
          /\ UNCHANGED fails
       \/ Fail("ca") /\ Go(w, "failed") /\ UNCHANGED serial
    /\ UNCHANGED <<conf, disk, posts, mu, tried, plane, up, edits>>

\* Mutant: the metadata is written first.
SaveMetaFirst(w) ==
    /\ At(w, "chain")
    /\ chain' = [chain EXCEPT ![job[w].cert] = job[w].made] /\ Go(w, "key")
    /\ meta' = [meta EXCEPT ![job[w].cert] =
                  [domains |-> job[w].conf[job[w].cert].domains, serial |-> job[w].made,
                   due |-> FALSE]]
    /\ UNCHANGED <<conf, key, posts, mu, tried, plane, up, serial, bounds>>

\* saveIssued: one rename after the other.
SaveChain(w) ==
    /\ At(w, "chain")
    /\ chain' = [chain EXCEPT ![job[w].cert] = job[w].made] /\ Go(w, "key")
    /\ UNCHANGED <<conf, key, meta, posts, mu, tried, plane, up, serial, bounds>>

SaveKey(w) ==
    /\ At(w, "key")
    /\ key' = [key EXCEPT ![job[w].cert] = job[w].made] /\ Go(w, "meta")
    /\ UNCHANGED <<conf, chain, meta, posts, mu, tried, plane, up, serial, bounds>>

SaveMeta(w) ==
    /\ At(w, "meta")
    /\ meta' = [meta EXCEPT ![job[w].cert] =
                  [domains |-> job[w].conf[job[w].cert].domains, serial |-> job[w].made,
                   due |-> FALSE]]
    /\ Go(w, "issued")
    /\ UNCHANGED <<conf, chain, key, posts, mu, tried, plane, up, serial, bounds>>

SaveFails(w) ==
    /\ up /\ job[w].at \in {"chain", "key", "meta"}
    /\ Fail("write") /\ Go(w, "failed")
    /\ UNCHANGED <<conf, disk, posts, mu, tried, plane, up, serial, edits>>

\* Mutant: whether anything changed is the outcome of the last order.
SettleLast(w) ==
    /\ up /\ job[w].at \in {"issued", "failed"}
    /\ txt' = txt \ job[w].posted /\ UNCHANGED fails
    /\ tokens' = tokens \ job[w].posted
    /\ job' = [job EXCEPT ![w].at = "pass", ![w].changed = job[w].at = "issued",
                          ![w].left = {}, ![w].posted = {}]
    /\ UNCHANGED <<conf, disk, mu, tried, plane, up, serial, edits>>

\* The order returns: its challenges are withdrawn, best effort at the provider.
Settle(w) ==
    /\ up /\ job[w].at \in {"issued", "failed"}
    /\ \/ txt' = txt \ job[w].posted /\ UNCHANGED fails
       \/ Fail("cleanup") /\ \E t \in job[w].posted \cap txt : txt' = (txt \ job[w].posted) \cup {t}
    /\ tokens' = tokens \ job[w].posted
    /\ job' = [job EXCEPT ![w].at = "pass", ![w].changed = @ \/ job[w].at = "issued",
                          ![w].left = {}, ![w].posted = {}]
    /\ UNCHANGED <<conf, disk, mu, tried, plane, up, serial, edits>>

----------------------------------------------------------------------------

\* The process ends wherever it is; only files and DNS records are left.
Crash ==
    /\ up /\ Fail("crash")
    /\ up' = FALSE
    /\ mu' = None /\ job' = [w \in Worker |-> Resting(conf)]
    /\ tokens' = {} /\ tried' = {} /\ owed' = FALSE
    /\ live' = [c \in Cert |-> None]
    /\ UNCHANGED <<conf, disk, txt, serial, edits>>

\* At startup a configuration that does not compile is fatal.
Restart ==
    /\ ~up /\ \A c \in Cert : Loads(c)
    /\ up' = TRUE /\ live' = Reloaded
    /\ UNCHANGED <<conf, disk, posts, mu, job, tried, owed, serial, bounds>>

----------------------------------------------------------------------------

Order(w) ==
    \/ Attempt(w)
    \/ \E a \in Authz : GetAuthorization(w, a)
    \/ NoAuthorization(w) \/ NoResponse(w) \/ Authorized(w)
    \/ \E t \in Cert \X Authz : Present(w, t)
    \/ Validate(w) \/ CreateOrderCert(w)
    \/ SaveChain(w) \/ SaveKey(w) \/ SaveMeta(w) \/ SaveFails(w)
    \/ Settle(w) \/ EndPass(w)

LoopStep == Tick \/ EnsureAll \/ (\E c \in Cert : EnsureNext(c)) \/ Order(Loop)
ReqStep(r) == TryLock(r) \/ Order(r)

Next ==
    \/ \E c \in Cert, s \in [domains : Domains, disabled : BOOLEAN] : ChangeCert(c, s)
    \/ \E c \in Cert : Ages(c) \/ CooldownElapses(c)
    \/ \E t \in Cert \X Authz : KeyAuthExpired(t)
    \/ \E r \in Req, c \in Cert : RenewNow(r, c)
    \/ LoopStep \/ (\E r \in Req : ReqStep(r))
    \/ ApiReload \/ Crash \/ Restart

\* The ticker keeps firing and every goroutine runs; an API call that committed
\* goes on to its reload.
Fairness == WF_vars(LoopStep) /\ WF_vars(ApiReload) /\ \A r \in Req : WF_vars(ReqStep(r))

Spec == Init /\ [][Next]_vars /\ Fairness

----------------------------------------------------------------------------
(* Properties.                                                             *)

\* Every variable has its type; only http-01 responses are ever served.
TypeOK ==
    /\ conf \in Config
    /\ chain \in [Cert -> Nat \cup {None}] /\ key \in [Cert -> Nat \cup {None}]
    /\ meta \in [Cert -> Meta \cup {None}]
    /\ txt \subseteq Cert \X Authz /\ tokens \subseteq Http \X Authz
    /\ mu \in Worker \cup {None}
    /\ job \in [Worker -> Job]
    /\ tried \subseteq Cert /\ live \in [Cert -> Nat \cup {None}]
    /\ owed \in BOOLEAN /\ up \in BOOLEAN
    /\ serial \in Nat /\ edits \in 0..MaxEdits /\ fails \in 0..MaxFails

Saving(c) == \E w \in Worker : job[w].cert = c /\ job[w].at \in {"key", "meta"}

\* The three files of a certificate are of one order.
Whole(c) ==
    /\ chain[c] = key[c]
    /\ IF meta[c] = None THEN chain[c] = None ELSE meta[c].serial = chain[c]

\* Outside saveIssued the three files of a certificate are of one order: two
\* orders never mix their chain, key and metadata, though requests and the loop
\* start at any moment.
IssuedPairMatches == \A c \in Cert : ~Saving(c) => Whole(c)

\* With no order in flight, no reload to come and no certificate torn by a write
\* that failed or a crash, the data plane serves for every enabled certificate
\* what is on disk: a renewal reaches the listeners whatever other orders of the
\* pass failed, whichever reload met a half-written pair and wherever the process
\* died before.
ServedAtRest ==
    up /\ mu = None /\ ~owed /\ (\A c \in Enabled(conf) : Whole(c)) =>
        \A c \in Enabled(conf) : live[c] = chain[c]

\* The metadata never tells of an order whose chain and key did not both reach
\* the disk, wherever the process died or a write failed: what it calls issued
\* was issued.
MetaNeverAhead ==
    \A c \in Cert : meta[c] # None =>
        /\ chain[c] # None /\ key[c] # None
        /\ chain[c] >= meta[c].serial /\ key[c] >= meta[c].serial

\* While the CA validates an order, every challenge of it can be answered: no
\* other order's cleanup takes away a token or a record it relies on.
ChallengesAnswerable ==
    \A w \in Worker : job[w].at = "present" /\ job[w].left = {} =>
        job[w].posted \subseteq IF job[w].cert \in Http THEN tokens ELSE txt

\* Every TXT record standing belongs to an order in flight: a failed order, too,
\* cleans up the records it made.
RecordsWithdrawn == \A t \in txt : \E w \in Worker : t \in job[w].posted

\* Once operators stop, every enabled certificate is issued for the domains the
\* configuration lists, not due, and served: however requests, failures and
\* passes that started from an older configuration fell out.
CertsConverge ==
    <>[](\A c \in Cert : ~conf[c].disabled =>
            /\ meta[c] # None /\ live[c] = chain[c]
            /\ meta[c].domains = conf[c].domains /\ ~meta[c].due)

=============================================================================
