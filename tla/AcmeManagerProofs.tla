------------------------- MODULE AcmeManagerProofs -------------------------
(***************************************************************************)
(* Proofs about AcmeManager, for any number of certificates, requests,     *)
(* authorizations and failures.                                            *)
(***************************************************************************)
EXTENDS AcmeManager, TLAPS

\* Whoever orders has a certificate to order.
CertKnown ==
    \A w \in Worker :
        job[w].at \in Ordering \/ (w # Loop /\ job[w].at = "lock") => job[w].cert \in Cert

\* Whoever orders holds the mutex.
Mutex == \A w \in Worker : job[w].at \in Ordering \cup {"pass"} => mu = w

\* How far saveIssued has come.
SavedSoFar ==
    \A w \in Worker :
        /\ job[w].at \in {"key", "meta"} => chain[job[w].cert] = job[w].made
        /\ job[w].at = "meta" => key[job[w].cert] = job[w].made

IInv == TypeOK /\ CertKnown /\ Mutex /\ SavedSoFar /\ IssuedPairMatches

----------------------------------------------------------------------------

\* A worker at rest has a well-formed job.
LEMMA RestingType == ASSUME NEW cfg \in Config PROVE Resting(cfg) \in Job
BY DEF Resting, Job, Phase, Ordering

\* A worker given a well-formed job, with a certificate if it needs one.
LEMMA JobSet ==
    ASSUME TypeOK, CertKnown, NEW w \in Worker, NEW v \in Job,
           job' = [job EXCEPT ![w] = v],
           v.at \in Ordering \/ (w # Loop /\ v.at = "lock") => v.cert \in Cert
    PROVE  job' \in [Worker -> Job] /\ CertKnown'
BY DEF TypeOK, CertKnown

\* A step of an order keeps the state well formed.
LEMMA OrderType ==
    ASSUME TypeOK, CertKnown, NEW w \in Worker, Order(w)
    PROVE  TypeOK' /\ CertKnown'
<1> USE AcmeAssumption
<1>j. job[w] \in Job /\ job \in [Worker -> Job]
  BY DEF TypeOK
<1>g. ASSUME NEW phase \in Phase, Go(w, phase), job[w].at \in Ordering
      PROVE  job' \in [Worker -> Job] /\ CertKnown'
  BY <1>j, <1>g DEF Go, Job, CertKnown, TypeOK
<1>f. ASSUME NEW fault, Fail(fault)
      PROVE  fails' \in 0..MaxFails
  BY <1>f DEF Fail, TypeOK
<1>1. CASE Attempt(w)
  <2>1. job[w].cert \in Cert /\ job[w].at \in Ordering
    BY <1>1 DEF Attempt, At, CertKnown, Ordering
  <2>2. job' \in [Worker -> Job] /\ CertKnown'
    BY <1>1, <1>j, <2>1 DEF Attempt, Go, Job, CertKnown, Phase, Ordering
  <2>3. fails' \in 0..MaxFails
    BY <1>1, <1>f DEF Attempt, TypeOK
  <2>4. QED
    BY <1>1, <2>1, <2>2, <2>3 DEF Attempt, TypeOK, disk, posts, plane
<1>2. ASSUME NEW a \in Authz, GetAuthorization(w, a)
      PROVE  TypeOK' /\ CertKnown'
  <2>1. job[w].cert \in Cert /\ job[w].at \in Ordering
    BY <1>2 DEF GetAuthorization, At, CertKnown, Ordering
  <2>2. Challenge(w, a) \in Cert \X Authz
    BY <2>1 DEF Challenge
  <2>3. job' \in [Worker -> Job] /\ CertKnown'
    BY <1>2, <1>j, <2>1, <2>2 DEF GetAuthorization, Job, CertKnown
  <2>4. tokens' \subseteq Http \X Authz
    BY <1>2 DEF GetAuthorization, Challenge, TypeOK
  <2>5. QED
    BY <1>2, <2>3, <2>4 DEF GetAuthorization, TypeOK, disk, plane, bounds
<1>3. CASE NoAuthorization(w)
  <2>1. job[w].cert \in Cert /\ job[w].at \in Ordering
    BY <1>3 DEF NoAuthorization, At, CertKnown, Ordering
  <2>2. job' \in [Worker -> Job] /\ CertKnown'
    BY <1>3, <1>j, <2>1 DEF NoAuthorization, Job, CertKnown, Phase, Ordering
  <2>3. QED
    BY <1>3, <1>f, <2>2 DEF NoAuthorization, TypeOK, disk, posts, plane
<1>4. CASE NoResponse(w)
  <2>1. job[w].at \in Ordering /\ "failed" \in Phase
    BY <1>4 DEF NoResponse, At, Ordering, Phase
  <2>2. job' \in [Worker -> Job] /\ CertKnown'
    BY <1>4, <1>g, <2>1 DEF NoResponse
  <2>3. QED
    BY <1>4, <1>f, <2>2 DEF NoResponse, TypeOK, disk, posts, plane
<1>5. CASE Authorized(w)
  <2>1. job[w].cert \in Cert /\ job[w].at \in Ordering
    BY <1>5 DEF Authorized, At, CertKnown, Ordering
  <2>2. job' \in [Worker -> Job] /\ CertKnown'
    BY <1>5, <1>j, <2>1 DEF Authorized, Job, CertKnown, Phase, Ordering
  <2>3. QED
    BY <1>5, <2>2 DEF Authorized, TypeOK, disk, posts, plane, bounds
<1>6. ASSUME NEW t \in Cert \X Authz, Present(w, t)
      PROVE  TypeOK' /\ CertKnown'
  <2>1. job[w].cert \in Cert /\ job[w].at \in Ordering
    BY <1>6 DEF Present, At, CertKnown, Ordering
  <2>2. job' \in [Worker -> Job] /\ CertKnown'
    BY <1>6, <1>j, <2>1 DEF Present, Go, Job, CertKnown, Phase, Ordering
  <2>3. txt' \subseteq Cert \X Authz /\ fails' \in 0..MaxFails
    BY <1>6, <1>f DEF Present, TypeOK
  <2>4. QED
    BY <1>6, <2>2, <2>3 DEF Present, TypeOK, disk, plane
<1>7. CASE Validate(w)
  <2>1. job[w].at \in Ordering /\ "failed" \in Phase /\ "finalize" \in Phase
    BY <1>7 DEF Validate, At, Ordering, Phase
  <2>2. job' \in [Worker -> Job] /\ CertKnown'
    BY <1>7, <1>g, <2>1 DEF Validate
  <2>3. QED
    BY <1>7, <1>f, <2>2 DEF Validate, TypeOK, disk, posts, plane
<1>8. CASE CreateOrderCert(w)
  <2>1. job[w].cert \in Cert /\ job[w].at \in Ordering /\ serial \in Nat
    BY <1>8 DEF CreateOrderCert, At, CertKnown, Ordering, TypeOK
  <2>2. job' \in [Worker -> Job] /\ CertKnown'
    BY <1>8, <1>j, <2>1 DEF CreateOrderCert, Go, Job, CertKnown, Phase, Ordering
  <2>3. serial' \in Nat /\ fails' \in 0..MaxFails
    BY <1>8, <1>f, <2>1 DEF CreateOrderCert, TypeOK
  <2>4. QED
    BY <1>8, <2>2, <2>3 DEF CreateOrderCert, TypeOK, disk, posts, plane
<1>9. CASE SaveChain(w) \/ SaveKey(w) \/ SaveMeta(w)
  <2>1. job[w].cert \in Cert /\ job[w].at \in Ordering /\ job[w].made \in Nat
    BY <1>9, <1>j DEF SaveChain, SaveKey, SaveMeta, At, CertKnown, Ordering, Job
  <2>2. "key" \in Phase /\ "meta" \in Phase /\ "issued" \in Phase
    BY DEF Phase, Ordering
  <2>3. job' \in [Worker -> Job] /\ CertKnown'
    BY <1>9, <1>g, <2>1, <2>2 DEF SaveChain, SaveKey, SaveMeta
  <2>4. job[w].conf[job[w].cert].domains \in Domains
    BY <1>j, <2>1 DEF Job, Config
  <2>5. [domains |-> job[w].conf[job[w].cert].domains, serial |-> job[w].made,
         due |-> FALSE] \in Meta
    BY <2>1, <2>4 DEF Meta
  <2>6. /\ chain' \in [Cert -> Nat \cup {None}] /\ key' \in [Cert -> Nat \cup {None}]
        /\ meta' \in [Cert -> Meta \cup {None}]
    BY <1>9, <2>1, <2>5 DEF SaveChain, SaveKey, SaveMeta, TypeOK
  <2>7. QED
    BY <1>9, <2>3, <2>6 DEF SaveChain, SaveKey, SaveMeta, TypeOK, posts, plane, bounds
<1>10. CASE SaveFails(w)
  <2>1. job[w].at \in Ordering /\ "failed" \in Phase
    BY <1>10 DEF SaveFails, Ordering, Phase
  <2>2. job' \in [Worker -> Job] /\ CertKnown'
    BY <1>10, <1>g, <2>1 DEF SaveFails
  <2>3. QED
    BY <1>10, <1>f, <2>2 DEF SaveFails, TypeOK, disk, posts, plane
<1>11. CASE Settle(w)
  <2>1. job' \in [Worker -> Job] /\ CertKnown'
    BY <1>11, <1>j DEF Settle, Job, CertKnown, Phase, Ordering
  <2>2. txt' \subseteq Cert \X Authz /\ tokens' \subseteq Http \X Authz
        /\ fails' \in 0..MaxFails
    BY <1>11, <1>f DEF Settle, TypeOK
  <2>3. QED
    BY <1>11, <2>1, <2>2 DEF Settle, TypeOK, disk, plane
<1>12. CASE EndPass(w)
  <2>1. Resting(conf) \in Job /\ Resting(conf).at = "idle"
    BY RestingType DEF TypeOK, Resting
  <2>2. job' \in [Worker -> Job] /\ CertKnown'
    BY <1>12, <2>1, JobSet DEF EndPass, Ordering
  <2>3. live' \in [Cert -> Nat \cup {None}]
    BY <1>12 DEF EndPass, Reloaded, TypeOK
  <2>4. QED
    BY <1>12, <2>2, <2>3 DEF EndPass, TypeOK, disk, posts, bounds
<1>13. QED
  BY <1>1, <1>2, <1>3, <1>4, <1>5, <1>6, <1>7, <1>8, <1>9, <1>10, <1>11, <1>12 DEF Order

\* Nothing is issued at the start.
LEMMA InitInv == Init => IInv
<1> SUFFICES ASSUME Init PROVE IInv
  OBVIOUS
<1> USE AcmeAssumption
<1>1. conf \in Config
  BY DEF Init, Config
<1>2. job \in [Worker -> Job] /\ \A w \in Worker : job[w].at = "idle"
  BY <1>1, RestingType DEF Init, Resting
<1>3. TypeOK
  <2>1. /\ chain \in [Cert -> Nat \cup {None}] /\ key \in [Cert -> Nat \cup {None}]
        /\ meta \in [Cert -> Meta \cup {None}] /\ live \in [Cert -> Nat \cup {None}]
    BY DEF Init
  <2>2. edits \in 0..MaxEdits /\ fails \in 0..MaxFails /\ serial \in Nat
    BY DEF Init
  <2>3. QED
    BY <1>1, <1>2, <2>1, <2>2 DEF Init, TypeOK
<1>4. QED
  BY <1>2, <1>3 DEF Init, IInv, CertKnown, Mutex, SavedSoFar, IssuedPairMatches, Whole, Ordering

\* Every step keeps the state well formed.
LEMMA NextType ==
    ASSUME TypeOK, CertKnown, [Next]_vars
    PROVE  TypeOK' /\ CertKnown'
<1> USE AcmeAssumption
<1>l. Loop \in Worker /\ Req \subseteq Worker
  BY DEF Worker
<1>r. Resting(conf) \in Job /\ job \in [Worker -> Job]
  BY RestingType DEF TypeOK
<1>e. ASSUME NEW op, Edit(op)
      PROVE  edits' \in 0..MaxEdits
  BY <1>e DEF Edit, TypeOK
<1>f. ASSUME NEW fault, Fail(fault)
      PROVE  fails' \in 0..MaxFails
  BY <1>f DEF Fail, TypeOK
<1>1. ASSUME NEW c \in Cert, NEW s \in [domains : Domains, disabled : BOOLEAN],
             ChangeCert(c, s)
      PROVE  TypeOK' /\ CertKnown'
  <2>1. conf' \in Config
    BY <1>1 DEF ChangeCert, Config, TypeOK
  <2>2. QED
    BY <1>1, <1>e, <2>1 DEF ChangeCert, TypeOK, CertKnown, disk, posts
<1>2. ASSUME NEW c \in Cert, Ages(c)
      PROVE  TypeOK' /\ CertKnown'
  <2>1. meta[c] \in Meta
    BY <1>2 DEF Ages, TypeOK
  <2>2. meta' \in [Cert -> Meta \cup {None}]
    BY <1>2, <2>1 DEF Ages, Meta, TypeOK
  <2>3. QED
    BY <1>2, <1>e, <2>2 DEF Ages, TypeOK, CertKnown, posts, plane
<1>3. ASSUME NEW c \in Cert, CooldownElapses(c)
      PROVE  TypeOK' /\ CertKnown'
  BY <1>3 DEF CooldownElapses, TypeOK, CertKnown, disk, posts, plane, bounds
<1>4. ASSUME NEW t \in Cert \X Authz, KeyAuthExpired(t)
      PROVE  TypeOK' /\ CertKnown'
  BY <1>4 DEF KeyAuthExpired, TypeOK, CertKnown, disk, plane, bounds
<1>5. ASSUME NEW r \in Req, NEW c \in Cert, RenewNow(r, c)
      PROVE  TypeOK' /\ CertKnown'
  <2> DEFINE v == [Resting(conf) EXCEPT !.at = "lock", !.cert = c]
  <2>1. v \in Job /\ v.cert \in Cert
    BY <1>r DEF Job, Phase, Resting
  <2>2. job' \in [Worker -> Job] /\ CertKnown'
    BY <1>5, <1>l, <2>1, JobSet DEF RenewNow
  <2>3. QED
    BY <1>5, <1>e, <2>2 DEF RenewNow, TypeOK, disk, posts, plane
<1>6. CASE Tick
  <2> DEFINE v == [Resting(conf) EXCEPT !.at = "lock", !.todo = Enabled(conf)]
  <2>1. v \in Job /\ v.at = "lock"
    BY <1>r DEF Job, Phase, Resting, Enabled
  <2>2. job' \in [Worker -> Job] /\ CertKnown'
    BY <1>6, <1>l, <2>1, JobSet DEF Tick, Ordering
  <2>3. QED
    BY <1>6, <2>2 DEF Tick, TypeOK, disk, posts, plane, bounds
<1>7. CASE EnsureAll
  <2>1. job' \in [Worker -> Job] /\ CertKnown'
    BY <1>7, <1>l, <1>r DEF EnsureAll, Job, CertKnown, Phase, Ordering
  <2>2. QED
    BY <1>7, <1>l, <2>1 DEF EnsureAll, TypeOK, disk, posts, plane, bounds
<1>8. ASSUME NEW c \in Cert, EnsureNext(c)
      PROVE  TypeOK' /\ CertKnown'
  <2> DEFINE next == IF NeedsRenewal(c, job[Loop].conf) THEN "start" ELSE "pass"
             v == [job[Loop] EXCEPT !.todo = @ \ {c}, !.cert = c, !.at = next]
  <2>1. next \in Phase
    BY DEF Phase, Ordering
  <2> HIDE DEF next
  <2>2. v \in Job /\ v.cert \in Cert
    BY <1>l, <1>r, <2>1 DEF Job
  <2>3. job' = [job EXCEPT ![Loop] = v]
    BY <1>8 DEF EnsureNext, next
  <2>4. job' \in [Worker -> Job] /\ CertKnown'
    BY <1>l, <2>2, <2>3, JobSet
  <2>5. QED
    BY <1>8, <2>4 DEF EnsureNext, TypeOK, disk, posts, plane, bounds
<1>9. ASSUME NEW r \in Req, TryLock(r)
      PROVE  TypeOK' /\ CertKnown'
  <2>1. job[r].cert \in Cert
    BY <1>9, <1>l DEF TryLock, At, CertKnown
  <2>2. ASSUME job' = [job EXCEPT ![r].at = "start"]
        PROVE  job' \in [Worker -> Job] /\ CertKnown'
    BY <2>1, <2>2, <1>l, <1>r DEF Job, CertKnown, Phase, Ordering
  <2>3. ASSUME job' = [job EXCEPT ![r] = Resting(conf)]
        PROVE  job' \in [Worker -> Job] /\ CertKnown'
    <3>1. Resting(conf).at = "idle"
      BY DEF Resting
    <3>2. QED
      BY <2>3, <3>1, <1>l, <1>r, JobSet DEF Ordering
  <2>4. job' \in [Worker -> Job] /\ CertKnown'
    BY <1>9, <2>2, <2>3 DEF TryLock
  <2>5. QED
    BY <1>9, <1>l, <2>4 DEF TryLock, TypeOK, disk, posts, plane, bounds
<1>10. CASE ApiReload
  <2>1. live' \in [Cert -> Nat \cup {None}]
    BY <1>10 DEF ApiReload, Reloaded, TypeOK
  <2>2. QED
    BY <1>10, <2>1 DEF ApiReload, TypeOK, CertKnown, disk, posts, bounds
<1>11. CASE Crash
  <2>1. job' \in [Worker -> Job] /\ CertKnown'
    BY <1>11, <1>r DEF Crash, CertKnown, Resting, Ordering
  <2>2. QED
    BY <1>11, <1>f, <2>1 DEF Crash, TypeOK, disk
<1>12. CASE Restart
  <2>1. live' \in [Cert -> Nat \cup {None}]
    BY <1>12 DEF Restart, Reloaded, TypeOK
  <2>2. QED
    BY <1>12, <2>1 DEF Restart, TypeOK, CertKnown, disk, posts, bounds
<1>13. CASE UNCHANGED vars
  BY <1>13 DEF vars, TypeOK, CertKnown, disk, posts, plane, bounds
<1>14. QED
  BY <1>1, <1>2, <1>3, <1>4, <1>5, <1>6, <1>7, <1>8, <1>9, <1>10, <1>11, <1>12, <1>13,
     <1>l, OrderType DEF Next, LoopStep, ReqStep

\* Every state of the manager is well formed, and only http-01 responses are
\* ever put where the data plane serves them.
THEOREM TypeCorrect == Spec => []TypeOK
<1>1. Init => TypeOK /\ CertKnown
  BY InitInv DEF IInv
<1>2. TypeOK /\ CertKnown /\ [Next]_vars => (TypeOK /\ CertKnown)'
  BY NextType
<1>3. QED
  BY <1>1, <1>2, PTL DEF Spec

----------------------------------------------------------------------------
(* The files of a certificate.                                             *)

\* A step that writes no certificate's metadata for another order,
SameIssue ==
    \A c \in Cert :
        \/ meta'[c] = meta[c]
        \/ meta[c] # None /\ meta'[c] # None /\ meta'[c].serial = meta[c].serial

\* and one that starts or ends no saving.
SameSaving ==
    \A v \in Worker :
        \/ job'[v] = job[v]
        \/ job[v].at \notin {"key", "meta"} /\ job'[v].at \notin {"key", "meta"}

\* Such a step keeps the files together.
LEMMA Calm ==
    ASSUME IInv, UNCHANGED <<chain, key>>, SameIssue, SameSaving
    PROVE  SavedSoFar' /\ IssuedPairMatches'
<1>1. SavedSoFar'
  BY DEF IInv, SavedSoFar, SameSaving
<1>2. \A c \in Cert : Saving(c)' <=> Saving(c)
  BY DEF Saving, SameSaving
<1>3. IssuedPairMatches'
  BY <1>2 DEF IInv, IssuedPairMatches, Whole, SameIssue
<1>4. QED
  BY <1>1, <1>3

\* Only the holder of the mutex is inside an order.
LEMMA OrderMutex ==
    ASSUME TypeOK, Mutex, NEW w \in Worker, Order(w)
    PROVE  Mutex'
<1>j. /\ job \in [Worker -> Job] /\ mu = w
      /\ \A v \in Worker : v # w => job[v].at \notin Ordering \cup {"pass"}
  BY DEF TypeOK, Mutex, Order, Attempt, GetAuthorization, NoAuthorization, NoResponse,
         Authorized, Present, Validate, CreateOrderCert, SaveChain, SaveKey, SaveMeta,
         SaveFails, Settle, EndPass, At, Ordering
<1>1. \A v \in Worker : v # w => job'[v] = job[v]
  BY <1>j DEF Order, Attempt, GetAuthorization, NoAuthorization, NoResponse,
         Authorized, Present, Validate, CreateOrderCert, SaveChain, SaveKey, SaveMeta,
         SaveFails, Settle, EndPass, Go
<1>2. mu' = w \/ job'[w].at = "idle"
  <2>1. CASE EndPass(w)
    BY <1>j, <2>1 DEF EndPass, Resting
  <2>2. CASE ~EndPass(w)
    BY <1>j, <2>2 DEF Order, Attempt, GetAuthorization, NoAuthorization, NoResponse,
         Authorized, Present, Validate, CreateOrderCert, SaveChain, SaveKey, SaveMeta,
         SaveFails, Settle
  <2>3. QED
    BY <2>1, <2>2
<1>3. QED
  BY <1>j, <1>1, <1>2 DEF Mutex, Ordering

\* A step of an order keeps the files together.
LEMMA OrderFiles ==
    ASSUME IInv, NEW w \in Worker, Order(w), "write" \notin Faults
    PROVE  SavedSoFar' /\ IssuedPairMatches'
<1>j. /\ job \in [Worker -> Job] /\ mu = w
      /\ \A v \in Worker : v # w => job[v].at \notin Ordering \cup {"pass"}
  BY DEF IInv, TypeOK, Mutex, Order, Attempt, GetAuthorization, NoAuthorization, NoResponse,
         Authorized, Present, Validate, CreateOrderCert, SaveChain, SaveKey, SaveMeta,
         SaveFails, Settle, EndPass, At, Ordering
<1>o. \A v \in Worker : v # w => job'[v] = job[v] /\ job[v].at \notin {"key", "meta"}
  BY <1>j DEF Order, Attempt, GetAuthorization, NoAuthorization, NoResponse,
         Authorized, Present, Validate, CreateOrderCert, SaveChain, SaveKey, SaveMeta,
         SaveFails, Settle, EndPass, Go, Ordering
<1>c. job[w].at \in Ordering => job[w].cert \in Cert /\ job[w].made \in Nat
  BY <1>j DEF IInv, CertKnown, Job
<1>t. chain \in [Cert -> Nat \cup {None}] /\ key \in [Cert -> Nat \cup {None}]
      /\ meta \in [Cert -> Meta \cup {None}]
  BY DEF IInv, TypeOK
<1>1. CASE SaveChain(w)
  <2>1. job[w].cert \in Cert /\ job'[w] = [job[w] EXCEPT !.at = "key"]
    BY <1>1, <1>j, <1>c DEF SaveChain, At, Go, Ordering, Job
  <2>2. job'[w].at = "key" /\ job'[w].cert = job[w].cert /\ job'[w].made = job[w].made
    BY <2>1, <1>j DEF Job
  <2>3. SavedSoFar'
    BY <1>1, <1>o, <1>t, <2>1, <2>2 DEF SaveChain, SavedSoFar
  <2>4. \A c \in Cert : ~Saving(c)
    BY <1>1, <1>o DEF Saving, SaveChain, At
  <2>5. Saving(job[w].cert)'
    BY <2>2 DEF Saving
  <2>6. IssuedPairMatches'
    BY <1>1, <1>t, <2>1, <2>4, <2>5 DEF SaveChain, IInv, IssuedPairMatches, Whole
  <2>7. QED
    BY <2>3, <2>6
<1>2. CASE SaveKey(w)
  <2>1. job[w].cert \in Cert /\ job'[w] = [job[w] EXCEPT !.at = "meta"]
    BY <1>2, <1>j, <1>c DEF SaveKey, At, Go, Ordering, Job
  <2>2. job'[w].at = "meta" /\ job'[w].cert = job[w].cert /\ job'[w].made = job[w].made
    BY <2>1, <1>j DEF Job
  <2>3. SavedSoFar'
    <3>1. chain[job[w].cert] = job[w].made
      BY <1>2 DEF SaveKey, At, IInv, SavedSoFar
    <3>2. chain'[job[w].cert] = job[w].made /\ key'[job[w].cert] = job[w].made
      BY <1>2, <1>t, <2>1, <3>1 DEF SaveKey
    <3>3. QED
      BY <1>o, <2>2, <3>2 DEF SavedSoFar
  <2>4. \A c \in Cert : c # job[w].cert => ~Saving(c)
    BY <1>o DEF Saving
  <2>5. Saving(job[w].cert)'
    BY <2>2 DEF Saving
  <2>6. IssuedPairMatches'
    BY <1>2, <1>t, <2>1, <2>4, <2>5 DEF SaveKey, IInv, IssuedPairMatches, Whole
  <2>7. QED
    BY <2>3, <2>6
<1>3. CASE SaveMeta(w)
  <2>1. job[w].cert \in Cert /\ job[w].made \in Nat
        /\ job'[w] = [job[w] EXCEPT !.at = "issued"]
    BY <1>3, <1>j, <1>c DEF SaveMeta, At, Go, Ordering, Job
  <2>2. job'[w].at = "issued"
    BY <2>1, <1>j DEF Job
  <2>3. SavedSoFar'
    BY <1>3, <1>o, <2>2 DEF SaveMeta, SavedSoFar
  <2>4. chain[job[w].cert] = job[w].made /\ key[job[w].cert] = job[w].made
    BY <1>3 DEF SaveMeta, At, IInv, SavedSoFar
  <2>5. \A c \in Cert : c # job[w].cert => ~Saving(c)
    BY <1>o DEF Saving
  <2>6. ASSUME NEW c \in Cert
        PROVE  /\ chain'[c] = key'[c]
               /\ IF meta'[c] = None THEN chain'[c] = None ELSE meta'[c].serial = chain'[c]
    <3>1. CASE c = job[w].cert
      <4>1. meta'[c] = [domains |-> job[w].conf[job[w].cert].domains,
                        serial |-> job[w].made, due |-> FALSE]
        BY <1>3, <1>t, <3>1 DEF SaveMeta
      <4>2. meta'[c] # None
        <5>1. None \notin Meta
          BY AcmeAssumption
        <5>2. job[w].conf[job[w].cert].domains \in Domains
          BY <1>j, <2>1 DEF Job, Config
        <5>3. [domains |-> job[w].conf[job[w].cert].domains, serial |-> job[w].made,
               due |-> FALSE] \in Meta
          BY <2>1, <5>2 DEF Meta
        <5>4. QED
          BY <4>1, <5>1, <5>3
      <4>3. QED
        BY <1>3, <2>4, <3>1, <4>1, <4>2 DEF SaveMeta
    <3>2. CASE c # job[w].cert
      BY <1>3, <1>t, <2>5, <3>2 DEF SaveMeta, IInv, IssuedPairMatches, Whole
    <3>3. QED
      BY <3>1, <3>2
  <2>7. QED
    BY <2>3, <2>6 DEF IssuedPairMatches, Whole
<1>4. CASE ~SaveChain(w) /\ ~SaveKey(w) /\ ~SaveMeta(w)
  <2>1. ~SaveFails(w)
    BY DEF SaveFails, Fail
  <2>2. UNCHANGED <<chain, key, meta>>
    BY <1>4, <2>1 DEF Order, Attempt, GetAuthorization, NoAuthorization, NoResponse,
         Authorized, Present, Validate, CreateOrderCert, Settle, EndPass, disk
  <2>3. job[w].at \notin {"key", "meta"}
    BY <1>4, <2>1 DEF Order, Attempt, GetAuthorization, NoAuthorization, NoResponse,
         Authorized, Present, Validate, CreateOrderCert, Settle, EndPass, At
  <2>4. job'[w].at \notin {"key", "meta"}
    <3>1. CASE EndPass(w)
      BY <3>1, <1>j DEF EndPass, Resting
    <3>2. CASE Attempt(w) \/ NoResponse(w) \/ Validate(w) \/ NoAuthorization(w)
      BY <3>2, <1>j DEF Attempt, NoResponse, Validate, NoAuthorization, Go, Job
    <3>3. ASSUME NEW a \in Authz, GetAuthorization(w, a)
          PROVE  job'[w].at \notin {"key", "meta"}
      BY <3>3, <1>j DEF GetAuthorization, At, Job
    <3>4. ASSUME NEW t \in Cert \X Authz, Present(w, t)
          PROVE  job'[w].at \notin {"key", "meta"}
      BY <3>4, <1>j DEF Present, Go, At, Job
    <3>5. CASE Authorized(w) \/ CreateOrderCert(w)
      BY <3>5, <1>j DEF Authorized, CreateOrderCert, Go, Job
    <3>6. CASE Settle(w)
      BY <3>6, <1>j DEF Settle, Job
    <3>7. QED
      BY <1>4, <2>1, <3>1, <3>2, <3>3, <3>4, <3>5, <3>6 DEF Order
  <2>5. SameSaving
    BY <1>o, <2>3, <2>4 DEF SameSaving
  <2>6. SameIssue
    BY <2>2 DEF SameIssue
  <2>7. QED
    BY <2>2, <2>5, <2>6, Calm
<1>5. QED
  BY <1>1, <1>2, <1>3, <1>4

\* Every step keeps the inductive invariant while writes succeed and the process
\* lives.
LEMMA NextInv ==
    ASSUME IInv, [Next]_vars, Faults \cap {"write", "crash"} = {}
    PROVE  IInv'
<1> USE AcmeAssumption
<1>l. Loop \in Worker /\ Req \subseteq Worker
  BY DEF Worker
<1>j. job \in [Worker -> Job]
  BY DEF IInv, TypeOK
<1>t. TypeOK' /\ CertKnown'
  BY NextType DEF IInv
<1>c. ~Crash /\ "write" \notin Faults
  BY DEF Crash, Fail
<1>1. ASSUME NEW w \in Worker, Order(w)
      PROVE  IInv'
  BY <1>1, <1>t, <1>c, OrderMutex, OrderFiles DEF IInv
<1>2. ASSUME UNCHANGED <<chain, key, meta, mu, job>>
      PROVE  IInv'
  BY <1>2, <1>t DEF IInv, Mutex, SavedSoFar, IssuedPairMatches, Whole, Saving
<1>3. ASSUME NEW c \in Cert, Ages(c)
      PROVE  IInv'
  <2>1. meta \in [Cert -> Meta \cup {None}] /\ meta[c] \in Meta
    BY <1>3 DEF IInv, TypeOK, Ages
  <2>2. [meta[c] EXCEPT !.due = TRUE] \in Meta
        /\ [meta[c] EXCEPT !.due = TRUE].serial = meta[c].serial
    BY <2>1 DEF Meta
  <2>3. meta'[c] = [meta[c] EXCEPT !.due = TRUE] /\ \A d \in Cert : d # c => meta'[d] = meta[d]
    BY <1>3, <2>1 DEF Ages
  <2>4. meta[c] # None /\ meta'[c] # None /\ meta'[c].serial = meta[c].serial
    BY <2>1, <2>2, <2>3
  <2>5. SameIssue
    BY <2>3, <2>4, Zenon DEF SameIssue
  <2>6. UNCHANGED <<chain, key, job, mu>> /\ SameSaving
    BY <1>3 DEF Ages, SameSaving
  <2>7. SavedSoFar' /\ IssuedPairMatches'
    BY <2>5, <2>6, Calm
  <2>8. QED
    BY <1>t, <2>6, <2>7 DEF IInv, Mutex
<1>4. ASSUME NEW w \in Worker, UNCHANGED <<chain, key, meta>>,
             \A v \in Worker : v # w => job'[v] = job[v],
             job[w].at \in {"idle", "lock", "pass"},
             job'[w].at \in {"idle", "lock", "pass", "start"}
      PROVE  SavedSoFar' /\ IssuedPairMatches'
  <2>1. SameSaving
    BY <1>4 DEF SameSaving
  <2>2. SameIssue
    BY <1>4 DEF SameIssue
  <2>3. QED
    BY <1>4, <2>1, <2>2, Calm
<1>5. ASSUME NEW r \in Req, NEW c \in Cert, RenewNow(r, c)
      PROVE  IInv'
  <2>1. /\ job[r].at = "idle" /\ job'[r].at = "lock" /\ mu' = mu
        /\ \A v \in Worker : v # r => job'[v] = job[v]
        /\ UNCHANGED <<chain, key, meta>>
    BY <1>5, <1>l, <1>j DEF RenewNow, At, Resting, disk
  <2>2. QED
    BY <1>t, <1>4, <1>l, <2>1 DEF IInv, Mutex, Ordering
<1>6. CASE Tick
  <2>1. /\ job[Loop].at = "idle" /\ job'[Loop].at = "lock" /\ mu' = mu
        /\ \A v \in Worker : v # Loop => job'[v] = job[v]
        /\ UNCHANGED <<chain, key, meta>>
    BY <1>6, <1>l, <1>j DEF Tick, At, Resting, disk
  <2>2. QED
    BY <1>t, <1>4, <1>l, <2>1 DEF IInv, Mutex, Ordering
<1>n. mu = None => \A v \in Worker : job[v].at \notin Ordering \cup {"pass"}
  BY DEF IInv, Mutex
<1>7. CASE EnsureAll
  <2>1. /\ job[Loop].at = "lock" /\ job'[Loop].at = "pass" /\ mu = None /\ mu' = Loop
        /\ \A v \in Worker : v # Loop => job'[v] = job[v]
        /\ UNCHANGED <<chain, key, meta>>
    BY <1>7, <1>l, <1>j DEF EnsureAll, At, disk, Job
  <2>2. QED
    BY <1>t, <1>4, <1>l, <1>n, <2>1 DEF IInv, Mutex
<1>8. ASSUME NEW c \in Cert, EnsureNext(c)
      PROVE  IInv'
  <2>1. /\ job[Loop].at = "pass" /\ job'[Loop].at \in {"pass", "start"} /\ mu' = mu
        /\ \A v \in Worker : v # Loop => job'[v] = job[v]
        /\ UNCHANGED <<chain, key, meta>>
    BY <1>8, <1>l, <1>j DEF EnsureNext, At, disk, Job
  <2>2. mu = Loop
    BY <1>l, <2>1 DEF IInv, Mutex
  <2>3. QED
    BY <1>t, <1>4, <1>l, <2>1, <2>2 DEF IInv, Mutex
<1>9. ASSUME NEW r \in Req, TryLock(r)
      PROVE  IInv'
  <2>1. /\ job[r].at = "lock" /\ UNCHANGED <<chain, key, meta>>
        /\ \A v \in Worker : v # r => job'[v] = job[v]
    BY <1>9, <1>l, <1>j DEF TryLock, At, disk
  <2>2. \/ job'[r].at = "start" /\ mu = None /\ mu' = r
        \/ job'[r].at = "idle" /\ mu' = mu
    BY <1>9, <1>l, <1>j DEF TryLock, Resting, Job
  <2>3. SavedSoFar' /\ IssuedPairMatches'
    BY <1>4, <1>l, <2>1, <2>2
  <2>4. Mutex'
    BY <1>l, <1>n, <2>1, <2>2 DEF IInv, Mutex, Ordering
  <2>5. QED
    BY <1>t, <2>3, <2>4 DEF IInv
<1>10. ASSUME NEW c \in Cert, NEW s, ChangeCert(c, s) \/ CooldownElapses(c)
       PROVE  UNCHANGED <<chain, key, meta, mu, job>>
  BY <1>10 DEF ChangeCert, CooldownElapses, disk
<1>11. ApiReload \/ Restart \/ UNCHANGED vars => UNCHANGED <<chain, key, meta, mu, job>>
  BY DEF ApiReload, Restart, vars, disk
<1>12. ASSUME NEW t, KeyAuthExpired(t)
       PROVE  UNCHANGED <<chain, key, meta, mu, job>>
  BY <1>12 DEF KeyAuthExpired, disk
<1>13. QED
  BY <1>1, <1>2, <1>3, <1>5, <1>6, <1>7, <1>8, <1>9, <1>10, <1>11, <1>12, <1>c, <1>l
  DEF Next, LoopStep, ReqStep

\* As long as every file write succeeds and the process is not killed, the chain,
\* key and metadata of a certificate are of one order whenever saveIssued is not
\* at work on it, however many requests and passes contend for the mutex.
THEOREM PairsMatch ==
    ASSUME Faults \cap {"write", "crash"} = {}
    PROVE  Spec => []IssuedPairMatches
<1>1. Init => IInv
  BY InitInv
<1>2. IInv /\ [Next]_vars => IInv'
  BY NextInv
<1>3. IInv => IssuedPairMatches
  BY DEF IInv
<1>4. QED
  BY <1>1, <1>2, <1>3, PTL DEF Spec

----------------------------------------------------------------------------
(* What holds whatever fails, crashes and writes included.                 *)

\* What worker w may rely on: the files saveIssued has written are those of
\* the newest order, a worker outside an order has put up no challenge, and
\* what an order put up so far can be answered.
Relies(w) ==
    /\ job[w].at \in {"key", "meta"} => chain[job[w].cert] = job[w].made
    /\ job[w].at = "meta" => key[job[w].cert] = job[w].made
    /\ job[w].at \in {"chain", "key", "meta"} => job[w].made = serial
    /\ job[w].at \in {"idle", "lock", "pass", "start"} => job[w].posted = {}
    /\ job[w].at \in {"authz", "present"} /\ job[w].cert \in Http => job[w].posted \subseteq tokens
    /\ job[w].at = "present" => job[w].left \subseteq job[w].posted
    /\ job[w].at = "present" /\ job[w].cert \notin Http =>
           job[w].posted \ job[w].left \subseteq txt

\* No metadata is of an order to come.
MetaIssued == \A c \in Cert : meta[c] # None => meta[c].serial <= serial

Sound ==
    TypeOK /\ CertKnown /\ Mutex /\ MetaIssued /\ MetaNeverAhead /\ \A w \in Worker : Relies(w)

\* Who takes a step of an order holds the mutex and everybody else is outside.
LEMMA OrderHolder ==
    ASSUME TypeOK, CertKnown, Mutex, NEW w \in Worker, Order(w)
    PROVE  /\ job \in [Worker -> Job] /\ job[w] \in Job /\ mu = w
           /\ \A v \in Worker : v # w => job'[v] = job[v] /\ job[v].at \in {"idle", "lock"}
           /\ job[w].at \in Ordering => job[w].cert \in Cert
<1>1. job \in [Worker -> Job] /\ job[w] \in Job /\ (job[w].at \in Ordering => job[w].cert \in Cert)
  BY DEF TypeOK, CertKnown
<1>2. job[w].at \in Ordering \cup {"pass"}
  BY DEF Order, Attempt, GetAuthorization, NoAuthorization, NoResponse,
         Authorized, Present, Validate, CreateOrderCert, SaveChain, SaveKey, SaveMeta,
         SaveFails, Settle, EndPass, At, Ordering
<1>3. \A v \in Worker : v # w => job'[v] = job[v]
  BY <1>1 DEF Order, Attempt, GetAuthorization, NoAuthorization, NoResponse,
         Authorized, Present, Validate, CreateOrderCert, SaveChain, SaveKey, SaveMeta,
         SaveFails, Settle, EndPass, Go
<1>4. \A v \in Worker : v # w => job[v].at \in {"idle", "lock"}
  BY <1>1, <1>2 DEF Mutex, Job, Phase
<1>5. QED
  BY <1>1, <1>2, <1>3, <1>4 DEF Mutex

\* A worker outside any order relies on nothing but having put up nothing.
LEMMA Outside ==
    ASSUME NEW v \in Worker, Relies(v), job'[v] = job[v], job[v].at \in {"idle", "lock"}
    PROVE  Relies(v)'
BY DEF Relies

\* A step of an order that leaves disk and counter alone.
LEMMA OrderRelies ==
    ASSUME Sound, NEW w \in Worker, Order(w)
    PROVE  Relies(w)'
<1> USE AcmeAssumption
<1>s. TypeOK /\ CertKnown /\ Mutex /\ Relies(w)
  BY DEF Sound
<1>j. /\ job \in [Worker -> Job] /\ job[w] \in Job
      /\ job[w].at \in Ordering => job[w].cert \in Cert
  BY <1>s, OrderHolder
<1>t. /\ chain \in [Cert -> Nat \cup {None}] /\ key \in [Cert -> Nat \cup {None}]
      /\ serial \in Nat
  BY <1>s DEF TypeOK
<1>f. ASSUME Go(w, "failed") PROVE Relies(w)'
  BY <1>f, <1>j DEF Go, Relies, Job
<1>1. CASE Attempt(w)
  <2>1. CASE job' = [job EXCEPT ![w].at = "authz", ![w].left = Authz]
    BY <1>1, <2>1, <1>s, <1>j DEF Attempt, At, Relies, Job
  <2>2. QED
    BY <1>1, <1>f, <2>1 DEF Attempt
<1>2. ASSUME NEW a \in Authz, GetAuthorization(w, a) PROVE Relies(w)'
  <2>1. job[w].at = "authz" /\ UNCHANGED <<chain, key, serial, txt>>
    BY <1>2 DEF GetAuthorization, At, disk
  <2>2. job'[w].at = "authz" /\ job'[w].cert = job[w].cert
    BY <1>2, <1>j, <2>1 DEF GetAuthorization, Job
  <2>3. \/ job'[w].posted = job[w].posted /\ tokens' = tokens
        \/ /\ job'[w].posted = job[w].posted \cup {Challenge(w, a)}
           /\ job[w].cert \in Http => tokens' = tokens \cup {Challenge(w, a)}
    BY <1>2, <1>j DEF GetAuthorization, Job
  <2>4. QED
    BY <1>s, <2>1, <2>2, <2>3 DEF Relies
<1>3. CASE NoAuthorization(w)
  BY <1>3, <1>j DEF NoAuthorization, Relies, Job
<1>4. CASE NoResponse(w) \/ SaveFails(w)
  BY <1>4, <1>f DEF NoResponse, SaveFails
<1>5. CASE Authorized(w)
  <2>1. job[w].at = "authz" /\ UNCHANGED <<chain, key, serial, txt, tokens>>
    BY <1>5 DEF Authorized, At, disk, posts
  <2>2. /\ job'[w].at = "present" /\ job'[w].cert = job[w].cert
        /\ job'[w].posted = job[w].posted
        /\ job'[w].left = IF job[w].cert \in Http THEN {} ELSE job[w].posted
    BY <1>5, <1>j DEF Authorized, Job
  <2>3. QED
    BY <1>s, <2>1, <2>2 DEF Relies
<1>6. ASSUME NEW t \in Cert \X Authz, Present(w, t) PROVE Relies(w)'
  <2>1. CASE txt' = txt \cup {t} /\ job' = [job EXCEPT ![w].left = @ \ {t}]
    <3>1. job[w].at = "present" /\ UNCHANGED <<chain, key, serial, tokens>>
      BY <1>6 DEF Present, At, disk
    <3>2. /\ job'[w].at = "present" /\ job'[w].cert = job[w].cert
          /\ job'[w].posted = job[w].posted /\ job'[w].left = job[w].left \ {t}
      BY <2>1, <1>j, <3>1 DEF Job
    <3>3. QED
      BY <1>s, <2>1, <3>1, <3>2 DEF Relies
  <2>2. QED
    BY <1>6, <1>f, <2>1 DEF Present
<1>7. CASE Validate(w)
  <2>1. CASE Go(w, "finalize")
    BY <2>1, <1>j DEF Go, Relies, Job
  <2>2. QED
    BY <1>7, <1>f, <2>1 DEF Validate
<1>8. CASE CreateOrderCert(w)
  <2>1. CASE /\ serial' = serial + 1
             /\ job' = [job EXCEPT ![w].at = "chain", ![w].made = serial + 1]
    BY <2>1, <1>j DEF Relies, Job
  <2>2. QED
    BY <1>8, <1>f, <2>1 DEF CreateOrderCert
<1>9. CASE SaveChain(w)
  <2>1. /\ job[w].at = "chain" /\ serial' = serial /\ job[w].cert \in Cert
        /\ chain' = [chain EXCEPT ![job[w].cert] = job[w].made]
    BY <1>9, <1>j DEF SaveChain, At, Ordering
  <2>2. /\ job'[w].at = "key" /\ job'[w].cert = job[w].cert /\ job'[w].made = job[w].made
    BY <1>9, <1>j DEF SaveChain, Go, Job
  <2>3. QED
    BY <1>s, <1>t, <2>1, <2>2 DEF Relies
<1>10. CASE SaveKey(w)
  <2>1. /\ job[w].at = "key" /\ serial' = serial /\ job[w].cert \in Cert
        /\ key' = [key EXCEPT ![job[w].cert] = job[w].made] /\ chain' = chain
    BY <1>10, <1>j DEF SaveKey, At, Ordering
  <2>2. /\ job'[w].at = "meta" /\ job'[w].cert = job[w].cert /\ job'[w].made = job[w].made
    BY <1>10, <1>j DEF SaveKey, Go, Job
  <2>3. QED
    BY <1>s, <1>t, <2>1, <2>2 DEF Relies
<1>11. CASE SaveMeta(w)
  BY <1>11, <1>j DEF SaveMeta, Go, Relies, Job
<1>12. CASE Settle(w)
  BY <1>12, <1>j DEF Settle, Relies, Job
<1>13. CASE EndPass(w)
  BY <1>13, <1>j DEF EndPass, Relies, Resting
<1>14. QED
  BY <1>1, <1>2, <1>3, <1>4, <1>5, <1>6, <1>7, <1>8, <1>9, <1>10, <1>11, <1>12, <1>13
  DEF Order

\* The files of an order are written in the order chain, key, metadata, and an
\* order is newer than whatever is on disk.
LEMMA OrderAhead ==
    ASSUME Sound, NEW w \in Worker, Order(w)
    PROVE  MetaIssued' /\ MetaNeverAhead'
<1> USE AcmeAssumption
<1>s. TypeOK /\ CertKnown /\ Mutex /\ Relies(w) /\ MetaIssued /\ MetaNeverAhead
  BY DEF Sound
<1>j. /\ job \in [Worker -> Job] /\ job[w] \in Job
      /\ job[w].at \in Ordering => job[w].cert \in Cert
  BY <1>s, OrderHolder
<1>t. /\ chain \in [Cert -> Nat \cup {None}] /\ key \in [Cert -> Nat \cup {None}]
      /\ meta \in [Cert -> Meta \cup {None}] /\ serial \in Nat
      /\ \A c \in Cert : meta[c] # None => meta[c].serial \in Nat
  BY <1>s DEF TypeOK, Meta
<1>1. CASE SaveChain(w)
  <2>1. /\ job[w].cert \in Cert /\ job[w].made = serial /\ UNCHANGED <<key, meta, serial>>
        /\ chain' = [chain EXCEPT ![job[w].cert] = job[w].made]
    BY <1>1, <1>j, <1>s DEF SaveChain, At, Ordering, Relies
  <2>2. MetaIssued'
    BY <1>s, <2>1 DEF MetaIssued
  <2>3. MetaNeverAhead'
    BY <1>s, <1>t, <2>1 DEF MetaIssued, MetaNeverAhead
  <2>4. QED
    BY <2>2, <2>3
<1>2. CASE SaveKey(w)
  <2>1. /\ job[w].cert \in Cert /\ job[w].made = serial /\ UNCHANGED <<chain, meta, serial>>
        /\ key' = [key EXCEPT ![job[w].cert] = job[w].made]
    BY <1>2, <1>j, <1>s DEF SaveKey, At, Ordering, Relies
  <2>2. MetaIssued'
    BY <1>s, <2>1 DEF MetaIssued
  <2>3. MetaNeverAhead'
    BY <1>s, <1>t, <2>1 DEF MetaIssued, MetaNeverAhead
  <2>4. QED
    BY <2>2, <2>3
<1>3. CASE SaveMeta(w)
  <2>1. /\ job[w].cert \in Cert /\ job[w].made = serial /\ UNCHANGED <<chain, key, serial>>
        /\ chain[job[w].cert] = job[w].made /\ key[job[w].cert] = job[w].made
    BY <1>3, <1>j, <1>s DEF SaveMeta, At, Ordering, Relies
  <2>2. /\ meta'[job[w].cert].serial = job[w].made
        /\ \A c \in Cert : c # job[w].cert => meta'[c] = meta[c]
    BY <1>3, <1>t, <2>1 DEF SaveMeta
  <2>3. MetaIssued'
    BY <1>s, <1>t, <2>1, <2>2 DEF MetaIssued
  <2>4. MetaNeverAhead'
    BY <1>s, <1>t, <2>1, <2>2 DEF MetaNeverAhead
  <2>5. QED
    BY <2>3, <2>4
<1>4. CASE ~SaveChain(w) /\ ~SaveKey(w) /\ ~SaveMeta(w)
  <2>1. UNCHANGED <<chain, key, meta>>
    BY <1>4 DEF Order, Attempt, GetAuthorization, NoAuthorization, NoResponse,
         Authorized, Present, Validate, CreateOrderCert, SaveFails, Settle, EndPass, disk
  <2>2. serial' \in {serial, serial + 1}
    BY <1>4 DEF Order, Attempt, GetAuthorization, NoAuthorization, NoResponse,
         Authorized, Present, Validate, CreateOrderCert, SaveFails, Settle, EndPass
  <2>3. QED
    BY <1>s, <1>t, <2>1, <2>2 DEF MetaIssued, MetaNeverAhead
<1>5. QED
  BY <1>1, <1>2, <1>3, <1>4

\* A worker outside an order takes up or lays down its work.
LEMMA Around ==
    ASSUME Sound, NEW w \in Worker, job[w].at \in {"idle", "lock", "pass"},
           job'[w].at \in {"idle", "lock", "pass", "start"}, job'[w].posted = {},
           \A v \in Worker : v # w => job'[v] = job[v],
           UNCHANGED <<disk, posts, serial>>
    PROVE  MetaIssued' /\ MetaNeverAhead' /\ \A v \in Worker : Relies(v)'
<1>1. MetaIssued' /\ MetaNeverAhead'
  BY DEF Sound, MetaIssued, MetaNeverAhead, disk
<1>2. Relies(w)'
  BY DEF Relies
<1>3. \A v \in Worker : v # w => Relies(v)'
  BY DEF Sound, Relies, disk, posts
<1>4. QED
  BY <1>1, <1>2, <1>3

\* Every step keeps what no failure breaks.
LEMMA NextSound ==
    ASSUME Sound, [Next]_vars
    PROVE  Sound'
<1> USE AcmeAssumption
<1>l. Loop \in Worker /\ Req \subseteq Worker
  BY DEF Worker
<1>s. /\ TypeOK /\ CertKnown /\ Mutex /\ MetaIssued /\ MetaNeverAhead
      /\ \A v \in Worker : Relies(v)
  BY DEF Sound
<1>j. job \in [Worker -> Job]
  BY <1>s DEF TypeOK
<1>t. TypeOK' /\ CertKnown'
  BY <1>s, NextType
<1>n. mu = None => \A v \in Worker : job[v].at \notin Ordering \cup {"pass"}
  BY <1>s DEF Mutex
<1>1. ASSUME NEW w \in Worker, Order(w) PROVE Sound'
  <2>1. \A v \in Worker : v # w => Relies(v)'
    BY <1>1, <1>s, OrderHolder, Outside
  <2>2. Relies(w)' /\ Mutex' /\ MetaIssued' /\ MetaNeverAhead'
    BY <1>1, <1>s, OrderRelies, OrderAhead, OrderMutex
  <2>3. QED
    BY <1>t, <2>1, <2>2 DEF Sound
<1>2. ASSUME UNCHANGED <<chain, key, meta, mu, job, txt, tokens, serial>> PROVE Sound'
  BY <1>2, <1>s, <1>t DEF Sound, Mutex, MetaIssued, MetaNeverAhead, Relies
<1>3. ASSUME NEW c \in Cert, Ages(c) PROVE Sound'
  <2>1. meta \in [Cert -> Meta \cup {None}] /\ meta[c] \in Meta
    BY <1>3, <1>s DEF TypeOK, Ages
  <2>2. [meta[c] EXCEPT !.due = TRUE].serial = meta[c].serial
    BY <2>1 DEF Meta
  <2>3. meta'[c] = [meta[c] EXCEPT !.due = TRUE] /\ \A d \in Cert : d # c => meta'[d] = meta[d]
    BY <1>3, <2>1 DEF Ages
  <2>4. meta[c] # None /\ meta'[c].serial = meta[c].serial
    BY <1>3, <2>2, <2>3 DEF Ages
  <2>5. UNCHANGED <<chain, key, job, mu, txt, tokens, serial>>
    BY <1>3 DEF Ages, posts
  <2>6. MetaIssued' /\ MetaNeverAhead'
    BY <1>s, <2>3, <2>4, <2>5 DEF MetaIssued, MetaNeverAhead
  <2>7. Mutex' /\ \A v \in Worker : Relies(v)'
    BY <1>s, <2>5 DEF Mutex, Relies
  <2>8. QED
    BY <1>t, <2>6, <2>7 DEF Sound
<1>4. ASSUME NEW t \in Cert \X Authz, KeyAuthExpired(t) PROVE Sound'
  <2>1. /\ UNCHANGED <<chain, key, meta, job, mu, txt, serial>> /\ tokens' = tokens \ {t}
        /\ \A v \in Worker : t \notin job[v].posted
    BY <1>4 DEF KeyAuthExpired, disk
  <2>2. MetaIssued' /\ MetaNeverAhead' /\ Mutex'
    BY <1>s, <2>1 DEF MetaIssued, MetaNeverAhead, Mutex
  <2>3. \A v \in Worker : Relies(v)'
    BY <1>s, <2>1 DEF Relies
  <2>4. QED
    BY <1>t, <2>2, <2>3 DEF Sound
<1>5. ASSUME NEW r \in Req, NEW c \in Cert, RenewNow(r, c) PROVE Sound'
  <2>1. /\ job[r].at = "idle" /\ job'[r].at = "lock" /\ job'[r].posted = {} /\ mu' = mu
        /\ \A v \in Worker : v # r => job'[v] = job[v]
        /\ UNCHANGED <<disk, posts, serial>>
    BY <1>5, <1>l, <1>j DEF RenewNow, At, Resting
  <2>2. Mutex'
    BY <1>s, <1>l, <2>1 DEF Mutex, Ordering
  <2>3. QED
    BY <1>t, <1>l, <2>1, <2>2, Around DEF Sound
<1>6. CASE Tick
  <2>1. /\ job[Loop].at = "idle" /\ job'[Loop].at = "lock" /\ job'[Loop].posted = {}
        /\ mu' = mu /\ \A v \in Worker : v # Loop => job'[v] = job[v]
        /\ UNCHANGED <<disk, posts, serial>>
    BY <1>6, <1>l, <1>j DEF Tick, At, Resting
  <2>2. Mutex'
    BY <1>s, <1>l, <2>1 DEF Mutex, Ordering
  <2>3. QED
    BY <1>t, <1>l, <2>1, <2>2, Around DEF Sound
<1>7. CASE EnsureAll
  <2>1. /\ job[Loop].at = "lock" /\ job'[Loop].at = "pass"
        /\ job'[Loop].posted = job[Loop].posted /\ mu = None /\ mu' = Loop
        /\ \A v \in Worker : v # Loop => job'[v] = job[v]
        /\ UNCHANGED <<disk, posts, serial>>
    BY <1>7, <1>l, <1>j DEF EnsureAll, At, Job
  <2>2. job'[Loop].posted = {}
    BY <1>s, <1>l, <2>1 DEF Relies
  <2>3. Mutex'
    BY <1>n, <1>l, <2>1 DEF Mutex
  <2>4. QED
    BY <1>t, <1>l, <2>1, <2>2, <2>3, Around DEF Sound
<1>8. ASSUME NEW c \in Cert, EnsureNext(c) PROVE Sound'
  <2>1. /\ job[Loop].at = "pass" /\ job'[Loop].at \in {"pass", "start"} /\ mu' = mu
        /\ job'[Loop].posted = job[Loop].posted
        /\ \A v \in Worker : v # Loop => job'[v] = job[v]
        /\ UNCHANGED <<disk, posts, serial>>
    BY <1>8, <1>l, <1>j DEF EnsureNext, At, Job
  <2>2. job'[Loop].posted = {}
    BY <1>s, <1>l, <2>1 DEF Relies
  <2>3. Mutex'
    BY <1>s, <1>l, <2>1 DEF Mutex
  <2>4. QED
    BY <1>t, <1>l, <2>1, <2>2, <2>3, Around DEF Sound
<1>9. ASSUME NEW r \in Req, TryLock(r) PROVE Sound'
  <2>1. /\ job[r].at = "lock" /\ UNCHANGED <<disk, posts, serial>>
        /\ \A v \in Worker : v # r => job'[v] = job[v]
    BY <1>9, <1>l, <1>j DEF TryLock, At
  <2>2. \/ job'[r].at = "start" /\ job'[r].posted = job[r].posted /\ mu = None /\ mu' = r
        \/ job'[r].at = "idle" /\ job'[r].posted = {} /\ mu' = mu
    BY <1>9, <1>l, <1>j DEF TryLock, Resting, Job
  <2>3. job'[r].posted = {}
    BY <1>s, <1>l, <2>1, <2>2 DEF Relies
  <2>4. Mutex'
    BY <1>s, <1>l, <1>n, <2>1, <2>2 DEF Mutex, Ordering
  <2>5. QED
    BY <1>t, <1>l, <2>1, <2>2, <2>3, <2>4, Around DEF Sound
<1>10. CASE Crash
  <2>1. \A v \in Worker : job'[v].at = "idle" /\ job'[v].posted = {}
    BY <1>10 DEF Crash, Resting
  <2>2. UNCHANGED <<chain, key, meta, serial>>
    BY <1>10 DEF Crash, disk
  <2>3. Mutex' /\ \A v \in Worker : Relies(v)'
    BY <2>1 DEF Mutex, Relies, Ordering
  <2>4. MetaIssued' /\ MetaNeverAhead'
    BY <1>s, <2>2 DEF MetaIssued, MetaNeverAhead
  <2>5. QED
    BY <1>t, <2>3, <2>4 DEF Sound
<1>11. ASSUME NEW c \in Cert, NEW s, ChangeCert(c, s) \/ CooldownElapses(c)
       PROVE  UNCHANGED <<chain, key, meta, mu, job, txt, tokens, serial>>
  BY <1>11 DEF ChangeCert, CooldownElapses, disk, posts
<1>12. ApiReload \/ Restart \/ UNCHANGED vars
       => UNCHANGED <<chain, key, meta, mu, job, txt, tokens, serial>>
  BY DEF ApiReload, Restart, vars, disk, posts
<1>13. QED
  BY <1>1, <1>2, <1>3, <1>4, <1>5, <1>6, <1>7, <1>8, <1>9, <1>10, <1>11, <1>12, <1>l
  DEF Next, LoopStep, ReqStep

\* At the start nothing is issued and nothing put up.
LEMMA InitSound == Init => Sound
<1> SUFFICES ASSUME Init PROVE Sound
  OBVIOUS
<1>1. TypeOK /\ CertKnown /\ Mutex
  BY InitInv DEF IInv
<1>2. \A w \in Worker : job[w].at = "idle" /\ job[w].posted = {}
  BY DEF Init, Resting
<1>3. \A w \in Worker : Relies(w)
  BY <1>2 DEF Relies
<1>4. MetaIssued /\ MetaNeverAhead
  BY DEF Init, MetaIssued, MetaNeverAhead
<1>5. QED
  BY <1>1, <1>3, <1>4 DEF Sound

\* What no failure breaks holds in every reachable state.
LEMMA SoundThroughout == Spec => []Sound
<1>1. Sound /\ [Next]_vars => Sound'
  BY NextSound
<1>2. QED
  BY <1>1, InitSound, PTL DEF Spec

\* Wherever the process is killed and whichever write fails, the metadata on
\* disk never tells of an order whose chain and key did not both reach it.
THEOREM MetadataNeverAhead == Spec => []MetaNeverAhead
<1>1. Sound => MetaNeverAhead
  BY DEF Sound
<1>2. QED
  BY <1>1, SoundThroughout, PTL

\* Whatever the CA validates can be answered: neither the cleanup of another
\* order, nor an expiry, nor a failure takes away a token or a record in use.
THEOREM ChallengesStand == Spec => []ChallengesAnswerable
<1>1. Sound => ChallengesAnswerable
  BY DEF Sound, Relies, ChallengesAnswerable
<1>2. QED
  BY <1>1, SoundThroughout, PTL

----------------------------------------------------------------------------
(* The records at the DNS provider, while cleanups succeed and the process *)
(* lives.                                                                  *)

\* The phases in which an order answers for its records.
Standing == {"present", "finalize", "chain", "key", "meta", "issued", "failed"}

Withdrawing ==
    \A t \in txt : \E w \in Worker : t \in job[w].posted /\ job[w].at \in Standing

\* The records that stand while w orders are its own.
LEMMA OwnRecords ==
    ASSUME Sound, Withdrawing, NEW w \in Worker, Order(w)
    PROVE  /\ txt \subseteq job[w].posted
           /\ job[w].at \notin Standing => txt = {}
<1>1. \A v \in Worker : v # w => job[v].posted = {}
  BY OrderHolder DEF Sound, Relies
<1>2. QED
  BY <1>1 DEF Withdrawing

\* A step of an order keeps its records in its own hands until they are gone.
LEMMA OrderWithdraws ==
    ASSUME Sound, Withdrawing, NEW w \in Worker, Order(w), "cleanup" \notin Faults
    PROVE  Withdrawing'
<1>o. txt \subseteq job[w].posted /\ (job[w].at \notin Standing => txt = {})
  BY OwnRecords
<1>j. job \in [Worker -> Job] /\ job[w] \in Job /\ Relies(w)
  BY OrderHolder DEF Sound
<1>q. ASSUME txt' = {} PROVE Withdrawing'
  BY <1>q DEF Withdrawing
<1>h. ASSUME txt' \subseteq job'[w].posted, job'[w].at \in Standing PROVE Withdrawing'
  BY <1>h DEF Withdrawing
<1>1. CASE Attempt(w)
  BY <1>1, <1>o, <1>q DEF Attempt, At, Standing, posts
<1>2. ASSUME NEW a \in Authz, GetAuthorization(w, a) PROVE Withdrawing'
  BY <1>2, <1>o, <1>q DEF GetAuthorization, At, Standing
<1>3. CASE NoAuthorization(w) \/ NoResponse(w) \/ Authorized(w)
  BY <1>3, <1>o, <1>q DEF NoAuthorization, NoResponse, Authorized, At, Standing, posts
<1>4. ASSUME NEW t \in Cert \X Authz, Present(w, t) PROVE Withdrawing'
  <2>1. job[w].at = "present" /\ t \in job[w].posted
    BY <1>4, <1>j DEF Present, At, Relies
  <2>2. job'[w].at \in Standing /\ job'[w].posted = job[w].posted
    BY <1>4, <1>j, <2>1 DEF Present, Go, Standing, Job
  <2>3. txt' \subseteq txt \cup {t}
    BY <1>4 DEF Present
  <2>4. QED
    BY <1>o, <1>h, <2>1, <2>2, <2>3
<1>5. CASE Validate(w) \/ CreateOrderCert(w)
  <2>1. job'[w].at \in Standing /\ job'[w].posted = job[w].posted /\ txt' = txt
    BY <1>5, <1>j DEF Validate, CreateOrderCert, Go, Standing, Job, posts
  <2>2. QED
    BY <1>o, <1>h, <2>1
<1>6. CASE SaveChain(w) \/ SaveKey(w) \/ SaveMeta(w) \/ SaveFails(w)
  <2>1. job'[w].at \in Standing /\ job'[w].posted = job[w].posted /\ txt' = txt
    BY <1>6, <1>j DEF SaveChain, SaveKey, SaveMeta, SaveFails, Go, Standing, Job, posts
  <2>2. QED
    BY <1>o, <1>h, <2>1
<1>7. CASE Settle(w)
  BY <1>7, <1>o, <1>q DEF Settle, Fail
<1>8. CASE EndPass(w)
  BY <1>8, <1>o, <1>q DEF EndPass, At, Standing, posts
<1>9. QED
  BY <1>1, <1>2, <1>3, <1>4, <1>5, <1>6, <1>7, <1>8 DEF Order

\* The steps around orders leave records and orders alone.
LEMMA NextWithdraws ==
    ASSUME Sound, Withdrawing, [Next]_vars, Faults \cap {"cleanup", "crash"} = {}
    PROVE  Withdrawing'
<1>l. Loop \in Worker /\ Req \subseteq Worker
  BY DEF Worker
<1>j. job \in [Worker -> Job]
  BY DEF Sound, TypeOK
<1>1. ASSUME NEW w \in Worker, Order(w) PROVE Withdrawing'
  BY <1>1, OrderWithdraws
<1>2. ASSUME UNCHANGED txt, NEW w \in Worker, job[w].at \notin Standing,
             \A v \in Worker : v # w => job'[v] = job[v]
      PROVE  Withdrawing'
  BY <1>2 DEF Withdrawing
<1>3. ASSUME NEW r \in Req, NEW c \in Cert, RenewNow(r, c) PROVE Withdrawing'
  <2>1. /\ UNCHANGED txt /\ job[r].at \notin Standing
        /\ \A v \in Worker : v # r => job'[v] = job[v]
    BY <1>3, <1>j DEF RenewNow, At, Standing, posts
  <2>2. QED
    BY <1>2, <1>l, <2>1
<1>4. ASSUME NEW r \in Req, TryLock(r) PROVE Withdrawing'
  <2>1. /\ UNCHANGED txt /\ job[r].at \notin Standing
        /\ \A v \in Worker : v # r => job'[v] = job[v]
    BY <1>4, <1>j DEF TryLock, At, Standing, posts
  <2>2. QED
    BY <1>2, <1>l, <2>1
<1>5. ASSUME Tick \/ EnsureAll \/ \E c \in Cert : EnsureNext(c) PROVE Withdrawing'
  <2>1. /\ UNCHANGED txt /\ job[Loop].at \notin Standing
        /\ \A v \in Worker : v # Loop => job'[v] = job[v]
    BY <1>5, <1>j DEF Tick, EnsureAll, EnsureNext, At, Standing, posts
  <2>2. QED
    BY <1>2, <1>l, <2>1
<1>6. ASSUME UNCHANGED <<txt, job>> PROVE Withdrawing'
  BY <1>6 DEF Withdrawing
<1>7. ASSUME NEW c \in Cert, NEW s, ChangeCert(c, s) \/ Ages(c) \/ CooldownElapses(c)
      PROVE  UNCHANGED <<txt, job>>
  BY <1>7 DEF ChangeCert, Ages, CooldownElapses, posts
<1>8. ASSUME NEW t, KeyAuthExpired(t) PROVE UNCHANGED <<txt, job>>
  BY <1>8 DEF KeyAuthExpired
<1>9. ApiReload \/ Restart \/ UNCHANGED vars => UNCHANGED <<txt, job>>
  BY DEF ApiReload, Restart, vars, posts
<1>10. ~Crash
  BY DEF Crash, Fail
<1>11. QED
  BY <1>1, <1>3, <1>4, <1>5, <1>6, <1>7, <1>8, <1>9, <1>10, <1>l DEF Next, LoopStep, ReqStep

\* As long as the provider's deletes succeed and the process is not killed, no
\* order leaves a TXT record behind, however it fails.
THEOREM RecordsAreWithdrawn ==
    ASSUME Faults \cap {"cleanup", "crash"} = {}
    PROVE  Spec => []RecordsWithdrawn
<1>1. Init => Sound /\ Withdrawing
  BY InitSound DEF Init, Withdrawing
<1>2. Sound /\ Withdrawing /\ [Next]_vars => (Sound /\ Withdrawing)'
  BY NextSound, NextWithdraws
<1>3. Withdrawing => RecordsWithdrawn
  BY DEF Withdrawing, RecordsWithdrawn
<1>4. QED
  BY <1>1, <1>2, <1>3, PTL DEF Spec

----------------------------------------------------------------------------
(* What the data plane serves, whatever fails, crashes and writes included.*)

\* An order being saved is newer than what the metadata tells of.
Fresh ==
    \A w \in Worker : job[w].at \in {"chain", "key", "meta"} =>
        meta[job[w].cert] = None \/ meta[job[w].cert].serial < job[w].made

\* Worker w has issued what it has not reloaded for yet.
Unserved(w) ==
    \/ job[w].at = "issued"
    \/ job[w].at \in Ordering \cup {"pass"} /\ job[w].changed

Stale == owed \/ \E w \in Worker : Unserved(w)

\* No enabled certificate has files of two orders.
Untorn == \A c \in Enabled(conf) : Whole(c)

Serves == \A c \in Enabled(conf) : live[c] = chain[c]

\* Whatever is not served is torn, or owed a reload by someone.
Serving == up /\ ~Stale /\ Untorn => Serves

\* A reload that meets no torn certificate installs every pair.
LEMMA ReloadServes ==
    ASSUME Untorn
    PROVE  \A c \in Enabled(conf) : Reloaded[c] = chain[c]
<1>1. \A c \in Cert : Loads(c)
  BY DEF Untorn, Whole, Loads, Enabled
<1>2. QED
  BY <1>1 DEF Reloaded, Enabled

\* An order is newer than the metadata from the moment it is finalised.
LEMMA OrderFresh ==
    ASSUME Sound, Fresh, NEW w \in Worker, Order(w)
    PROVE  Fresh'
<1> USE AcmeAssumption
<1>h. /\ job \in [Worker -> Job] /\ job[w] \in Job
      /\ \A v \in Worker : v # w => job'[v] = job[v] /\ job[v].at \in {"idle", "lock"}
  BY OrderHolder DEF Sound
<1>v. \A v \in Worker : v # w => job'[v].at \notin {"chain", "key", "meta"}
  BY <1>h
<1>o. ASSUME job'[w].at \notin {"chain", "key", "meta"} PROVE Fresh'
  BY <1>o, <1>v DEF Fresh
<1>k. ASSUME job[w].at \in {"chain", "key", "meta"}, job'[w].cert = job[w].cert,
             job'[w].made = job[w].made, meta' = meta
      PROVE  Fresh'
  BY <1>k, <1>v DEF Fresh
<1>1. CASE CreateOrderCert(w)
  <2>1. CASE Go(w, "failed")
    BY <2>1, <1>h, <1>o DEF Go, Job
  <2>2. CASE /\ serial' = serial + 1
             /\ job' = [job EXCEPT ![w].at = "chain", ![w].made = serial + 1]
    <3>1. job'[w].made = serial + 1 /\ job'[w].cert = job[w].cert /\ meta' = meta
      BY <1>1, <2>2, <1>h DEF Job, CreateOrderCert, disk
    <3>2. job[w].cert \in Cert /\ serial \in Nat
          /\ (meta[job[w].cert] # None => meta[job[w].cert].serial \in Nat)
      BY <1>1, OrderHolder DEF CreateOrderCert, At, Ordering, Sound, TypeOK, Meta
    <3>3. meta[job[w].cert] = None \/ meta[job[w].cert].serial < serial + 1
      BY <3>2 DEF Sound, MetaIssued
    <3>4. QED
      BY <1>v, <3>1, <3>3 DEF Fresh
  <2>3. QED
    BY <1>1, <2>1, <2>2 DEF CreateOrderCert
<1>2. CASE SaveChain(w) \/ SaveKey(w)
  <2>1. /\ job[w].at \in {"chain", "key", "meta"} /\ meta' = meta
        /\ job'[w].cert = job[w].cert /\ job'[w].made = job[w].made
    BY <1>2, <1>h DEF SaveChain, SaveKey, Go, At, Job
  <2>2. QED
    BY <1>k, <2>1
<1>3. CASE SaveMeta(w) \/ SaveFails(w) \/ Settle(w) \/ EndPass(w)
  <2>1. job'[w].at \in {"issued", "failed", "pass", "idle"}
    BY <1>3, <1>h DEF SaveMeta, SaveFails, Settle, EndPass, Go, Job, Resting
  <2>2. QED
    BY <1>o, <2>1
<1>4. CASE Attempt(w) \/ NoAuthorization(w) \/ NoResponse(w) \/ Authorized(w) \/ Validate(w)
  <2>1. job'[w].at \in {"authz", "failed", "present", "finalize"}
    BY <1>4, <1>h DEF Attempt, NoAuthorization, NoResponse, Authorized, Validate, Go, Job
  <2>2. QED
    BY <1>o, <2>1
<1>5. ASSUME NEW a \in Authz, GetAuthorization(w, a) PROVE Fresh'
  <2>1. job'[w].at = "authz"
    BY <1>5, <1>h DEF GetAuthorization, At, Job
  <2>2. QED
    BY <1>o, <2>1
<1>6. ASSUME NEW t \in Cert \X Authz, Present(w, t) PROVE Fresh'
  <2>1. job'[w].at \in {"present", "failed"}
    BY <1>6, <1>h DEF Present, Go, At, Job
  <2>2. QED
    BY <1>o, <2>1
<1>7. QED
  BY <1>1, <1>2, <1>3, <1>4, <1>5, <1>6 DEF Order

\* A certificate whose chain is newer than its metadata is torn.
LEMMA TornMeanwhile ==
    ASSUME Sound, Fresh, NEW w \in Worker, job[w].at \in {"chain", "key", "meta"}
    PROVE  /\ job[w].cert \in Cert /\ job[w].made \in Nat
           /\ meta[job[w].cert] # None => meta[job[w].cert].serial # job[w].made
<1>1. job[w] \in Job /\ job[w].cert \in Cert
  BY DEF Sound, TypeOK, CertKnown, Ordering
<1>2. job[w].made \in Nat /\ (meta[job[w].cert] # None => meta[job[w].cert].serial \in Nat)
  BY <1>1 DEF Sound, TypeOK, Job, Meta
<1>3. QED
  BY <1>1, <1>2 DEF Fresh

\* A step of an order tears an enabled certificate, or owes the reload for what
\* it completes.
LEMMA OrderServes ==
    ASSUME Sound, Fresh, Serving, NEW w \in Worker, Order(w)
    PROVE  Serving'
<1> USE AcmeAssumption
<1>h. /\ job \in [Worker -> Job] /\ job[w] \in Job
      /\ \A v \in Worker : v # w => job'[v] = job[v] /\ job[v].at \in {"idle", "lock"}
  BY OrderHolder DEF Sound
<1>t. /\ chain \in [Cert -> Nat \cup {None}] /\ key \in [Cert -> Nat \cup {None}]
      /\ meta \in [Cert -> Meta \cup {None}]
  BY DEF Sound, TypeOK
<1>u. up' = up /\ conf' = conf /\ owed' = owed /\ up
  BY DEF Order, Attempt, GetAuthorization, NoAuthorization, NoResponse,
         Authorized, Present, Validate, CreateOrderCert, SaveChain, SaveKey, SaveMeta,
         SaveFails, Settle, EndPass, plane, At
<1>e. Enabled(conf)' = Enabled(conf) /\ Enabled(conf) \subseteq Cert
  BY <1>u DEF Enabled
<1>k. ASSUME Unserved(w) => Unserved(w)', Untorn' => Untorn,
             Untorn' /\ Serves => Serves'
      PROVE  Serving'
  <2>1. Stale => Stale'
    BY <1>h, <1>u, <1>k DEF Stale, Unserved, Ordering
  <2>2. QED
    BY <1>u, <1>k, <2>1 DEF Serving
<1>d. ASSUME UNCHANGED <<live, chain, key, meta>>, Unserved(w) => Unserved(w)' PROVE Serving'
  <2>1. Untorn' => Untorn
    BY <1>d, <1>e DEF Untorn, Whole
  <2>2. Serves => Serves'
    BY <1>d, <1>e DEF Serves
  <2>3. QED
    BY <1>d, <1>k, <2>1, <2>2
<1>1. CASE SaveChain(w) \/ SaveKey(w)
  <2>1. /\ job[w].at \in {"chain", "key"} /\ job'[w].at \in {"key", "meta"}
        /\ job'[w].changed = job[w].changed /\ UNCHANGED <<live, meta>>
    BY <1>1, <1>h DEF SaveChain, SaveKey, Go, Job, At, plane
  <2>2. PICK c \in Cert, m \in Nat :
            /\ c = job[w].cert /\ m = job[w].made
            /\ meta[c] # None => meta[c].serial # m
    BY <2>1, TornMeanwhile
  <2>3. chain'[c] = m /\ \A d \in Cert : d # c => chain'[d] = chain[d] /\ key'[d] = key[d]
    <3>1. CASE SaveChain(w)
      <4>1. chain' = [chain EXCEPT ![c] = m] /\ key' = key
        BY <2>2, <3>1 DEF SaveChain
      <4>2. QED
        BY <1>t, <4>1
    <3>2. CASE SaveKey(w)
      <4>1. chain' = chain /\ key' = [key EXCEPT ![c] = m] /\ job[w].at = "key"
        BY <2>2, <3>2 DEF SaveKey, At
      <4>2. chain[c] = m
        BY <2>2, <4>1 DEF Sound, Relies
      <4>3. QED
        BY <1>t, <4>1, <4>2
    <3>3. QED
      BY <1>1, <3>1, <3>2
  <2>4. ~Whole(c)'
    <3>1. m # None
      BY <2>2
    <3>2. meta'[c] = meta[c]
      BY <2>1
    <3>3. QED
      BY <2>2, <2>3, <3>1, <3>2 DEF Whole
  <2>5. \A d \in Cert : d # c => chain'[d] = chain[d] /\ key'[d] = key[d]
    BY <2>3
  <2>6. ASSUME Untorn' PROVE Untorn /\ (Serves => Serves')
    <3>1. c \notin Enabled(conf)
      BY <1>e, <2>4, <2>6 DEF Untorn
    <3>2. \A d \in Enabled(conf) : d # c /\ d \in Cert /\ chain'[d] = chain[d] /\ key'[d] = key[d]
      BY <1>e, <2>5, <3>1
    <3>3. Untorn
      BY <1>e, <2>1, <2>6, <3>2 DEF Untorn, Whole
    <3>4. Serves => Serves'
      BY <1>e, <2>1, <3>2 DEF Serves
    <3>5. QED
      BY <3>3, <3>4
  <2>7. Unserved(w) => Unserved(w)'
    BY <2>1 DEF Unserved, Ordering
  <2>8. QED
    BY <1>k, <2>6, <2>7
<1>2. CASE SaveMeta(w)
  <2>1. Unserved(w)'
    BY <1>2, <1>h DEF SaveMeta, Go, Job, Unserved
  <2>2. QED
    BY <2>1 DEF Serving, Stale
<1>3. CASE Settle(w)
  <2>1. /\ job'[w].at = "pass" /\ job'[w].changed = (job[w].changed \/ job[w].at = "issued")
        /\ UNCHANGED <<live, chain, key, meta>> /\ job[w].at \in {"issued", "failed"}
    BY <1>3, <1>h DEF Settle, plane, disk, Job
  <2>2. Unserved(w) => Unserved(w)'
    BY <2>1 DEF Unserved
  <2>3. QED
    BY <1>d, <2>1, <2>2
<1>4. CASE EndPass(w)
  <2>1. job[w].at = "pass" /\ UNCHANGED <<chain, key, meta>>
    BY <1>4 DEF EndPass, At, disk
  <2>2. CASE job[w].changed
    <3>1. live' = Reloaded
      BY <1>4, <2>2 DEF EndPass
    <3>2. Untorn' => Untorn
      BY <1>e, <2>1 DEF Untorn, Whole
    <3>3. Untorn => Serves'
      BY <1>e, <2>1, <3>1, ReloadServes DEF Serves
    <3>4. QED
      BY <3>2, <3>3 DEF Serving
  <2>3. CASE ~job[w].changed
    <3>1. live' = live /\ ~Unserved(w)
      BY <1>4, <2>1, <2>3 DEF EndPass, Unserved
    <3>2. QED
      BY <1>d, <2>1, <3>1
  <2>4. QED
    BY <2>2, <2>3
<1>5. ASSUME UNCHANGED <<live, chain, key, meta>>, job[w].at # "issued",
             job'[w].at \in Ordering, job'[w].changed = job[w].changed
      PROVE  Serving'
  <2>1. Unserved(w) => Unserved(w)'
    BY <1>5 DEF Unserved
  <2>2. QED
    BY <1>d, <1>5, <2>1
<1>6. CASE Attempt(w) \/ NoResponse(w) \/ NoAuthorization(w)
  <2>1. /\ UNCHANGED <<live, chain, key, meta>> /\ job[w].at # "issued"
        /\ job'[w].at \in Ordering /\ job'[w].changed = job[w].changed
    BY <1>6, <1>h DEF Attempt, NoResponse, NoAuthorization, Go, At, Job, Ordering, plane, disk
  <2>2. QED
    BY <1>5, <2>1
<1>7. CASE Authorized(w) \/ Validate(w) \/ CreateOrderCert(w) \/ SaveFails(w)
  <2>1. /\ UNCHANGED <<live, chain, key, meta>> /\ job[w].at # "issued"
        /\ job'[w].at \in Ordering /\ job'[w].changed = job[w].changed
    BY <1>7, <1>h DEF Authorized, Validate, CreateOrderCert, SaveFails, Go, At, Job, Ordering,
                      plane, disk
  <2>2. QED
    BY <1>5, <2>1
<1>8. ASSUME NEW a \in Authz, GetAuthorization(w, a) PROVE Serving'
  <2>1. /\ UNCHANGED <<live, chain, key, meta>> /\ job[w].at # "issued"
        /\ job'[w].at \in Ordering /\ job'[w].changed = job[w].changed
    BY <1>8, <1>h DEF GetAuthorization, At, Job, Ordering, plane, disk
  <2>2. QED
    BY <1>5, <2>1
<1>9. ASSUME NEW t \in Cert \X Authz, Present(w, t) PROVE Serving'
  <2>1. /\ UNCHANGED <<live, chain, key, meta>> /\ job[w].at # "issued"
        /\ job'[w].at \in Ordering /\ job'[w].changed = job[w].changed
    BY <1>9, <1>h DEF Present, Go, At, Job, Ordering, plane, disk
  <2>2. QED
    BY <1>5, <2>1
<1>10. QED
  BY <1>1, <1>2, <1>3, <1>4, <1>6, <1>7, <1>8, <1>9 DEF Order

\* Every other step serves what it finds, or leaves the debt standing.
LEMMA NextServes ==
    ASSUME Sound, Fresh, Serving, [Next]_vars
    PROVE  Fresh' /\ Serving'
<1>l. Loop \in Worker /\ Req \subseteq Worker
  BY DEF Worker
<1>j. job \in [Worker -> Job]
  BY DEF Sound, TypeOK
<1> DEFINE Kept == UNCHANGED <<up, conf, live, chain, key, meta, owed>>
<1>1. ASSUME NEW w \in Worker, Order(w) PROVE Fresh' /\ Serving'
  BY <1>1, OrderFresh, OrderServes
<1>2. ASSUME Kept, NEW w \in Worker, Unserved(w) => Unserved(w)',
             job'[w].at \notin {"chain", "key", "meta"}, \A v \in Worker : v # w => job'[v] = job[v]
      PROVE  Fresh' /\ Serving'
  <2>1. Stale => Stale'
    BY <1>2 DEF Stale, Unserved
  <2>2. Serves => Serves'
    BY <1>2 DEF Serves, Enabled
  <2>3. Untorn' => Untorn
    BY <1>2 DEF Untorn, Whole, Enabled
  <2>4. Fresh'
    BY <1>2 DEF Fresh
  <2>5. QED
    BY <1>2, <2>1, <2>2, <2>3, <2>4 DEF Serving
<1>3. ASSUME NEW r \in Req, NEW c \in Cert, RenewNow(r, c) PROVE Fresh' /\ Serving'
  <2>1. /\ Kept /\ job[r].at = "idle" /\ job'[r].at = "lock"
        /\ \A v \in Worker : v # r => job'[v] = job[v]
    BY <1>3, <1>j, <1>l DEF RenewNow, At, plane, disk, Resting
  <2>2. ~Unserved(r)
    BY <2>1 DEF Unserved, Ordering
  <2>3. QED
    BY <1>2, <1>l, <2>1, <2>2
<1>4. ASSUME NEW r \in Req, TryLock(r) PROVE Fresh' /\ Serving'
  <2>1. /\ Kept /\ job[r].at = "lock" /\ job'[r].at \in {"start", "idle"}
        /\ \A v \in Worker : v # r => job'[v] = job[v]
    BY <1>4, <1>j, <1>l DEF TryLock, At, plane, disk, Resting, Job
  <2>2. ~Unserved(r)
    BY <2>1 DEF Unserved, Ordering
  <2>3. QED
    BY <1>2, <1>l, <2>1, <2>2
<1>5. ASSUME Tick \/ EnsureAll PROVE Fresh' /\ Serving'
  <2>1. /\ Kept /\ job[Loop].at \in {"idle", "lock"} /\ job'[Loop].at \in {"lock", "pass"}
        /\ \A v \in Worker : v # Loop => job'[v] = job[v]
    <3>1. CASE Tick
      BY <3>1, <1>j, <1>l DEF Tick, At, plane, disk, Resting
    <3>2. CASE EnsureAll
      BY <3>2, <1>j, <1>l DEF EnsureAll, At, plane, disk, Job
    <3>3. QED
      BY <1>5, <3>1, <3>2
  <2>2. ~Unserved(Loop)
    BY <2>1 DEF Unserved, Ordering
  <2>3. QED
    BY <1>2, <1>l, <2>1, <2>2
<1>6. ASSUME NEW c \in Cert, EnsureNext(c) PROVE Fresh' /\ Serving'
  <2>1. /\ Kept /\ job[Loop].at = "pass"
        /\ job'[Loop].at \in {"start", "pass"} /\ job'[Loop].changed = job[Loop].changed
        /\ \A v \in Worker : v # Loop => job'[v] = job[v]
    BY <1>6, <1>j, <1>l DEF EnsureNext, At, plane, disk, Job
  <2>2. Unserved(Loop) => Unserved(Loop)'
    BY <2>1 DEF Unserved, Ordering
  <2>3. QED
    BY <1>2, <1>l, <2>1, <2>2
<1>7. ASSUME UNCHANGED <<job, meta>> PROVE Fresh'
  BY <1>7 DEF Fresh
<1>8. CASE ApiReload \/ Restart
  <2>1. live' = Reloaded /\ UNCHANGED <<conf, chain, key, meta, job>>
    BY <1>8 DEF ApiReload, Restart, disk
  <2>2. Untorn' => Untorn
    BY <2>1 DEF Untorn, Whole, Enabled
  <2>3. Untorn => Serves'
    BY <2>1, ReloadServes DEF Serves, Enabled
  <2>4. QED
    BY <1>7, <2>1, <2>2, <2>3 DEF Serving
<1>9. ASSUME NEW c \in Cert, NEW s, ChangeCert(c, s) PROVE Fresh' /\ Serving'
  <2>1. owed' /\ UNCHANGED <<job, meta>>
    BY <1>9 DEF ChangeCert, disk
  <2>2. QED
    BY <1>7, <2>1 DEF Serving, Stale
<1>10. CASE Crash
  <2>1. up' = FALSE /\ \A w \in Worker : job'[w].at = "idle"
    BY <1>10 DEF Crash, Resting
  <2>2. QED
    BY <2>1 DEF Fresh, Serving
<1>11. ASSUME Kept, UNCHANGED job PROVE Fresh' /\ Serving'
  <2>1. /\ Stale' = Stale /\ (Untorn' => Untorn) /\ (Serves => Serves')
    BY <1>11 DEF Stale, Unserved, Untorn, Whole, Enabled, Serves
  <2>2. QED
    BY <1>7, <1>11, <2>1 DEF Serving
<1>12. ASSUME NEW c \in Cert, Ages(c) PROVE Fresh' /\ Serving'
  <2>1. meta \in [Cert -> Meta \cup {None}] /\ meta[c] \in Meta
    BY <1>12 DEF Sound, TypeOK, Ages
  <2>2. [meta[c] EXCEPT !.due = TRUE].serial = meta[c].serial
    BY <2>1 DEF Meta
  <2>3. meta'[c] = [meta[c] EXCEPT !.due = TRUE] /\ \A d \in Cert : d # c => meta'[d] = meta[d]
    BY <1>12, <2>1 DEF Ages
  <2>4. /\ meta[c] # None /\ meta'[c] # None /\ meta'[c].serial = meta[c].serial
        /\ UNCHANGED <<up, conf, live, chain, key, owed, job>>
    <3>1. [meta[c] EXCEPT !.due = TRUE] \in Meta
      BY <2>1 DEF Meta
    <3>2. QED
      BY <1>12, <2>2, <2>3, <3>1, AcmeAssumption DEF Ages, plane
  <2>5. \A w \in Worker : job[w].at \in {"chain", "key", "meta"} => job[w].cert \in Cert
    BY DEF Sound, CertKnown, Ordering
  <2>6. Fresh'
    <3>1. SUFFICES ASSUME NEW w \in Worker, job[w].at \in {"chain", "key", "meta"}
                   PROVE  meta'[job[w].cert] = None \/ meta'[job[w].cert].serial < job[w].made
      BY <2>4 DEF Fresh
    <3>2. meta[job[w].cert] = None \/ meta[job[w].cert].serial < job[w].made
      BY <3>1 DEF Fresh
    <3>3. QED
      BY <2>3, <2>4, <2>5, <3>1, <3>2
  <2>7. Untorn' => Untorn
    <3>1. \A d \in Cert : Whole(d)' => Whole(d)
      BY <2>3, <2>4 DEF Whole
    <3>2. QED
      BY <2>4, <3>1 DEF Untorn, Enabled
  <2>8. QED
    BY <2>4, <2>6, <2>7 DEF Serving, Stale, Unserved, Serves, Enabled
<1>13. ASSUME NEW c \in Cert, CooldownElapses(c) PROVE Kept /\ UNCHANGED job
  BY <1>13 DEF CooldownElapses, plane, disk
<1>14. ASSUME NEW t, KeyAuthExpired(t) PROVE Kept /\ UNCHANGED job
  BY <1>14 DEF KeyAuthExpired, plane, disk
<1>15. UNCHANGED vars => Kept /\ UNCHANGED job
  BY DEF vars, plane, disk
<1> HIDE DEF Kept
<1>16. QED
  BY <1>1, <1>3, <1>4, <1>5, <1>6, <1>8, <1>9, <1>10, <1>11, <1>12, <1>13, <1>14, <1>15, <1>l
  DEF Next, LoopStep, ReqStep

\* With no order in flight, no reload to come and no enabled certificate torn,
\* every one of them is served as it is on disk: whatever reload met a half-written
\* pair, whatever other order of the pass failed, wherever a write failed and
\* whenever the process died and came back.
THEOREM ServedWhenQuiet == Spec => []ServedAtRest
<1>1. Init => Sound /\ Fresh /\ Serving
  <2>1. SUFFICES ASSUME Init PROVE Fresh /\ Serving
    BY InitSound
  <2>2. \A w \in Worker : job[w].at = "idle"
    BY <2>1 DEF Init, Resting
  <2>3. Serves
    BY <2>1 DEF Init, Serves, Enabled
  <2>4. QED
    BY <2>2, <2>3 DEF Fresh, Serving
<1>2. Sound /\ Fresh /\ Serving /\ [Next]_vars => (Sound /\ Fresh /\ Serving)'
  BY NextSound, NextServes
<1>3. Sound /\ Fresh /\ Serving => ServedAtRest
  <2>1. SUFFICES ASSUME Sound, Serving, up, mu = None, ~owed, Untorn PROVE Serves
    BY DEF ServedAtRest, Serves, Untorn
  <2>2. \A w \in Worker : job[w].at \notin Ordering \cup {"pass"}
    BY <2>1, AcmeAssumption DEF Sound, Mutex
  <2>3. ~Stale
    BY <2>1, <2>2 DEF Stale, Unserved, Ordering
  <2>4. QED
    BY <2>1, <2>3 DEF Serving
<1>4. QED
  BY <1>1, <1>2, <1>3, PTL DEF Spec

=============================================================================
