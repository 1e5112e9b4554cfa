----------------------------- MODULE EdgeGates -----------------------------
(***************************************************************************)
(* The gates of the data plane that keep state between requests, one       *)
(* section each (internal/dataplane):                                      *)
(*   - the rate limiter: token buckets in an LRU, blocks with backoff;     *)
(*   - the CrowdSec bouncer in stream mode: a local decision set, pulled   *)
(*     once and then kept up to date by deltas that requests set off;      *)
(*   - the OIDC gate's provider clients: one discovery shared by the       *)
(*     requests that come while it runs;                                   *)
(*   - the revocation watermark of SSO sessions: memory, file, refresh.    *)
(* They share nothing but the clock.  RequestPath lets these gates decide  *)
(* either way.                                                             *)
(***************************************************************************)
EXTENDS Integers, Sequences, FiniteSets, SequencesExt

CONSTANTS
    Key,          \* client addresses
    Caller,       \* requests under way at once
    Capacity,     \* the burst of the limiter
    Refill,       \* tokens per tick
    BlockFor,     \* length of the first block, 0 for none
    Backoff,      \* factor of each further one
    BlockMax,     \* and its limit
    MaxBuckets,   \* maxRateLimitBuckets
    MaxNow,       \* bound: ticks of the clock
    Nobody

ASSUME EdgeAssumption ==
    /\ {Capacity, Refill, BlockFor, Backoff, BlockMax, MaxNow} \subseteq Nat
    /\ MaxBuckets \in Nat \ {0}
    /\ Nobody \notin Caller

VARIABLES
    now,
    order, bucket, served,     \* limiter: LRU of keys, their buckets, history
    lapi, sent, lost,          \* CrowdSec: its decisions, what it believes the
                               \* bouncer knows, an answer was lost (history)
    deny, ready, due, flight, startup,   \* streamState; startup: who has startupMu
    puller,                    \* per caller: its pull, and a goroutine's of its own
    cached, entry, login,      \* dataOIDC.clients, its entries, the callers
    mem, loaded, file, revoke, refresh, promised   \* the watermark

limitVars == <<order, bucket, served>>
streamVars == <<lapi, sent, lost, deny, ready, due, flight, startup, puller>>
loginVars == <<cached, entry, login>>
markVars == <<mem, loaded, file, revoke, refresh, promised>>
edgeVars == <<now, limitVars, streamVars, loginVars, markVars>>

Later(a, b) == IF a >= b THEN a ELSE b
Sooner(a, b) == IF a <= b THEN a ELSE b

----------------------------------------------------------------------------
(* The rate limiter: allow is one step under the mutex.                    *)

NoBucket == [tokens |-> 0, last |-> 0, until |-> 0, block |-> 0, strikes |-> 0]
NeverServed == [n |-> 0, since |-> 0, last |-> 0]
NewBucket == [tokens |-> Capacity, last |-> now, until |-> 0, block |-> 0, strikes |-> 0]

\* Tokens come with the time since the last request.
\* Mutant: and that time is not noted.
RefilledAgain(b) == [b EXCEPT !.tokens = Sooner(Capacity, @ + Refill * (now - b.last))]

Refilled(b) == [b EXCEPT !.tokens = Sooner(Capacity, @ + Refill * (now - b.last)),
                         !.last = now]

\* nextBlock: the streak is forgotten after a clean period as long as the block,
\* and each block of a streak is longer than the one before it.
NextBlock(b) ==
    LET strikes == IF b.strikes > 0 /\ now >= b.until + b.block THEN 0 ELSE b.strikes
        grown == BlockFor * Backoff ^ strikes
        length == IF Backoff <= 1 THEN BlockFor
                  ELSE IF grown \in 1 .. BlockMax THEN grown ELSE BlockMax
    IN  [b EXCEPT !.until = now + length, !.block = length,
                  !.strikes = (IF Backoff <= 1 THEN b.strikes ELSE strikes) + 1]

\* allow: the key becomes the most recently used one, a new one displaces the
\* least recently used, streak and all.
Allow(k) ==
    LET tracked == k \in ToSet(order)
        kept == IF tracked THEN RemoveAt(order, CHOOSE i \in DOMAIN order : order[i] = k)
                ELSE IF Len(order) >= MaxBuckets THEN Tail(order) ELSE order
        blocked == tracked /\ BlockFor > 0 /\ now < bucket[k].until
        b == IF tracked THEN Refilled(bucket[k]) ELSE NewBucket
        h == IF tracked THEN served[k] ELSE [NeverServed EXCEPT !.since = now]
        after == IF blocked THEN bucket[k]
                 ELSE IF b.tokens >= 1 THEN [b EXCEPT !.tokens = @ - 1]
                 ELSE IF BlockFor > 0 THEN NextBlock(b) ELSE b
        admitted == ~blocked /\ b.tokens >= 1
    IN  /\ order' = Append(kept, k)
        /\ bucket' = [j \in Key |-> IF j = k THEN after
                                    ELSE IF j \in ToSet(kept) THEN bucket[j] ELSE NoBucket]
        /\ served' = [j \in Key |->
              IF j = k THEN (IF admitted THEN [h EXCEPT !.n = @ + 1, !.last = now] ELSE h)
              ELSE IF j \in ToSet(kept) THEN served[j] ELSE NeverServed]
        /\ UNCHANGED <<now, streamVars, loginVars, markVars>>

----------------------------------------------------------------------------
(* The bouncer's decision stream.                                          *)

\* The operator or a scenario bans an address or lifts a ban.
Decision(k) ==
    /\ lapi' = IF k \in lapi THEN lapi \ {k} ELSE lapi \cup {k}
    /\ UNCHANGED <<now, limitVars, sent, lost, deny, ready, due, flight, startup, puller,
                   loginVars, markVars>>

Quiet == [pc |-> "idle", add |-> {}, del |-> {}]

\* streamVerdict reads ready, due and inFlight together; startupMu queues the
\* requests that come before the first pull.
StreamVerdict(r) ==
    /\ puller[r].pc = "idle"
    /\ ~ready \/ (due /\ ~flight)
    /\ puller' = [puller EXCEPT ![r].pc = IF ready THEN "claim" ELSE "queue"]
    /\ UNCHANGED <<now, limitVars, lapi, sent, lost, deny, ready, due, flight, startup,
                   loginVars, markVars>>

\* Under startupMu ready is looked at again.
StartupLock(r) ==
    /\ puller[r].pc = "queue" /\ startup = Nobody
    /\ startup' = IF ready THEN Nobody ELSE r
    /\ puller' = [puller EXCEPT ![r].pc = IF ready THEN "idle" ELSE "pull"]
    /\ UNCHANGED <<now, limitVars, lapi, sent, lost, deny, ready, due, flight,
                   loginVars, markVars>>

\* inFlight is tested again and set under the mutex; one goroutine refreshes.
ClaimFlight(r) ==
    /\ puller[r].pc = "claim"
    /\ flight' = TRUE
    /\ puller' = [puller EXCEPT ![r].pc = IF flight THEN "idle" ELSE "pull"]
    /\ UNCHANGED <<now, limitVars, lapi, sent, lost, deny, ready, due, startup,
                   loginVars, markVars>>

\* The LAPI answers with all decisions, or with what changed since its last
\* answer (external); the call may also fail, before or after it was counted.
Pull(r) ==
    /\ puller[r].pc = "pull"
    /\ \/ /\ puller' = [puller EXCEPT ![r] =
                [pc |-> "apply", add |-> IF startup = r THEN lapi ELSE lapi \ sent,
                 del |-> sent \ lapi]]
          /\ sent' = lapi /\ UNCHANGED lost
       \/ /\ puller' = [puller EXCEPT ![r].pc = "failed"]
          /\ \/ UNCHANGED <<sent, lost>>
             \/ sent' = lapi /\ lost' = (lost \/ sent # lapi)
    /\ UNCHANGED <<now, limitVars, lapi, deny, ready, due, flight, startup,
                   loginVars, markVars>>

\* streamState.apply, the deferred reset of inFlight and the unlock: a startup
\* replaces the set, a delta deletes and then adds; a failed delta waits for the
\* next interval.
PullEnds(r) ==
    /\ puller[r].pc \in {"apply", "failed"}
    /\ LET ok == puller[r].pc = "apply"
           first == startup = r
       IN  /\ deny' = IF ~ok THEN deny
                      ELSE ((IF first THEN {} ELSE deny) \ puller[r].del) \cup puller[r].add
           /\ ready' = (ready \/ ok)
           /\ due' = IF ok \/ ~first THEN FALSE ELSE due
           /\ lost' = (lost /\ ~(ok /\ first))
           /\ flight' = IF first THEN flight ELSE FALSE
           /\ startup' = IF first THEN Nobody ELSE startup
    /\ puller' = [puller EXCEPT ![r] = Quiet]
    /\ UNCHANGED <<now, limitVars, lapi, sent, loginVars, markVars>>

\* cacheTTL has passed.
StreamDue ==
    /\ ready /\ ~due /\ due' = TRUE
    /\ UNCHANGED <<now, limitVars, lapi, sent, lost, deny, ready, flight, startup, puller,
                   loginVars, markVars>>

----------------------------------------------------------------------------
(* dataOIDC.client.  An entry is named after the request that made it.     *)

EntryHeld(e) == \E r \in Caller : login[r].pc = "wait" /\ login[r].e = e

\* Look the key up under the mutex, or put an entry there.
ProviderClient(r) ==
    /\ login[r].pc = "idle"
    /\ IF cached # Nobody
       THEN /\ login' = [login EXCEPT ![r] = [pc |-> "wait", e |-> cached]]
            /\ UNCHANGED <<cached, entry>>
       ELSE /\ ~EntryHeld(r)
            /\ login' = [login EXCEPT ![r] = [pc |-> "discover", e |-> r]]
            /\ cached' = r
            /\ entry' = [entry EXCEPT ![r] = "pending"]
    /\ UNCHANGED <<now, limitVars, streamVars, markVars>>

\* oidc.New under the context of the first request, then close(ready).
Discovered(r) ==
    /\ login[r].pc = "discover"
    /\ \E ok \in BOOLEAN :
          /\ entry' = [entry EXCEPT ![r] = IF ok THEN "client" ELSE "failed"]
          /\ login' = [login EXCEPT ![r].pc = IF ok THEN "idle" ELSE "evict"]
    /\ UNCHANGED <<now, limitVars, streamVars, cached, markVars>>

\* Mutant: a failed discovery stays in the cache.
EvictNever(r) ==
    /\ login[r].pc = "evict"
    /\ login' = [login EXCEPT ![r].pc = "idle"]
    /\ UNCHANGED <<now, limitVars, streamVars, cached, entry, markVars>>

\* A failed discovery leaves the cache.
Evict(r) ==
    /\ login[r].pc = "evict"
    /\ cached' = IF cached = r THEN Nobody ELSE cached
    /\ login' = [login EXCEPT ![r].pc = "idle"]
    /\ UNCHANGED <<now, limitVars, streamVars, entry, markVars>>

\* A waiting request gets the result, or its own context ends.
WaitEnds(r) ==
    /\ login[r].pc = "wait"
    /\ login' = [login EXCEPT ![r].pc = "idle"]
    /\ UNCHANGED <<now, limitVars, streamVars, cached, entry, markVars>>

----------------------------------------------------------------------------
(* The revocation watermark.                                               *)

\* ssoRevokedAt: the file is read once, lazily, before the value is used.
RevokedAt == IF loaded THEN mem ELSE file

\* RevokeAllSSOSessions: the clock and the current mark are read, ...
Revoke ==
    /\ revoke.pc = "idle"
    /\ loaded' = TRUE /\ mem' = RevokedAt
    /\ revoke' = [pc |-> "store", at |-> Later(now, RevokedAt)]
    /\ UNCHANGED <<now, limitVars, streamVars, loginVars, file, refresh, promised>>

\* ... stored in memory ...
RevokeStore ==
    /\ revoke.pc = "store"
    /\ mem' = revoke.at
    /\ revoke' = [revoke EXCEPT !.pc = "write"]
    /\ UNCHANGED <<now, limitVars, streamVars, loginVars, loaded, file, refresh, promised>>

\* ... and written; a failed write is answered with an error.
RevokeWrite ==
    /\ revoke.pc = "write"
    /\ \/ file' = revoke.at /\ promised' = Later(promised, revoke.at)
       \/ UNCHANGED <<file, promised>>
    /\ revoke' = [revoke EXCEPT !.pc = "idle"]
    /\ UNCHANGED <<now, limitVars, streamVars, loginVars, mem, loaded, refresh>>

\* refreshSSOWatermark reads the mark and the file, ...
Refresh ==
    /\ refresh.pc = "idle"
    /\ loaded' = TRUE /\ mem' = RevokedAt
    /\ refresh' = [pc |-> "swap", v |-> file]
    /\ UNCHANGED <<now, limitVars, streamVars, loginVars, file, revoke, promised>>

\* Mutant: the value that was read is stored.
RefreshStore ==
    /\ refresh.pc = "swap"
    /\ mem' = refresh.v
    /\ refresh' = [refresh EXCEPT !.pc = "idle"]
    /\ UNCHANGED <<now, limitVars, streamVars, loginVars, loaded, file, revoke, promised>>

\* ... and advances the mark by compare-and-swap, or leaves it.
RefreshSwap ==
    /\ refresh.pc = "swap"
    /\ mem' = Later(mem, refresh.v)
    /\ refresh' = [refresh EXCEPT !.pc = "idle"]
    /\ UNCHANGED <<now, limitVars, streamVars, loginVars, loaded, file, revoke, promised>>

\* The process ends and is started again.
EdgeRestart ==
    /\ loaded /\ loaded' = FALSE /\ mem' = 0
    /\ revoke' = [pc |-> "idle", at |-> 0]
    /\ refresh' = [pc |-> "idle", v |-> 0]
    /\ UNCHANGED <<now, limitVars, streamVars, loginVars, file, promised>>

----------------------------------------------------------------------------
Tick ==
    /\ now < MaxNow /\ now' = now + 1
    /\ UNCHANGED <<limitVars, streamVars, loginVars, markVars>>

LimitNext == \E k \in Key : Allow(k)
StreamNext ==
    \/ \E k \in Key : Decision(k)
    \/ \E r \in Caller : \/ StreamVerdict(r) \/ StartupLock(r) \/ ClaimFlight(r)
                         \/ Pull(r) \/ PullEnds(r)
    \/ StreamDue
LoginNext == \E r \in Caller : ProviderClient(r) \/ Discovered(r) \/ Evict(r) \/ WaitEnds(r)
MarkNext == Revoke \/ RevokeStore \/ RevokeWrite \/ Refresh \/ RefreshSwap \/ EdgeRestart

EdgeInit ==
    /\ now = 0
    /\ order = <<>>
    /\ bucket = [k \in Key |-> NoBucket]
    /\ served = [k \in Key |-> NeverServed]
    /\ lapi = {} /\ sent = {} /\ lost = FALSE /\ deny = {}
    /\ ready = FALSE /\ due = FALSE /\ flight = FALSE /\ startup = Nobody
    /\ puller = [r \in Caller |-> Quiet]
    /\ cached = Nobody
    /\ entry = [r \in Caller |-> "none"]
    /\ login = [r \in Caller |-> [pc |-> "idle", e |-> Nobody]]
    /\ mem = 0 /\ loaded = FALSE /\ file = 0 /\ promised = 0
    /\ revoke = [pc |-> "idle", at |-> 0]
    /\ refresh = [pc |-> "idle", v |-> 0]

EdgeNext == Tick \/ LimitNext \/ StreamNext \/ LoginNext \/ MarkNext

EdgeSpec == EdgeInit /\ [][EdgeNext]_edgeVars

----------------------------------------------------------------------------
(* The properties.                                                         *)

\* What a bucket admitted since it was made is within the burst and the rate,
\* nobody is admitted during a block, a block is no longer than the limit, and no
\* more addresses are remembered than the cap allows.
RateHeld ==
    /\ Len(order) <= MaxBuckets
    /\ \A k \in ToSet(order) :
         LET b == bucket[k]
             h == served[k]
         IN  /\ h.n <= Capacity + Refill * (now - h.since)
             /\ b.strikes > 0 => h.last <= b.until - b.block \/ h.last >= b.until
             /\ b.block <= Later(BlockFor, BlockMax)

\* Between pulls the bouncer denies exactly what the LAPI believes it knows, as
\* long as no answer was lost: answers are applied one at a time and in order.
StreamExact ==
    ready /\ ~lost /\ (\A r \in Caller : puller[r].pc \notin {"apply", "failed"})
        => deny = sent

\* A failed discovery is in the cache only until the request that ran it has
\* removed it: later requests run their own.
NoFailureCached ==
    cached # Nobody /\ entry[cached] = "failed" => login[cached].pc = "evict"

\* What the stateful gates of the data plane keep is right (rateLimiter.allow,
\* streamState, dataOIDC.client), however requests interleave and calls fail.
GatesExact == RateHeld /\ StreamExact /\ NoFailureCached

\* A session issued before a revocation that was answered with success stays
\* refused: the mark a gate would read is never behind an answered one, through
\* refreshes, failed writes and restarts (RevokeAllSSOSessions,
\* refreshSSOWatermark).
WatermarkHolds == RevokedAt >= promised

=============================================================================
