-------------------------- MODULE EdgeGatesProofs --------------------------
(***************************************************************************)
(* Proofs about EdgeGates, for any number of addresses and requests, any   *)
(* limits and any length of the clock.                                     *)
(***************************************************************************)
EXTENDS EdgeGates, TLAPS

Bucket == [tokens : Nat, last : Nat, until : Nat, block : Nat, strikes : Nat]
History == [n : Nat, since : Nat, last : Nat]
Pulling == [pc : {"idle", "queue", "claim", "pull", "apply", "failed"},
            add : SUBSET Key, del : SUBSET Key]
SigningIn == [pc : {"idle", "wait", "discover", "evict"}, e : Caller \cup {Nobody}]

LimitType ==
    /\ order \in Seq(Key)
    /\ bucket \in [Key -> Bucket]
    /\ served \in [Key -> History]
StreamType ==
    /\ lapi \subseteq Key /\ sent \subseteq Key /\ deny \subseteq Key
    /\ {lost, ready, due, flight} \subseteq BOOLEAN
    /\ startup \in Caller \cup {Nobody}
    /\ puller \in [Caller -> Pulling]
LoginType ==
    /\ cached \in Caller \cup {Nobody}
    /\ entry \in [Caller -> {"none", "pending", "client", "failed"}]
    /\ login \in [Caller -> SigningIn]
MarkType ==
    /\ {mem, file, promised} \subseteq Nat
    /\ loaded \in BOOLEAN
    /\ revoke \in [pc : {"idle", "store", "write"}, at : Nat]
    /\ refresh \in [pc : {"idle", "swap"}, v : Nat]
EdgeTypeOK == now \in Nat /\ LimitType /\ StreamType /\ LoginType /\ MarkType

----------------------------------------------------------------------------
(* Which part of the state a step moves.                                   *)

\* A request at the limiter moves the limiter only.
LEMMA LimitFrame ==
    ASSUME LimitNext
    PROVE  UNCHANGED <<now, streamVars, loginVars, markVars>>
BY DEF LimitNext, Allow

\* A step of the bouncer moves the bouncer only.
LEMMA StreamFrame ==
    ASSUME StreamNext
    PROVE  UNCHANGED <<now, limitVars, loginVars, markVars>>
BY DEF StreamNext, Decision, StreamVerdict, StartupLock, ClaimFlight, Pull, PullEnds,
       StreamDue

\* A step of a sign-in moves the OIDC clients only.
LEMMA LoginFrame ==
    ASSUME LoginNext
    PROVE  UNCHANGED <<now, limitVars, streamVars, markVars>>
BY DEF LoginNext, ProviderClient, Discovered, Evict, WaitEnds

\* A revocation, a refresh or a restart moves the watermark only.
LEMMA MarkFrame ==
    ASSUME MarkNext
    PROVE  UNCHANGED <<now, limitVars, streamVars, loginVars>>
BY DEF MarkNext, Revoke, RevokeStore, RevokeWrite, Refresh, RefreshSwap, EdgeRestart

----------------------------------------------------------------------------
(* The revocation watermark.                                               *)

\* The file, the memory once it was loaded and a revocation under way are never
\* behind an answered revocation; memory has what is about to be written.
MarkInv ==
    /\ MarkType
    /\ file >= promised
    /\ loaded => mem >= promised
    /\ revoke.pc # "idle" => loaded /\ revoke.at >= promised
    /\ revoke.pc = "write" => mem >= revoke.at

\* At start nothing is revoked and nothing loaded.
LEMMA MarkStart == ASSUME EdgeInit PROVE MarkInv
<1>1. ~loaded /\ loaded \in BOOLEAN
  BY DEF EdgeInit
<1>2. /\ mem = 0 /\ file = 0 /\ promised = 0
      /\ revoke = [pc |-> "idle", at |-> 0] /\ refresh = [pc |-> "idle", v |-> 0]
  BY DEF EdgeInit
<1>3. QED
  BY <1>1, <1>2 DEF MarkInv, MarkType

\* Revocations and refreshes interleave without losing an answered mark.
LEMMA MarkStep ==
    ASSUME now \in Nat, MarkInv, MarkNext
    PROVE  MarkInv'
<1> USE DEF MarkInv, MarkType, RevokedAt, Later
<1>1. CASE Revoke
  BY <1>1 DEF Revoke
<1>2. CASE RevokeStore
  BY <1>2 DEF RevokeStore
<1>3. CASE RevokeWrite
  BY <1>3 DEF RevokeWrite
<1>4. CASE Refresh
  BY <1>4 DEF Refresh
<1>5. CASE RefreshSwap
  BY <1>5 DEF RefreshSwap
<1>6. CASE EdgeRestart
  <2>1. ~loaded' /\ loaded' \in BOOLEAN
    BY <1>6 DEF EdgeRestart
  <2>2. /\ mem' = 0 /\ file' = file /\ promised' = promised
        /\ revoke' = [pc |-> "idle", at |-> 0] /\ refresh' = [pc |-> "idle", v |-> 0]
    BY <1>6 DEF EdgeRestart
  <2>3. QED
    BY <2>1, <2>2
<1>7. QED
  BY <1>1, <1>2, <1>3, <1>4, <1>5, <1>6 DEF MarkNext

\* The clock runs in whole ticks.
LEMMA ClockStart == ASSUME EdgeInit PROVE now \in Nat
BY DEF EdgeInit

\* No step but a tick moves the clock.
LEMMA ClockStep == ASSUME now \in Nat, [EdgeNext]_edgeVars PROVE now' \in Nat
BY LimitFrame, StreamFrame, LoginFrame, MarkFrame DEF EdgeNext, Tick, edgeVars

----------------------------------------------------------------------------
(* The OIDC gate's clients.                                                *)

LoginInv == LoginType /\ NoFailureCached

\* At start the cache of clients is empty.
LEMMA LoginStart == ASSUME EdgeInit PROVE LoginInv
BY EdgeAssumption DEF EdgeInit, LoginInv, LoginType, NoFailureCached, SigningIn

\* The request that ran a failed discovery removes it before anything else.
LEMMA LoginStep ==
    ASSUME LoginInv, LoginNext
    PROVE  LoginInv'
<1> USE EdgeAssumption DEF LoginInv, LoginType, NoFailureCached, SigningIn
<1>1. ASSUME NEW r \in Caller, ProviderClient(r)
      PROVE  LoginInv'
  <2>1. CASE cached # Nobody
    BY <1>1, <2>1 DEF ProviderClient
  <2>2. CASE cached = Nobody
    BY <1>1, <2>2 DEF ProviderClient
  <2>3. QED
    BY <2>1, <2>2
<1>2. ASSUME NEW r \in Caller, Discovered(r)
      PROVE  LoginInv'
  BY <1>2 DEF Discovered
<1>3. ASSUME NEW r \in Caller, Evict(r)
      PROVE  LoginInv'
  BY <1>3 DEF Evict
<1>4. ASSUME NEW r \in Caller, WaitEnds(r)
      PROVE  LoginInv'
  BY <1>4 DEF WaitEnds
<1>5. QED
  BY <1>1, <1>2, <1>3, <1>4 DEF LoginNext

----------------------------------------------------------------------------
(* The decision stream.                                                    *)

Pulls(r) == puller[r].pc \in {"pull", "apply", "failed"}

\* One pull at a time: the first ones under startupMu, the later ones under
\* inFlight, and no delta is asked for before the first answer was applied.
OnePull ==
    /\ \A r \in Caller :
         /\ startup = r => Pulls(r) /\ ~ready
         /\ Pulls(r) /\ startup # r => ready /\ flight
         /\ puller[r].pc = "claim" => ready
    /\ flight => ready
    /\ \A r, q \in Caller : Pulls(r) /\ Pulls(q) => r = q

\* The set and the answer on its way to it make what the LAPI has counted.
Accounted ==
    /\ ready /\ ~lost /\ (\A r \in Caller : puller[r].pc # "apply") => deny = sent
    /\ \A r \in Caller : puller[r].pc = "apply" =>
         IF startup = r THEN puller[r].add = sent
         ELSE ~lost => (deny \ puller[r].del) \cup puller[r].add = sent

StreamInv == StreamType /\ OnePull /\ Accounted

\* At start nothing was pulled.
LEMMA StreamStart == ASSUME EdgeInit PROVE StreamInv
<1>1. ~lost /\ ~ready /\ ~due /\ ~flight
  BY DEF EdgeInit
<1>2. {lost, ready, due, flight} \subseteq BOOLEAN
  BY DEF EdgeInit
<1>3. StreamType
  BY <1>2 DEF EdgeInit, StreamType, Pulling, Quiet
<1>4. OnePull /\ Accounted
  BY <1>1, EdgeAssumption DEF EdgeInit, OnePull, Pulls, Accounted, Quiet
<1>5. QED
  BY <1>3, <1>4 DEF StreamInv

\* A step of the stream leaves it well formed.
LEMMA StreamTyped ==
    ASSUME StreamType, StreamNext
    PROVE  StreamType'
<1> USE DEF StreamType, Pulling
<1>1. ASSUME NEW k \in Key, Decision(k)
      PROVE  StreamType'
  BY <1>1 DEF Decision
<1>2. ASSUME NEW r \in Caller, StreamVerdict(r)
      PROVE  StreamType'
  BY <1>2 DEF StreamVerdict
<1>3. ASSUME NEW r \in Caller, StartupLock(r)
      PROVE  StreamType'
  BY <1>3 DEF StartupLock
<1>4. ASSUME NEW r \in Caller, ClaimFlight(r)
      PROVE  StreamType'
  BY <1>4 DEF ClaimFlight
<1>5. ASSUME NEW r \in Caller, Pull(r)
      PROVE  StreamType'
  <2>1. sent' \subseteq Key /\ lost' \in BOOLEAN
    BY <1>5 DEF Pull
  <2>2. puller' \in [Caller -> Pulling]
    BY <1>5 DEF Pull
  <2>3. QED
    BY <1>5, <2>1, <2>2 DEF Pull
<1>6. ASSUME NEW r \in Caller, PullEnds(r)
      PROVE  StreamType'
  BY <1>6 DEF PullEnds, Quiet
<1>7. CASE StreamDue
  BY <1>7 DEF StreamDue
<1>8. QED
  BY <1>1, <1>2, <1>3, <1>4, <1>5, <1>6, <1>7 DEF StreamNext

\* However requests interleave, one of them pulls.
LEMMA StreamAlone ==
    ASSUME StreamType, OnePull, StreamNext
    PROVE  OnePull'
<1> USE EdgeAssumption DEF StreamType, Pulling, OnePull, Pulls
<1>1. ASSUME NEW k \in Key, Decision(k)
      PROVE  OnePull'
  BY <1>1 DEF Decision
<1>2. ASSUME NEW r \in Caller, StreamVerdict(r)
      PROVE  OnePull'
  BY <1>2 DEF StreamVerdict
<1>3. ASSUME NEW r \in Caller, StartupLock(r)
      PROVE  OnePull'
  BY <1>3 DEF StartupLock
<1>4. ASSUME NEW r \in Caller, ClaimFlight(r)
      PROVE  OnePull'
  BY <1>4 DEF ClaimFlight
<1>5. ASSUME NEW r \in Caller, Pull(r)
      PROVE  OnePull'
  BY <1>5 DEF Pull
<1>6. ASSUME NEW r \in Caller, PullEnds(r)
      PROVE  OnePull'
  BY <1>6 DEF PullEnds, Quiet
<1>7. CASE StreamDue
  BY <1>7 DEF StreamDue
<1>8. QED
  BY <1>1, <1>2, <1>3, <1>4, <1>5, <1>6, <1>7 DEF StreamNext

\* An answer is applied before the next one is asked for, and what it changes is
\* what the LAPI counted.
LEMMA StreamAccounts ==
    ASSUME StreamInv, StreamNext
    PROVE  Accounted'
<1> USE EdgeAssumption DEF StreamInv, StreamType, Pulling, OnePull, Pulls, Accounted
<1>1. ASSUME NEW k \in Key, Decision(k)
      PROVE  Accounted'
  BY <1>1 DEF Decision
<1>2. ASSUME NEW r \in Caller, StreamVerdict(r)
      PROVE  Accounted'
  BY <1>2 DEF StreamVerdict
<1>3. ASSUME NEW r \in Caller, StartupLock(r)
      PROVE  Accounted'
  BY <1>3 DEF StartupLock
<1>4. ASSUME NEW r \in Caller, ClaimFlight(r)
      PROVE  Accounted'
  BY <1>4 DEF ClaimFlight
<1>5. ASSUME NEW r \in Caller, Pull(r)
      PROVE  Accounted'
  <2>1. \A q \in Caller : q # r => puller'[q] = puller[q] /\ ~Pulls(q)
    BY <1>5 DEF Pull
  <2>2. UNCHANGED <<deny, ready, startup>>
    BY <1>5 DEF Pull
  <2>3. CASE puller'[r].pc = "failed"
    BY <1>5, <2>1, <2>2, <2>3 DEF Pull
  <2>4. CASE puller'[r].pc = "apply"
    <3>1. /\ puller'[r].add = (IF startup = r THEN lapi ELSE lapi \ sent)
          /\ puller'[r].del = sent \ lapi
          /\ sent' = lapi /\ (lost' <=> lost)
      <4>1. CASE puller' = [puller EXCEPT ![r].pc = "failed"]
        BY <2>4, <4>1
      <4>2. CASE /\ puller' = [puller EXCEPT ![r] =
                     [pc |-> "apply", add |-> IF startup = r THEN lapi ELSE lapi \ sent,
                      del |-> sent \ lapi]]
                 /\ sent' = lapi /\ UNCHANGED lost
        BY <4>2
      <4>3. QED
        BY <1>5, <4>1, <4>2 DEF Pull
    <3>2. startup # r /\ ~lost => deny = sent
      BY <1>5, <2>1 DEF Pull
    <3>3. QED
      BY <2>1, <2>2, <2>4, <3>1, <3>2
  <2>5. QED
    BY <1>5, <2>3, <2>4 DEF Pull
<1>6. ASSUME NEW r \in Caller, PullEnds(r)
      PROVE  Accounted'
  <2>1. \A q \in Caller : q # r => puller'[q] = puller[q] /\ ~Pulls(q)
    BY <1>6 DEF PullEnds
  <2>2. puller'[r].pc = "idle" /\ sent' = sent
    BY <1>6 DEF PullEnds, Quiet
  <2>3. CASE puller[r].pc = "apply"
    BY <1>6, <2>1, <2>2, <2>3 DEF PullEnds
  <2>4. CASE puller[r].pc = "failed"
    BY <1>6, <2>1, <2>2, <2>4 DEF PullEnds
  <2>5. QED
    BY <1>6, <2>3, <2>4 DEF PullEnds
<1>7. CASE StreamDue
  BY <1>7 DEF StreamDue
<1>8. QED
  BY <1>1, <1>2, <1>3, <1>4, <1>5, <1>6, <1>7 DEF StreamNext

----------------------------------------------------------------------------
(* The rate limiter.                                                       *)

\* Arithmetic of the refill: two periods are worth what the whole one is.
LEMMA RefillAdds ==
    ASSUME NEW a \in Nat, NEW from \in Nat, NEW mid \in Nat, NEW to \in Nat
    PROVE  a * (mid - from) + a * (to - mid) = a * (to - from)
OBVIOUS

\* More time is worth no fewer tokens.
LEMMA RefillGrows ==
    ASSUME NEW a \in Nat, NEW d \in Int, NEW e \in Int, d <= e
    PROVE  a * d <= a * e
OBVIOUS

\* What a bucket has given out and what it still holds came with it or were
\* refilled; whoever was ever blocked is limited with blocks.
Budgeted(b, h) ==
    /\ h.since <= b.last /\ b.last <= now /\ h.last <= now
    /\ h.n + b.tokens <= Capacity + Refill * (b.last - h.since)
    /\ b.strikes > 0 => /\ BlockFor > 0
                        /\ h.last <= b.until - b.block \/ h.last >= b.until
    /\ b.block <= Later(BlockFor, BlockMax)

LimitInv ==
    /\ LimitType
    /\ Len(order) <= MaxBuckets
    /\ \A k \in Key : Budgeted(bucket[k], served[k])

\* At start every bucket is empty of history.
LEMMA LimitStart == ASSUME EdgeInit PROVE LimitInv
<1>1. Refill * (0 - 0) = 0
  BY EdgeAssumption
<1>2. Budgeted(NoBucket, NeverServed)
  BY <1>1, EdgeAssumption DEF EdgeInit, Budgeted, NoBucket, NeverServed, Later
<1>3. LimitType /\ Len(order) <= MaxBuckets
  BY EdgeAssumption DEF EdgeInit, LimitType, NoBucket, NeverServed, Bucket, History
<1>4. QED
  BY <1>2, <1>3 DEF EdgeInit, LimitInv

\* Refilling hands out no more than the time since the last request is worth.
LEMMA RefilledWithin ==
    ASSUME now \in Nat, NEW b \in Bucket, NEW h \in History, Budgeted(b, h)
    PROVE  Refilled(b) \in Bucket /\ Budgeted(Refilled(b), h) /\ Refilled(b).last = now
<1> USE EdgeAssumption
<1> DEFINE gain == Refill * (now - b.last)
<1>1. gain \in Nat
  BY DEF Budgeted, Bucket
<1>2. Refill * (b.last - h.since) + gain = Refill * (now - h.since)
  BY RefillAdds DEF Bucket, History
<1>3. Refill * (b.last - h.since) \in Int /\ Refill * (now - h.since) \in Int
  BY DEF Bucket, History
<1> DEFINE t == Sooner(Capacity, b.tokens + gain)
<1>t. t \in Nat /\ t <= b.tokens + gain
  BY <1>1 DEF Sooner, Bucket
<1>r. Refilled(b) = [b EXCEPT !.tokens = t, !.last = now]
  BY DEF Refilled
<1> HIDE DEF gain, t
<1>4. /\ Refilled(b) \in Bucket /\ Refilled(b).last = now
      /\ Refilled(b).tokens <= b.tokens + gain
      /\ Refilled(b).until = b.until /\ Refilled(b).block = b.block
      /\ Refilled(b).strikes = b.strikes
  BY <1>1, <1>t, <1>r DEF Bucket
<1>5. QED
  BY <1>1, <1>2, <1>3, <1>4 DEF Budgeted, Bucket, History

\* A block starts now, no longer than the limit, and hands out nothing.
LEMMA NextBlockWithin ==
    ASSUME now \in Nat, NEW b \in Bucket, NEW h \in History, Budgeted(b, h), BlockFor > 0
    PROVE  NextBlock(b) \in Bucket /\ Budgeted(NextBlock(b), h)
<1> USE EdgeAssumption
<1> DEFINE strikes == IF b.strikes > 0 /\ now >= b.until + b.block THEN 0 ELSE b.strikes
           grown == BlockFor * Backoff ^ strikes
           length == IF Backoff <= 1 THEN BlockFor
                     ELSE IF grown \in 1 .. BlockMax THEN grown ELSE BlockMax
           count == (IF Backoff <= 1 THEN b.strikes ELSE strikes) + 1
<1>1. PICK l \in Nat, c \in Nat :
          /\ l <= Later(BlockFor, BlockMax)
          /\ NextBlock(b) = [b EXCEPT !.until = now + l, !.block = l, !.strikes = c]
  <2>1. NextBlock(b) = [b EXCEPT !.until = now + length, !.block = length, !.strikes = count]
    BY DEF NextBlock
  <2>2. count \in Nat
    BY DEF Bucket
  <2> HIDE DEF grown, count
  <2>3. length \in Nat /\ length <= Later(BlockFor, BlockMax)
    BY DEF Later
  <2> HIDE DEF length
  <2>4. QED
    BY <2>1, <2>2, <2>3
<1> HIDE DEF strikes, grown, length, count
<1>2. NextBlock(b) \in Bucket
  <2>1. now + l \in Nat
    OBVIOUS
  <2>2. ASSUME NEW u \in Nat
        PROVE  [b EXCEPT !.until = u, !.block = l, !.strikes = c] \in Bucket
    BY DEF Bucket
  <2>3. QED
    BY <1>1, <2>1, <2>2
<1>3. QED
  BY <1>1, <1>2 DEF Budgeted, Bucket, History

\* A key that is moved to the back or displaced makes room for one.
LEMMA OrderShrinks ==
    ASSUME NEW s \in Seq(Key), NEW i \in DOMAIN s
    PROVE  /\ RemoveAt(s, i) \in Seq(Key) /\ Len(RemoveAt(s, i)) = Len(s) - 1
           /\ Tail(s) \in Seq(Key) /\ Len(Tail(s)) = Len(s) - 1
<1>1. i \in 1 .. Len(s) /\ Len(s) \in Nat
  OBVIOUS
<1>2. /\ SubSeq(s, 1, i - 1) \in Seq(Key) /\ SubSeq(s, i + 1, Len(s)) \in Seq(Key)
      /\ Len(SubSeq(s, 1, i - 1)) = i - 1 /\ Len(SubSeq(s, i + 1, Len(s))) = Len(s) - i
  BY <1>1
<1>3. RemoveAt(s, i) \in Seq(Key) /\ Len(RemoveAt(s, i)) = (i - 1) + (Len(s) - i)
  BY <1>2 DEF RemoveAt
<1>4. Tail(s) \in Seq(Key) /\ Len(Tail(s)) = Len(s) - 1
  BY <1>1
<1>5. QED
  BY <1>1, <1>3, <1>4

\* A request is admitted within its budget, blocked, or turned away.
LEMMA LimitStep ==
    ASSUME now \in Nat, LimitInv, LimitNext
    PROVE  LimitInv'
<1> USE EdgeAssumption
<1>n. now' = now
  BY LimitFrame
<1>1. PICK k \in Key : Allow(k)
  BY DEF LimitNext
<1> DEFINE tracked == k \in ToSet(order)
           kept == IF tracked THEN RemoveAt(order, CHOOSE i \in DOMAIN order : order[i] = k)
                   ELSE IF Len(order) >= MaxBuckets THEN Tail(order) ELSE order
           blocked == tracked /\ BlockFor > 0 /\ now < bucket[k].until
           b == IF tracked THEN Refilled(bucket[k]) ELSE NewBucket
           h == IF tracked THEN served[k] ELSE [NeverServed EXCEPT !.since = now]
           after == IF blocked THEN bucket[k]
                    ELSE IF b.tokens >= 1 THEN [b EXCEPT !.tokens = @ - 1]
                    ELSE IF BlockFor > 0 THEN NextBlock(b) ELSE b
           admitted == ~blocked /\ b.tokens >= 1
           then == IF admitted THEN [h EXCEPT !.n = @ + 1, !.last = now] ELSE h
<1>2. /\ order' = Append(kept, k)
      /\ bucket' = [j \in Key |-> IF j = k THEN after
                                  ELSE IF j \in ToSet(kept) THEN bucket[j] ELSE NoBucket]
      /\ served' = [j \in Key |-> IF j = k THEN then
                                  ELSE IF j \in ToSet(kept) THEN served[j] ELSE NeverServed]
  BY <1>1 DEF Allow
<1>3. kept \in Seq(Key) /\ Len(kept) < MaxBuckets
  <2>1. order \in Seq(Key) /\ Len(order) <= MaxBuckets /\ Len(order) \in Nat
    BY DEF LimitInv, LimitType
  <2>2. CASE tracked
    <3>1. (CHOOSE i \in DOMAIN order : order[i] = k) \in DOMAIN order
      BY <2>1, <2>2 DEF ToSet
    <3>2. QED
      BY <2>1, <2>2, <3>1, OrderShrinks
  <2>3. CASE ~tracked /\ Len(order) >= MaxBuckets
    <3>1. 1 \in DOMAIN order
      BY <2>1, <2>3
    <3>2. QED
      BY <2>1, <2>3, <3>1, OrderShrinks
  <2>4. CASE ~tracked /\ ~(Len(order) >= MaxBuckets)
    BY <2>1, <2>4
  <2>5. QED
    BY <2>2, <2>3, <2>4
<1> HIDE DEF kept
<1>4. order' \in Seq(Key) /\ Len(order') <= MaxBuckets
  BY <1>2, <1>3
<1>5. /\ b \in Bucket /\ h \in History /\ b.last <= now /\ Budgeted(b, h)
      /\ tracked => b.until = bucket[k].until
      /\ ~tracked => b.strikes = 0
  <2>1. CASE tracked
    <3>1. bucket[k] \in Bucket /\ served[k] \in History /\ Budgeted(bucket[k], served[k])
      BY DEF LimitInv, LimitType
    <3>2. Refilled(bucket[k]).until = bucket[k].until
      BY <3>1 DEF Refilled, Bucket
    <3>3. QED
      BY <2>1, <3>1, <3>2, RefilledWithin
  <2>2. CASE ~tracked
    <3>1. b = NewBucket /\ h = [n |-> 0, since |-> now, last |-> 0]
      BY <2>2 DEF NeverServed
    <3>2. Refill * (now - now) = 0
      OBVIOUS
    <3>3. NewBucket \in Bucket /\ [n |-> 0, since |-> now, last |-> 0] \in History
      BY DEF NewBucket, Bucket, History
    <3>4. Budgeted(NewBucket, [n |-> 0, since |-> now, last |-> 0])
      BY <3>2 DEF NewBucket, Budgeted, Later
    <3>5. QED
      BY <2>2, <3>1, <3>3, <3>4 DEF NewBucket
  <2>3. QED
    BY <2>1, <2>2
<1>6. after \in Bucket /\ then \in History /\ Budgeted(after, then)
  <2>1. CASE blocked
    <3>1. bucket[k] \in Bucket /\ served[k] \in History /\ Budgeted(bucket[k], served[k])
      BY DEF LimitInv, LimitType
    <3>2. QED
      BY <2>1, <3>1
  <2>2. CASE ~blocked /\ b.tokens >= 1
    <3> HIDE DEF b, h
    <3>1. after = [b EXCEPT !.tokens = b.tokens - 1]
      BY <2>2
    <3>2. then = [h EXCEPT !.n = h.n + 1, !.last = now]
      BY <2>2
    <3>3. after \in Bucket /\ then \in History
      <4>1. b.tokens - 1 \in Nat /\ h.n + 1 \in Nat
        BY <1>5, <2>2 DEF Bucket, History
      <4>2. ASSUME NEW x \in Nat
            PROVE  [b EXCEPT !.tokens = x] \in Bucket /\ [h EXCEPT !.n = x, !.last = now] \in History
        BY <1>5 DEF Bucket, History
      <4>3. QED
        BY <3>1, <3>2, <4>1, <4>2
    <3>4. /\ after.tokens = b.tokens - 1 /\ after.last = b.last /\ after.until = b.until
          /\ after.block = b.block /\ after.strikes = b.strikes
          /\ then.n = h.n + 1 /\ then.since = h.since /\ then.last = now
      BY <1>5, <3>1, <3>2 DEF Bucket, History
    <3>5. b.strikes > 0 => now >= b.until
      BY <1>5, <2>2 DEF Budgeted, Bucket, LimitInv, LimitType
    <3> HIDE DEF after, then
    <3>6. QED
      BY <1>5, <3>3, <3>4, <3>5 DEF Budgeted, Bucket, History
  <2>3. CASE ~blocked /\ ~(b.tokens >= 1) /\ BlockFor > 0
    <3> HIDE DEF b, h
    <3>1. after = NextBlock(b) /\ then = h
      BY <2>3
    <3>2. QED
      BY <1>5, <2>3, <3>1, NextBlockWithin
  <2>4. CASE ~blocked /\ ~(b.tokens >= 1) /\ ~(BlockFor > 0)
    BY <1>5, <2>4
  <2>5. QED
    BY <2>1, <2>2, <2>3, <2>4
<1> HIDE DEF after, then
<1>7. NoBucket \in Bucket /\ NeverServed \in History /\ Budgeted(NoBucket, NeverServed)
  <2>1. Refill * (0 - 0) = 0
    OBVIOUS
  <2>2. QED
    BY <2>1 DEF NoBucket, NeverServed, Bucket, History, Budgeted, Later
<1>8. LimitType'
  BY <1>2, <1>4, <1>6, <1>7 DEF LimitInv, LimitType
<1>9. \A j \in Key : Budgeted(bucket'[j], served'[j])
  BY <1>2, <1>6, <1>7 DEF LimitInv
<1>10. QED
  BY <1>4, <1>8, <1>9, <1>n DEF LimitInv, Budgeted

\* Budgets last while the clock runs.
LEMMA TickStep ==
    ASSUME now \in Nat, LimitInv, Tick
    PROVE  LimitInv'
BY DEF Tick, limitVars, LimitInv, LimitType, Budgeted, Bucket, History

----------------------------------------------------------------------------
(* The gates together.                                                     *)

EdgeInv == now \in Nat /\ LimitInv /\ StreamInv /\ LoginInv /\ MarkInv

\* The gates start in their invariant.
LEMMA EdgeStart == ASSUME EdgeInit PROVE EdgeInv
BY ClockStart, LimitStart, StreamStart, LoginStart, MarkStart DEF EdgeInv

\* What a part that does not move keeps.
LEMMA EdgeRests ==
    /\ LimitInv /\ UNCHANGED <<now, limitVars>> => LimitInv'
    /\ StreamInv /\ UNCHANGED streamVars => StreamInv'
    /\ LoginInv /\ UNCHANGED loginVars => LoginInv'
    /\ MarkInv /\ UNCHANGED markVars => MarkInv'
<1>1. LimitInv /\ UNCHANGED <<now, limitVars>> => LimitInv'
  BY DEF LimitInv, LimitType, limitVars, Budgeted
<1>2. StreamInv /\ UNCHANGED streamVars => StreamInv'
  BY DEF StreamInv, StreamType, OnePull, Pulls, Accounted, streamVars
<1>3. LoginInv /\ UNCHANGED loginVars => LoginInv'
  BY DEF LoginInv, LoginType, NoFailureCached, loginVars
<1>4. MarkInv /\ UNCHANGED markVars => MarkInv'
  BY DEF MarkInv, MarkType, markVars
<1>5. QED
  BY <1>1, <1>2, <1>3, <1>4

\* Every step of every gate keeps the invariant of all four.
LEMMA EdgeStep == ASSUME EdgeInv, [EdgeNext]_edgeVars PROVE EdgeInv'
<1> USE EdgeRests DEF EdgeInv
<1>1. now' \in Nat
  BY ClockStep
<1>2. CASE Tick
  <2>1. UNCHANGED <<streamVars, loginVars, markVars>>
    BY <1>2 DEF Tick
  <2>2. QED
    BY <1>1, <1>2, <2>1, TickStep
<1>3. CASE LimitNext
  BY <1>1, <1>3, LimitFrame, LimitStep
<1>4. CASE StreamNext
  BY <1>1, <1>4, StreamFrame, StreamTyped, StreamAlone, StreamAccounts DEF StreamInv
<1>5. CASE LoginNext
  BY <1>1, <1>5, LoginFrame, LoginStep
<1>6. CASE MarkNext
  BY <1>1, <1>6, MarkFrame, MarkStep
<1>7. CASE UNCHANGED edgeVars
  BY <1>1, <1>7 DEF edgeVars
<1>8. QED
  BY <1>2, <1>3, <1>4, <1>5, <1>6, <1>7 DEF EdgeNext

\* The gates' state is well formed in every reachable state.
THEOREM EdgeTypeCorrect == EdgeSpec => []EdgeTypeOK
<1>1. EdgeInit => EdgeInv
  BY EdgeStart
<1>2. EdgeInv /\ [EdgeNext]_edgeVars => EdgeInv'
  BY EdgeStep
<1>3. EdgeInv => EdgeTypeOK
  BY DEF EdgeInv, EdgeTypeOK, LimitInv, StreamInv, LoginInv, MarkInv
<1>4. QED
  BY <1>1, <1>2, <1>3, PTL DEF EdgeSpec

\* The limiter admits no more than the burst and the rate and nobody during a
\* block, the bouncer denies what the LAPI counted as told, and no failed
\* discovery stays cached (rateLimiter.allow, streamState, dataOIDC.client).
THEOREM GatesStayExact == EdgeSpec => []GatesExact
<1>1. EdgeInit => EdgeInv
  BY EdgeStart
<1>2. EdgeInv /\ [EdgeNext]_edgeVars => EdgeInv'
  BY EdgeStep
<1>3. EdgeInv => GatesExact
  <2> SUFFICES ASSUME EdgeInv PROVE GatesExact
    OBVIOUS
  <2>1. RateHeld
    <3>1. Len(order) <= MaxBuckets /\ ToSet(order) \subseteq Key
      BY DEF EdgeInv, LimitInv, LimitType, ToSet
    <3>2. ASSUME NEW k \in Key
          PROVE  /\ served[k].n <= Capacity + Refill * (now - served[k].since)
                 /\ bucket[k].strikes > 0 =>
                      \/ served[k].last <= bucket[k].until - bucket[k].block
                      \/ served[k].last >= bucket[k].until
                 /\ bucket[k].block <= Later(BlockFor, BlockMax)
      <4>1. /\ bucket[k] \in Bucket /\ served[k] \in History /\ now \in Nat
            /\ Budgeted(bucket[k], served[k])
        BY DEF EdgeInv, LimitInv, LimitType
      <4>2. /\ bucket[k].last - served[k].since \in Int /\ now - served[k].since \in Int
            /\ bucket[k].last - served[k].since <= now - served[k].since
        BY <4>1 DEF Budgeted, Bucket, History
      <4>3. Refill * (bucket[k].last - served[k].since) <= Refill * (now - served[k].since)
        BY <4>2, RefillGrows, EdgeAssumption
      <4>4. /\ Refill * (bucket[k].last - served[k].since) \in Int
            /\ Refill * (now - served[k].since) \in Int
        BY <4>2, EdgeAssumption
      <4>5. QED
        BY <4>1, <4>3, <4>4, EdgeAssumption DEF Budgeted, Bucket, History
    <3>3. QED
      BY <3>1, <3>2 DEF RateHeld
  <2>2. StreamExact
    BY DEF EdgeInv, StreamInv, Accounted, StreamExact
  <2>3. QED
    BY <2>1, <2>2 DEF EdgeInv, LoginInv, GatesExact
<1>4. QED
  BY <1>1, <1>2, <1>3, PTL DEF EdgeSpec

\* A session issued before an answered revocation stays refused, through
\* refreshes, failed writes and restarts (RevokeAllSSOSessions,
\* refreshSSOWatermark).
THEOREM RevocationsHold == EdgeSpec => []WatermarkHolds
<1>1. EdgeInit => EdgeInv
  BY EdgeStart
<1>2. EdgeInv /\ [EdgeNext]_edgeVars => EdgeInv'
  BY EdgeStep
<1>3. EdgeInv => WatermarkHolds
  BY DEF EdgeInv, MarkInv, MarkType, WatermarkHolds, RevokedAt
<1>4. QED
  BY <1>1, <1>2, <1>3, PTL DEF EdgeSpec

=============================================================================
