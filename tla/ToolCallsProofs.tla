-------------------------- MODULE ToolCallsProofs --------------------------
(***************************************************************************)
(* Proofs about ToolCalls, for any number of calls, subjects and queries,  *)
(* any rate, any size and time to live of the cache.                       *)
(*                                                                         *)
(* The bound on what a subject is granted is not inductive: Accounted      *)
(* counts, with what was granted, what is still in the bucket, and says    *)
(* what is left of the account when the bucket is dropped.                 *)
(* The count of the cache needs what put's loop evicts: the first count    *)
(* that leaves room, as the sums of the sizes grow along the entries.      *)
(***************************************************************************)
EXTENDS ToolCalls, FiniteSetTheorems, SequenceTheorems, WellFoundedInduction, TLAPS

LimiterOK ==
  /\ now \in Nat /\ opened \in 0..now /\ lastCleanup \in 0..now
  /\ known \subseteq Subjects
  /\ buckets \in [Subjects -> Bucket]
  /\ granted \in [Subjects -> Nat]
  /\ promise \in [Subjects -> Nat]

CallsOK == calls \in [Calls -> {Idle} \cup Call]

Accounted(s) ==
  LET b == buckets[s]
  IN  /\ b.last <= now
      /\ s \notin known => granted[s] * Token <= (now - opened) * RequestsPerMinute
      /\ s \in known /\ b.last >= opened =>
           granted[s] * Token + b.units <= Capacity * Token + (b.last - opened) * RequestsPerMinute
      /\ s \in known /\ b.last < opened => granted[s] = 0

(* From 60 requests a minute on, a refusal announces one second. *)
Promised(s) ==
  RequestsPerMinute >= 60 => promise[s] = 0 \/ promise[s] = buckets[s].last + 1

RateInv ==
  /\ LimiterOK /\ CallsOK
  /\ \A s \in Subjects : Accounted(s) /\ Promised(s)

-----------------------------------------------------------------------------
(* Buckets *)

(* The burst is a number; from 60 requests a minute on it is two at least. *)
LEMMA CapacityType == Capacity \in Nat /\ (RequestsPerMinute >= 60 => Capacity >= 2)
  BY BucketAssumption DEF Capacity

(* A refill adds at most the rate, never overfills and never takes away; with
   60 requests a minute, a second is enough for a token. *)
LEMMA RefilledType ==
  ASSUME NEW b \in Bucket, NEW t \in Nat, b.last <= t
  PROVE  /\ Refilled(b, t) \in Bucket
         /\ Refilled(b, t).last = t
         /\ Refilled(b, t).units <= b.units + (t - b.last) * RequestsPerMinute
         /\ RequestsPerMinute >= 60 /\ t > b.last => CanTake(Refilled(b, t))
  <1>. DEFINE refill == (t - b.last) * RequestsPerMinute
  <1>1. /\ RequestsPerMinute \in Nat /\ Capacity \in Nat /\ t - b.last \in Nat
        /\ b.units \in 0..(Capacity * Token) /\ Capacity * Token \in Nat
        /\ b.last \in Nat
    BY BucketAssumption, CapacityType DEF Bucket, Token
  <1>2. refill \in Nat
    BY <1>1
  <1>3. RequestsPerMinute >= 60 /\ t > b.last => refill >= 60
    <2>1. \A m, n \in Nat : m >= 1 /\ n >= 60 => m * n >= 60
      OBVIOUS
    <2>2. t > b.last => t - b.last >= 1
      BY <1>1
    <2>. QED
      BY <1>1, <2>1, <2>2
  <1>4. Refilled(b, t) = [units |-> Lesser(Capacity * Token, b.units + refill), last |-> t]
    BY DEF Refilled
  <1>. HIDE DEF refill
  <1>5. /\ Lesser(Capacity * Token, b.units + refill) \in 0..(Capacity * Token)
        /\ Lesser(Capacity * Token, b.units + refill) <= b.units + refill
        /\ RequestsPerMinute >= 60 /\ t > b.last
             => Lesser(Capacity * Token, b.units + refill) >= Token
    BY <1>1, <1>2, <1>3, CapacityType DEF Lesser, Token
  <1>. QED
    BY <1>4, <1>5 DEF refill, Bucket, CanTake

(* A new bucket is full, and a refill changes nothing of it.               *)
LEMMA FullBucketType ==
  ASSUME NEW t \in Nat
  PROVE  /\ FullBucket(t) \in Bucket /\ FullBucket(t).last = t
         /\ FullBucket(t).units = Capacity * Token
         /\ Refilled(FullBucket(t), t) = FullBucket(t)
  <1>1. RequestsPerMinute \in Nat /\ Capacity * Token \in Nat
    BY BucketAssumption, CapacityType DEF Token
  <1>2. (t - t) * RequestsPerMinute = 0
    BY <1>1
  <1>3. Lesser(Capacity * Token, Capacity * Token + 0) = Capacity * Token
    BY <1>1 DEF Lesser
  <1>. QED
    BY <1>1, <1>2, <1>3 DEF FullBucket, Bucket, Refilled

(* What a refill adds is what the time since the last one adds. *)
LEMMA RefillAccount ==
  ASSUME NEW g \in Nat, NEW u \in Nat, NEW l \in Nat, NEW t \in Nat, NEW o \in Nat,
         NEW c \in Nat, NEW r \in Nat,
         o <= l, l <= t, g * Token + u <= c * Token + (l - o) * r
  PROVE  g * Token + (u + (t - l) * r) <= c * Token + (t - o) * r
  <1>1. (l - o) * r + (t - l) * r = (t - o) * r
    OBVIOUS
  <1>2. (l - o) * r \in Int /\ (t - l) * r \in Int /\ (t - o) * r \in Int
    OBVIOUS
  <1>. QED
    BY <1>1, <1>2 DEF Token

(* More time refills no less.                                              *)
LEMMA MoreTime ==
  ASSUME NEW m \in Int, NEW n \in Int, m <= n, NEW r \in Nat
  PROVE  m * r <= n * r /\ m * r \in Int /\ n * r \in Int
  OBVIOUS

-----------------------------------------------------------------------------
(* The limiter *)

(* Only a full bucket is dropped. *)
LEMMA DroppedIsFull ==
  ASSUME LimiterOK
  PROVE  /\ Known \subseteq known
         /\ \A s \in known \ Known : buckets[s].units = Capacity * Token
  <1>1. Known \subseteq known
    BY DEF Known
  <1>2. ASSUME NEW s \in known \ Known PROVE buckets[s].units = Capacity * Token
    <2>1. buckets[s] \in Bucket /\ ~(AvailableTokens(buckets[s]) < Capacity)
      BY <1>2 DEF LimiterOK, Known
    <2>2. /\ buckets[s].units \in 0..(Capacity * Token) /\ Capacity \in Nat
          /\ ~(buckets[s].units \div 60 < Capacity)
      BY <2>1, CapacityType DEF Bucket, AvailableTokens, Token
    <2>. QED
      BY <2>2 DEF Token
  <1>. QED
    BY <1>1, <1>2

(* Without a bucket, time alone has paid for what was granted. *)
LEMMA DroppedIsPaid ==
  ASSUME RateInv, NEW s \in Subjects, s \notin Known
  PROVE  granted[s] * Token <= (now - opened) * RequestsPerMinute
  <1>1. /\ now \in Nat /\ opened \in Nat /\ opened <= now /\ granted[s] \in Nat
        /\ buckets[s].last <= now /\ buckets[s].last \in Nat
        /\ RequestsPerMinute \in Nat /\ Capacity \in Nat
        /\ Accounted(s)
    BY BucketAssumption, CapacityType DEF RateInv, LimiterOK, Accounted, Bucket
  <1>2. (now - opened) * RequestsPerMinute \in Nat
    BY <1>1
  <1>3. CASE s \notin known
    BY <1>1, <1>3 DEF Accounted
  <1>4. CASE s \in known /\ buckets[s].last < opened
    BY <1>1, <1>2, <1>4 DEF Accounted, Token
  <1>5. CASE s \in known /\ buckets[s].last >= opened
    <2>1. buckets[s].units = Capacity * Token
      BY <1>5, DroppedIsFull DEF RateInv
    <2>2. (buckets[s].last - opened) * RequestsPerMinute \in Int
      BY <1>1
    <2>3. granted[s] * Token <= (buckets[s].last - opened) * RequestsPerMinute
      <3>1. granted[s] * Token + buckets[s].units
              <= Capacity * Token + (buckets[s].last - opened) * RequestsPerMinute
        BY <1>1, <1>5 DEF Accounted
      <3>. QED
        BY <1>1, <2>1, <2>2, <3>1 DEF Token
    <2>4. (buckets[s].last - opened) * RequestsPerMinute <= (now - opened) * RequestsPerMinute
      BY <1>1, MoreTime
    <2>. QED
      BY <1>1, <1>2, <2>2, <2>3, <2>4 DEF Token
  <1>. QED
    BY <1>1, <1>3, <1>4, <1>5

(* The bucket a check looks at keeps to the account of its subject, and if it
   has no token, it has been looked at in the same second. *)
LEMMA CurrentOK ==
  ASSUME RateInv, NEW s \in Subjects
  PROVE  /\ Current(s) \in Bucket /\ Current(s).last = now
         /\ granted[s] * Token + Current(s).units
              <= Capacity * Token + (now - opened) * RequestsPerMinute
         /\ RequestsPerMinute >= 60 /\ ~CanTake(Current(s)) => buckets[s].last = now
  <1>1. /\ now \in Nat /\ opened \in Nat /\ opened <= now /\ granted[s] \in Nat
        /\ buckets[s] \in Bucket /\ buckets[s].last <= now /\ buckets[s].last \in Nat
        /\ RequestsPerMinute \in Nat /\ Capacity \in Nat
        /\ buckets[s].units \in 0..(Capacity * Token)
        /\ Accounted(s)
    BY BucketAssumption, CapacityType DEF RateInv, LimiterOK, Accounted, Bucket
  <1>2. (now - opened) * RequestsPerMinute \in Nat
    BY <1>1
  <1>3. CASE s \in Known
    <2>1. s \in known
      BY <1>3, DroppedIsFull DEF RateInv
    <2>2. Current(s) = Refilled(buckets[s], now)
      BY <1>3 DEF Current
    <2>3. /\ Current(s) \in Bucket /\ Current(s).last = now
          /\ Current(s).units <= buckets[s].units + (now - buckets[s].last) * RequestsPerMinute
          /\ RequestsPerMinute >= 60 /\ now > buckets[s].last => CanTake(Current(s))
      BY <1>1, <2>2, RefilledType
    <2>4. Current(s).units \in 0..(Capacity * Token)
      BY <2>3 DEF Bucket
    <2>7. RequestsPerMinute >= 60 /\ ~CanTake(Current(s)) => buckets[s].last = now
      <3>1. ASSUME RequestsPerMinute >= 60, ~CanTake(Current(s)) PROVE ~(now > buckets[s].last)
        BY <2>3, <3>1, Zenon
      <3>2. ~(now > buckets[s].last) => buckets[s].last = now
        BY <1>1
      <3>. QED
        BY <3>1, <3>2, Zenon
    <2>5. CASE buckets[s].last >= opened
      <3>1. granted[s] * Token + (buckets[s].units + (now - buckets[s].last) * RequestsPerMinute)
              <= Capacity * Token + (now - opened) * RequestsPerMinute
        <4>1. granted[s] * Token + buckets[s].units
                <= Capacity * Token + (buckets[s].last - opened) * RequestsPerMinute
          BY <1>1, <2>1, <2>5 DEF Accounted
        <4>2. buckets[s].units \in Nat
          BY <1>1, CapacityType DEF Token
        <4>. HIDE DEF Accounted
        <4>. QED
          BY <1>1, <2>5, <4>1, <4>2, RefillAccount
      <3>2. /\ (now - buckets[s].last) * RequestsPerMinute \in Int
            /\ granted[s] * Token \in Nat /\ Capacity * Token \in Nat
        BY <1>1 DEF Token
      <3>. HIDE DEF Accounted
      <3>3. granted[s] * Token + Current(s).units
              <= Capacity * Token + (now - opened) * RequestsPerMinute
        BY <1>1, <1>2, <2>3, <2>4, <3>1, <3>2
      <3>. QED
        BY <2>3, <2>7, <3>3
    <2>6. CASE buckets[s].last < opened
      <3>1. granted[s] = 0
        BY <1>1, <2>1, <2>6 DEF Accounted
      <3>2. 0 * Token + Current(s).units <= Capacity * Token + (now - opened) * RequestsPerMinute
        BY <1>1, <1>2, <2>4 DEF Token
      <3>. QED
        BY <2>3, <2>7, <3>1, <3>2
    <2>. QED
      BY <1>1, <2>5, <2>6
  <1>4. CASE s \notin Known
    <2>1. Current(s) = FullBucket(now)
      BY <1>1, <1>4, FullBucketType DEF Current
    <2>2. granted[s] * Token <= (now - opened) * RequestsPerMinute
      BY <1>4, DroppedIsPaid
    <2>3. RequestsPerMinute >= 60 => CanTake(FullBucket(now))
      BY <1>1, CapacityType, FullBucketType DEF CanTake, Token
    <2>. QED
      BY <1>1, <1>2, <2>1, <2>2, <2>3, FullBucketType DEF Token
  <1>. QED
    BY <1>3, <1>4

(* A check keeps every account and every promise. *)
LEMMA CheckKeeps ==
  ASSUME RateInv, NEW s \in Subjects, NEW allowed \in BOOLEAN, Check(s, allowed),
         now' = now, opened' = opened
  PROVE  LimiterOK' /\ \A r \in Subjects : Accounted(r)' /\ Promised(r)'
  <1>. DEFINE b == Current(s)
              left == IF allowed THEN Taken(b) ELSE b
  <1>1. /\ now \in Nat /\ opened \in Nat /\ opened <= now /\ lastCleanup \in 0..now
        /\ known \subseteq Subjects /\ buckets \in [Subjects -> Bucket]
        /\ granted \in [Subjects -> Nat] /\ promise \in [Subjects -> Nat]
    BY DEF RateInv, LimiterOK
  <1>2. RequestsPerMinute \in Nat /\ Capacity \in Nat /\ Capacity * Token \in Nat
    BY BucketAssumption, CapacityType DEF Token
  <1>3. /\ allowed = CanTake(b)
        /\ known' = Known \cup {s}
        /\ lastCleanup' = IF now - lastCleanup >= CleanupInterval THEN now ELSE lastCleanup
        /\ buckets' = [buckets EXCEPT ![s] = left]
        /\ granted' = IF allowed THEN [granted EXCEPT ![s] = @ + 1] ELSE granted
        /\ promise' = [promise EXCEPT ![s] = IF allowed THEN 0
                                             ELSE IF @ = 0 THEN now + RetryAfter(b) ELSE @]
    BY DEF Check
  <1>4. /\ b \in Bucket /\ b.last = now
        /\ granted[s] * Token + b.units <= Capacity * Token + (now - opened) * RequestsPerMinute
        /\ RequestsPerMinute >= 60 /\ ~CanTake(b) => buckets[s].last = now
    BY CurrentOK
  <1>. HIDE DEF b
  <1>5. b.units \in 0..(Capacity * Token)
    BY <1>4 DEF Bucket
  <1>6. /\ left \in Bucket /\ left.last = now
        /\ granted'[s] \in Nat
        /\ granted'[s] * Token + left.units
             <= Capacity * Token + (now - opened) * RequestsPerMinute
    <2>1. CASE allowed
      <3>1. b.units >= Token
        BY <1>3, <2>1 DEF CanTake
      <3>2. left = [b EXCEPT !.units = @ - Token] /\ granted'[s] = granted[s] + 1
        BY <1>1, <1>3, <2>1 DEF Taken
      <3>3. left \in Bucket /\ left.last = now /\ left.units = b.units - Token
        BY <1>2, <1>4, <1>5, <3>1, <3>2 DEF Bucket, Token
      <3>4. (granted[s] + 1) * Token + (b.units - Token) = granted[s] * Token + b.units
        BY <1>1, <1>2, <1>5 DEF Token
      <3>. QED
        BY <1>1, <1>4, <3>2, <3>3, <3>4
    <2>2. CASE ~allowed
      BY <1>1, <1>3, <1>4, <2>2
    <2>. QED
      BY <2>1, <2>2
  <1>. HIDE DEF left
  <1>7. RequestsPerMinute >= 60 /\ ~allowed => promise'[s] = now + 1
    <2>. SUFFICES ASSUME RequestsPerMinute >= 60, ~allowed PROVE promise'[s] = now + 1
      OBVIOUS
    <2>1. ~CanTake(b) /\ buckets[s].last = now
      BY <1>3, <1>4
    <2>2. RetryAfter(b) = 1
      <3>1. b.units < 60 /\ b.units \in Nat
        BY <1>2, <1>5, <2>1 DEF CanTake, Token
      <3>2. AvailableTokens(b) = 0
        BY <3>1 DEF AvailableTokens, Token
      <3>3. 60 \div RequestsPerMinute \in {0, 1}
        BY <1>2
      <3>4. ((1 - AvailableTokens(b)) * Token) \div RequestsPerMinute \in {0, 1}
        BY <3>2, <3>3 DEF Token
      <3>. QED
        BY <3>2, <3>4 DEF RetryAfter, Greater
    <2>3. promise[s] = 0 \/ promise[s] = now + 1
      BY <2>1 DEF RateInv, Promised
    <2>. QED
      BY <1>1, <1>3, <2>2, <2>3
  <1>8. RetryAfter(b) \in Nat
    <2>1. AvailableTokens(b) \in Nat
      BY <1>2, <1>5 DEF AvailableTokens, Token
    <2>2. AvailableTokens(b) < 1 => ((1 - AvailableTokens(b)) * Token) \div RequestsPerMinute \in Int
      BY <1>2, <2>1, BucketAssumption DEF Token
    <2>. QED
      BY <2>1, <2>2 DEF RetryAfter, Greater
  <1>9. LimiterOK'
    <2>1. known' \subseteq Subjects
      BY <1>1, <1>3, DroppedIsFull DEF RateInv
    <2>2. buckets' \in [Subjects -> Bucket]
      BY <1>1, <1>3, <1>6
    <2>3. granted' \in [Subjects -> Nat]
      BY <1>1, <1>3
    <2>4. promise' \in [Subjects -> Nat]
      BY <1>1, <1>3, <1>8
    <2>5. lastCleanup' \in 0..now
      BY <1>1, <1>3
    <2>. QED
      BY <1>1, <2>1, <2>2, <2>3, <2>4, <2>5 DEF LimiterOK, Bucket
  <1>10. ASSUME NEW r \in Subjects PROVE Accounted(r)' /\ Promised(r)'
    <2>1. CASE r = s
      <3>1. s \in known' /\ buckets'[s] = left
        BY <1>1, <1>3
      <3>2. Accounted(s)'
        BY <1>1, <1>6, <3>1 DEF Accounted
      <3>3. Promised(s)'
        <4>1. allowed => promise'[s] = 0
          BY <1>1, <1>3
        <4>. QED
          BY <1>6, <1>7, <3>1, <4>1 DEF Promised
      <3>. QED
        BY <2>1, <3>2, <3>3
    <2>2. CASE r # s
      <3>1. /\ buckets'[r] = buckets[r] /\ granted'[r] = granted[r] /\ promise'[r] = promise[r]
            /\ r \in known' <=> r \in Known
        BY <1>1, <1>3, <2>2
      <3>2. /\ Accounted(r) /\ Promised(r) /\ Known \subseteq known
            /\ buckets[r].last \in Nat /\ buckets[r].last <= now /\ granted[r] \in Nat
            /\ buckets[r].units \in Nat
        BY <1>1, <1>2, DroppedIsFull DEF RateInv, Bucket, Accounted
      <3>3. CASE r \in Known \/ r \notin known
        BY <3>1, <3>2, <3>3 DEF Accounted, Promised
      <3>4. CASE r \in known \ Known
        <4>1. granted[r] * Token <= (now - opened) * RequestsPerMinute
          BY <3>2, <3>4, DroppedIsPaid
        <4>. QED
          BY <1>1, <3>1, <3>2, <3>4, <4>1 DEF Accounted, Promised
      <3>. QED
        BY <3>3, <3>4
    <2>. QED
      BY <2>1, <2>2
  <1>. QED
    BY <1>9, <1>10

-----------------------------------------------------------------------------
(* The calls *)

(* A call that is under way has the fields of one.                         *)
LEMMA AtType == ASSUME CallsOK, NEW c \in Calls, calls[c].pc # "idle" PROVE calls[c] \in Call
  BY DEF CallsOK, Idle

(* Every step keeps the types of the calls.                                *)
LEMMA StepsKeepCalls ==
  ASSUME LimiterOK, CallsOK, index \in 0..MaxVersion, [Next]_vars
  PROVE  CallsOK'
  <1>1. ASSUME NEW c \in Calls, NEW call \in {Idle} \cup Call, calls' = [calls EXCEPT ![c] = call]
        PROVE  CallsOK'
    BY <1>1 DEF CallsOK
  <1>2. ASSUME NEW c \in Calls, Leave(c) PROVE CallsOK'
    BY <1>1, <1>2 DEF Leave
  <1>3. ASSUME NEW c \in Calls, calls[c].pc # "idle",
               NEW pc \in {"dispatched", "routing", "embedding", "searching", "found"},
               Advance(c, pc)
        PROVE  CallsOK'
    <2>1. calls[c] \in Call
      BY <1>3, AtType
    <2>2. [calls[c] EXCEPT !.pc = pc] \in Call
      BY <1>3, <2>1 DEF Call
    <2>3. calls' = [calls EXCEPT ![c] = [calls[c] EXCEPT !.pc = pc]]
      BY <1>3 DEF Advance
    <2>. QED
      BY <1>1, <2>2, <2>3
  <1>4. ASSUME NEW c \in Calls, NEW s \in Subjects, NEW q \in Queries, Begin(c, s, q)
        PROVE  CallsOK'
    <2>1. [pc |-> "dispatched", subject |-> s, query |-> q, version |-> 0] \in Call
      BY ToolCallsAssumption DEF Call
    <2>. QED
      BY <1>1, <1>4, <2>1 DEF Begin
  <1>5. ASSUME NEW c \in Calls, NEW s \in Subjects, NEW q \in Queries, Request(c, s, q)
        PROVE  CallsOK'
    BY <1>4, <1>5 DEF Request, CallsOK
  <1>6. ASSUME NEW c \in Calls, NEW s \in Subjects, NEW q \in Queries, Read(c, s, q)
        PROVE  CallsOK'
    BY <1>4, <1>6 DEF Read
  <1>7. ASSUME NEW c \in Calls, CallTool(c) PROVE CallsOK'
    BY <1>2, <1>3, <1>7 DEF CallTool, At
  <1>8. ASSUME NEW c \in Calls, CallFails(c) \/ CacheHit(c) \/ Answer(c) PROVE CallsOK'
    BY <1>2, <1>8 DEF CallFails, CacheHit, Answer
  <1>9. ASSUME NEW c \in Calls, CacheMiss(c) \/ Embedded(c) PROVE CallsOK'
    BY <1>3, <1>9 DEF CacheMiss, Embedded, At
  <1>10. ASSUME NEW c \in Calls, Search(c) PROVE CallsOK'
    <2>1. calls[c] \in Call
      BY <1>10, AtType DEF Search, At
    <2>2. [calls[c] EXCEPT !.pc = "found", !.version = index] \in Call
      BY <2>1 DEF Call
    <2>3. calls' = [calls EXCEPT ![c] = [calls[c] EXCEPT !.pc = "found", !.version = index]]
      BY <1>10, <2>1 DEF Search, Call
    <2>. QED
      BY <1>1, <2>2, <2>3
  <1>11. CASE IndexChanges \/ Tick \/ Observe \/ UNCHANGED vars
    BY <1>11 DEF IndexChanges, Tick, Observe, vars, CallsOK
  <1>. QED
    BY <1>5, <1>6, <1>7, <1>8, <1>9, <1>10, <1>11 DEF Next

(* The rate, and the promise, as invariants *)
LEMMA RateInit == Init => RateInv
  <1>. SUFFICES ASSUME Init PROVE RateInv
    OBVIOUS
  <1>1. LimiterOK /\ CallsOK
    BY FullBucketType DEF Init, LimiterOK, CallsOK
  <1>2. ASSUME NEW s \in Subjects PROVE Accounted(s) /\ Promised(s)
    <2>1. buckets[s].last = 0 /\ granted[s] = 0 /\ promise[s] = 0 /\ s \notin known
      BY FullBucketType DEF Init
    <2>2. now = 0 /\ opened = 0 /\ (0 - 0) * RequestsPerMinute = 0
      BY BucketAssumption DEF Init
    <2>. QED
      BY <2>1, <2>2 DEF Accounted, Promised, Token
  <1>. QED
    BY <1>1, <1>2 DEF RateInv

(* Every step keeps the accounts of all subjects and the waits promised to *)
(* them.                                                                   *)
LEMMA RateStep ==
  ASSUME RateInv, index \in 0..MaxVersion, [Next]_vars
  PROVE  RateInv'
  <1>1. CallsOK'
    BY StepsKeepCalls DEF RateInv
  <1>. SUFFICES LimiterOK' /\ \A s \in Subjects : Accounted(s)' /\ Promised(s)'
    BY <1>1 DEF RateInv
  <1>2. ASSUME NEW c \in Calls, NEW s \in Subjects, NEW q \in Queries, Request(c, s, q)
        PROVE  LimiterOK' /\ \A r \in Subjects : Accounted(r)' /\ Promised(r)'
    BY <1>2, CheckKeeps DEF Request
  <1>3. ASSUME NEW c \in Calls, CallTool(c)
        PROVE  LimiterOK' /\ \A r \in Subjects : Accounted(r)' /\ Promised(r)'
    <2>1. calls[c].subject \in Subjects
      BY <1>3, AtType DEF CallTool, At, Call, RateInv
    <2>. QED
      BY <1>3, <2>1, CheckKeeps DEF CallTool
  <1>4. CASE UNCHANGED <<limiter, now, opened>>
    BY <1>4 DEF limiter, RateInv, LimiterOK, Accounted, Promised
  <1>5. CASE Tick
    <2>1. /\ now' = now + 1 /\ opened' = opened
          /\ UNCHANGED <<known, buckets, lastCleanup, granted, promise>>
      BY <1>5 DEF Tick, limiter
    <2>2. LimiterOK'
      BY <2>1 DEF RateInv, LimiterOK
    <2>3. ASSUME NEW s \in Subjects PROVE Accounted(s)' /\ Promised(s)'
      <3>1. /\ now \in Nat /\ opened \in Nat /\ opened <= now /\ granted[s] \in Nat
            /\ buckets[s].last <= now /\ buckets[s].last \in Nat
            /\ RequestsPerMinute \in Nat /\ Accounted(s) /\ Promised(s)
        BY BucketAssumption DEF RateInv, LimiterOK, Accounted, Bucket
      <3>2. /\ (now - opened) * RequestsPerMinute <= ((now + 1) - opened) * RequestsPerMinute
            /\ (now - opened) * RequestsPerMinute \in Int
            /\ ((now + 1) - opened) * RequestsPerMinute \in Int
        BY <3>1, MoreTime
      <3>. QED
        BY <2>1, <3>1, <3>2 DEF Accounted, Promised, Token
    <2>. QED
      BY <2>2, <2>3
  <1>6. CASE Observe
    <2>1. /\ opened' = now /\ now' = now /\ granted' = [s \in Subjects |-> 0]
          /\ UNCHANGED <<known, buckets, lastCleanup, promise>>
      BY <1>6 DEF Observe
    <2>2. LimiterOK'
      BY <2>1 DEF RateInv, LimiterOK
    <2>3. ASSUME NEW s \in Subjects PROVE Accounted(s)' /\ Promised(s)'
      <3>1. /\ now \in Nat /\ buckets[s] \in Bucket /\ buckets[s].last <= now
            /\ buckets[s].units \in 0..(Capacity * Token) /\ buckets[s].last \in Nat
            /\ granted'[s] = 0 /\ Promised(s) /\ Capacity \in Nat /\ RequestsPerMinute \in Nat
        BY <2>1, BucketAssumption, CapacityType DEF RateInv, LimiterOK, Accounted, Bucket
      <3>2. (now - now) * RequestsPerMinute = 0
        BY <3>1
      <3>3. Accounted(s)'
        <4>1. 0 * Token = 0 /\ 0 + buckets[s].units <= Capacity * Token + 0
          BY <3>1 DEF Token
        <4>2. buckets[s].last >= now => (buckets[s].last - now) * RequestsPerMinute = 0
          BY <3>1, <3>2
        <4>. QED
          BY <2>1, <3>1, <3>2, <4>1, <4>2 DEF Accounted
      <3>. QED
        BY <2>1, <3>1, <3>3 DEF Promised
    <2>. QED
      BY <2>2, <2>3
  <1>. QED
    BY <1>2, <1>3, <1>4, <1>5, <1>6
       DEF Next, Read, CallFails, CacheHit, CacheMiss, Embedded, Search, Answer, IndexChanges, vars, limiter

-----------------------------------------------------------------------------
(* The cache *)

Distinct(es) == \A i, j \in 1..Len(es) : es[i].key = es[j].key => i = j

(* r holds entries of es only, each key once. *)
KeptOf(r, es) ==
  /\ r \in Seq(CacheEntry) /\ Distinct(r)
  /\ \A i \in 1..Len(r) : \E j \in 1..Len(es) : r[i] = es[j]

(* A key of the table is at its place.                                     *)
LEMMA PlaceOK ==
  ASSUME NEW es \in Seq(CacheEntry), NEW key \in KeysOf(es)
  PROVE  Place(es, key) \in 1..Len(es) /\ es[Place(es, key)].key = key
  <1>1. \E i \in DOMAIN es : es[i].key = key
    BY DEF KeysOf
  <1>2. DOMAIN es = 1..Len(es)
    BY LenProperties
  <1>. QED
    BY <1>1, <1>2 DEF Place

(* What remains of a sequence without its element p. *)
LEMMA CutOut ==
  ASSUME NEW es \in Seq(CacheEntry), NEW p \in 1..Len(es), NEW r,
         r = SubSeq(es, 1, p - 1) \o SubSeq(es, p + 1, Len(es))
  PROVE  /\ r \in Seq(CacheEntry) /\ Len(r) = Len(es) - 1
         /\ \A i \in 1..(Len(es) - 1) : r[i] = IF i < p THEN es[i] ELSE es[i + 1]
  <1>0. Len(es) \in Nat /\ p \in Int
    BY LenProperties
  <1>1. PICK s1 : s1 = SubSeq(es, 1, p - 1)
    OBVIOUS
  <1>2. PICK s2 : s2 = SubSeq(es, p + 1, Len(es))
    OBVIOUS
  <1>3. s1 \in Seq(CacheEntry) /\ Len(s1) = p - 1 /\ \A i \in 1..(p - 1) : s1[i] = es[i]
    BY <1>0, <1>1, SubSeqProperties
  <1>4. s2 \in Seq(CacheEntry) /\ Len(s2) = Len(es) - p
        /\ \A i \in 1..(Len(es) - p) : s2[i] = es[p + i]
    <2>1. \A i \in (p + 1)..Len(es) : es[i] \in CacheEntry
      BY <1>0
    <2>2. /\ s2 \in Seq(CacheEntry)
          /\ Len(s2) = IF p + 1 <= Len(es) THEN Len(es) - (p + 1) + 1 ELSE 0
          /\ \A i \in 1..(Len(es) - (p + 1) + 1) : s2[i] = es[(p + 1) + i - 1]
      BY <1>0, <1>2, <2>1, SubSeqProperties
    <2>3. Len(s2) = Len(es) - p
      BY <1>0, <2>2
    <2>4. ASSUME NEW i \in 1..(Len(es) - p) PROVE s2[i] = es[p + i]
      <3>1. (p + 1) + i - 1 = p + i /\ i \in 1..(Len(es) - (p + 1) + 1)
        BY <1>0
      <3>. QED
        BY <2>2, <3>1
    <2>. QED
      BY <2>2, <2>3, <2>4
  <1>5. /\ r \in Seq(CacheEntry) /\ Len(r) = Len(s1) + Len(s2)
        /\ \A i \in 1..(Len(s1) + Len(s2)) :
             r[i] = IF i <= Len(s1) THEN s1[i] ELSE s2[i - Len(s1)]
    <2>1. r = s1 \o s2
      BY <1>1, <1>2
    <2>2. s1 \in Seq(CacheEntry) /\ s2 \in Seq(CacheEntry)
      BY <1>3, <1>4
    <2>3. (s1 \o s2) \in Seq(CacheEntry)
      BY <2>2
    <2>4. Len(s1 \o s2) = Len(s1) + Len(s2)
      BY <2>2, ConcatProperties
    <2>5. \A i \in 1..(Len(s1) + Len(s2)) :
             (s1 \o s2)[i] = IF i <= Len(s1) THEN s1[i] ELSE s2[i - Len(s1)]
      BY <2>2, ConcatProperties
    <2>. QED
      BY <2>1, <2>3, <2>4, <2>5, Zenon
  <1>6. Len(s1) + Len(s2) = Len(es) - 1
    BY <1>0, <1>3, <1>4
  <1>7. ASSUME NEW i \in 1..(Len(es) - 1), i < p PROVE r[i] = es[i]
    <2>1. i <= Len(s1) /\ i \in 1..(p - 1) /\ i \in 1..(Len(s1) + Len(s2))
      BY <1>0, <1>3, <1>6, <1>7
    <2>. QED
      BY <1>3, <1>5, <2>1
  <1>8. ASSUME NEW i \in 1..(Len(es) - 1), ~(i < p) PROVE r[i] = es[i + 1]
    <2>1. /\ ~(i <= Len(s1)) /\ i \in 1..(Len(s1) + Len(s2))
          /\ i - Len(s1) \in 1..(Len(es) - p) /\ p + (i - Len(s1)) = i + 1
      BY <1>0, <1>3, <1>6, <1>8
    <2>2. s2[i - Len(s1)] = es[p + (i - Len(s1))]
      BY <1>4, <2>1
    <2>. QED
      BY <1>5, <2>1, <2>2
  <1>. QED
    BY <1>5, <1>6, <1>7, <1>8

(* An eviction removes the entry and nothing else. *)
LEMMA WithoutKeeps ==
  ASSUME NEW es \in Seq(CacheEntry), Distinct(es), NEW key
  PROVE  KeptOf(Without(es, key), es) /\ key \notin KeysOf(Without(es, key))
  <1>0. Len(es) \in Nat /\ DOMAIN es = 1..Len(es)
    BY LenProperties
  <1>1. CASE key \notin KeysOf(es)
    <2>1. Without(es, key) = es
      BY <1>1 DEF Without
    <2>. QED
      BY <1>1, <2>1 DEF KeptOf
  <1>2. CASE key \in KeysOf(es)
    <2>. DEFINE p == Place(es, key)
                r == SubSeq(es, 1, p - 1) \o SubSeq(es, p + 1, Len(es))
    <2>1. p \in 1..Len(es) /\ es[p].key = key
      BY <1>2, PlaceOK
    <2>2. Without(es, key) = r
      BY <1>2 DEF Without
    <2>. HIDE DEF p
    <2>5. /\ r \in Seq(CacheEntry) /\ Len(r) = Len(es) - 1
          /\ \A i \in 1..(Len(es) - 1) : r[i] = IF i < p THEN es[i] ELSE es[i + 1]
      BY <2>1, CutOut
    <2>. HIDE DEF r
    <2>6. Distinct(r)
      BY <1>0, <2>1, <2>5 DEF Distinct
    <2>7. \A i \in 1..Len(r) : \E j \in 1..Len(es) : r[i] = es[j] /\ j # p
      BY <1>0, <2>1, <2>5
    <2>8. key \notin KeysOf(r)
      <3>1. DOMAIN r = 1..Len(r)
        BY <2>5, LenProperties
      <3>. QED
        BY <1>0, <2>1, <2>7, <3>1 DEF KeysOf, Distinct
    <2>. QED
      BY <2>2, <2>5, <2>6, <2>7, <2>8 DEF KeptOf
  <1>. QED
    BY <1>1, <1>2

(* Dropping the least recently used entries keeps the others as they are.  *)
LEMMA SuffixKeeps ==
  ASSUME NEW es \in Seq(CacheEntry), Distinct(es), NEW n \in 0..Len(es)
  PROVE  KeptOf(SubSeq(es, n + 1, Len(es)), es)
  <1>. DEFINE r == SubSeq(es, n + 1, Len(es))
  <1>0. Len(es) \in Nat
    BY LenProperties
  <1>1. /\ r \in Seq(CacheEntry) /\ Len(r) = Len(es) - n
        /\ \A i \in 1..(Len(es) - n) : r[i] = es[n + i]
    BY <1>0, SubSeqProperties
  <1>. HIDE DEF r
  <1>3. \A i \in 1..Len(r) : r[i] = es[n + i] /\ n + i \in 1..Len(es)
    BY <1>0, <1>1
  <1>2. Distinct(r)
    <2>. SUFFICES ASSUME NEW i \in 1..Len(r), NEW j \in 1..Len(r), r[i].key = r[j].key
                  PROVE  i = j
      BY DEF Distinct
    <2>1. n + i = n + j
      BY <1>3 DEF Distinct
    <2>. QED
      BY <1>0, <1>1, <2>1
  <1>4. KeptOf(r, es)
    BY <1>1, <1>2, <1>3 DEF KeptOf
  <1>. QED
    BY <1>4 DEF r

(* An entry for a new key at the end keeps the keys distinct.              *)
LEMMA AppendKeeps ==
  ASSUME NEW es \in Seq(CacheEntry), Distinct(es), NEW e \in CacheEntry, e.key \notin KeysOf(es)
  PROVE  /\ Append(es, e) \in Seq(CacheEntry) /\ Distinct(Append(es, e))
         /\ \A i \in 1..Len(Append(es, e)) : Append(es, e)[i] = e \/ \E j \in 1..Len(es) : Append(es, e)[i] = es[j]
  <1>. DEFINE r == Append(es, e)
  <1>1. /\ r \in Seq(CacheEntry) /\ Len(r) = Len(es) + 1 /\ Len(es) \in Nat
        /\ \A i \in 1..Len(es) : r[i] = es[i]
        /\ r[Len(es) + 1] = e
    BY AppendProperties, LenProperties
  <1>. HIDE DEF r
  <1>2. \A i \in 1..Len(es) : es[i].key # e.key
    BY LenProperties DEF KeysOf
  <1>3. Distinct(r)
    BY <1>1, <1>2 DEF Distinct
  <1>4. \A i \in 1..Len(r) : r[i] = e \/ \E j \in 1..Len(es) : r[i] = es[j]
    BY <1>1
  <1>. QED
    BY <1>1, <1>3, <1>4 DEF r

(* The number of entries evicted is at most one more than there are. *)
LEMMA EvictionsType ==
  ASSUME NEW c, c.entries \in Seq(CacheEntry), NEW key, NEW size
  PROVE  Evictions(c, key, size) \in 0..(Len(c.entries) + 1)
  <1>. DEFINE all == 0..Len(c.entries)
              some == {n \in all : CountAfter(c, key, n) + size > MaxSize}
  <1>0. Len(c.entries) \in Nat
    BY LenProperties
  <1>1. IsFiniteSet(all) /\ Cardinality(all) = Len(c.entries) + 1
    BY <1>0, FS_Interval
  <1>2. some \subseteq all
    OBVIOUS
  <1>. HIDE DEF all, some
  <1>3. IsFiniteSet(some) /\ Cardinality(some) <= Cardinality(all)
    BY <1>1, <1>2, FS_Subset
  <1>4. Cardinality(some) \in Nat
    BY <1>3, FS_CardinalityType
  <1>. QED
    BY <1>0, <1>1, <1>3, <1>4 DEF Evictions, some, all

(* An entry that a search has found. *)
Sound(e) == e.val.query = e.key /\ e.val.version <= index /\ e.val.at <= e.created /\ e.created <= now

SoundEntries(es) ==
  /\ es \in Seq(CacheEntry) /\ Distinct(es)
  /\ \A i \in 1..Len(es) : Sound(es[i])

CacheInv ==
  /\ now \in 0..MaxTime /\ index \in 0..MaxVersion
  /\ cache = [entries |-> cache.entries, size |-> cache.size]
  /\ SoundEntries(cache.entries)
  /\ \A c \in Calls : calls[c].pc = "found" => calls[c].version <= index

(* What is kept of sound entries is sound.                                 *)
LEMMA KeptIsSound ==
  ASSUME NEW es, SoundEntries(es), NEW r, KeptOf(r, es)
  PROVE  SoundEntries(r)
  BY DEF SoundEntries, KeptOf

(* A sound entry added to sound entries.                                   *)
LEMMA SoundAppend ==
  ASSUME NEW es, SoundEntries(es), NEW e \in CacheEntry, e.key \notin KeysOf(es), Sound(e)
  PROVE  SoundEntries(Append(es, e))
  BY AppendKeeps DEF SoundEntries

(* What is found in a sound table is a sound entry for the key asked for.  *)
LEMMA FoundIsSound ==
  ASSUME NEW c, SoundEntries(c.entries), NEW key, key \in Keys(c)
  PROVE  Entry(c, key) \in CacheEntry /\ Sound(Entry(c, key)) /\ Entry(c, key).key = key
  <1>1. Place(c.entries, key) \in 1..Len(c.entries) /\ c.entries[Place(c.entries, key)].key = key
    BY PlaceOK DEF Keys, SoundEntries
  <1>2. c.entries[Place(c.entries, key)] \in CacheEntry
    BY <1>1, LenProperties, ElementOfSeq DEF SoundEntries
  <1>. QED
    BY <1>1, <1>2 DEF Entry, SoundEntries

(* get only removes or moves an entry. *)
LEMMA AfterGetSound ==
  ASSUME NEW c, c = [entries |-> c.entries, size |-> c.size], SoundEntries(c.entries),
         NEW key, NEW t
  PROVE  /\ AfterGet(c, key, t) = [entries |-> AfterGet(c, key, t).entries,
                                   size |-> AfterGet(c, key, t).size]
         /\ SoundEntries(AfterGet(c, key, t).entries)
  <1>1. KeptOf(Without(c.entries, key), c.entries) /\ key \notin KeysOf(Without(c.entries, key))
    BY WithoutKeeps DEF SoundEntries
  <1>2. SoundEntries(Without(c.entries, key))
    BY <1>1, KeptIsSound
  <1>3. CASE Found(c, key, t)
    <2>1. Entry(c, key) \in CacheEntry /\ Sound(Entry(c, key)) /\ Entry(c, key).key = key
      BY <1>3, FoundIsSound DEF Found
    <2>2. SoundEntries(Append(Without(c.entries, key), Entry(c, key)))
      BY <1>1, <1>2, <2>1, SoundAppend
    <2>3. AfterGet(c, key, t) = [entries |-> Append(Without(c.entries, key), Entry(c, key)),
                                 size |-> c.size]
      BY <1>3 DEF AfterGet
    <2>. QED
      BY <2>2, <2>3
  <1>4. CASE ~Found(c, key, t)
    BY <1>2, <1>4 DEF AfterGet
  <1>. QED
    BY <1>3, <1>4

(* put keeps the most recently used and appends what it is given. *)
LEMMA AfterPutSound ==
  ASSUME NEW c, SoundEntries(c.entries), NEW e \in CacheEntry, Sound(e), e.created = now
  PROVE  LET d == AfterPut(c, e.key, e.val, e.size, now)
         IN  d = [entries |-> d.entries, size |-> d.size] /\ SoundEntries(d.entries)
  <1>. DEFINE n == Evictions(c, e.key, e.size)
              rest == SubSeq(c.entries, n + 1, Len(c.entries))
              d == AfterPut(c, e.key, e.val, e.size, now)
              new == [key |-> e.key, val |-> e.val, size |-> e.size, created |-> now]
  <1>1. n \in 0..(Len(c.entries) + 1) /\ Len(c.entries) \in Nat
    BY EvictionsType, LenProperties DEF SoundEntries
  <1>2. new = e
    BY DEF CacheEntry
  <1>3. CASE n > Len(c.entries)
    <2>1. d = [entries |-> <<>>, size |-> CountAfter(c, e.key, Len(c.entries))]
      BY <1>3 DEF AfterPut
    <2>2. SoundEntries(<<>>)
      BY DEF SoundEntries, Distinct
    <2>. QED
      BY <2>1, <2>2
  <1>4. CASE ~(n > Len(c.entries))
    <2>1. d = [entries |-> Append(Without(rest, e.key), new),
               size |-> CountAfter(c, e.key, n) + e.size]
      BY <1>4 DEF AfterPut
    <2>2. n \in 0..Len(c.entries)
      BY <1>1, <1>4
    <2>. HIDE DEF n, new
    <2>3. SoundEntries(rest)
      BY <2>2, SuffixKeeps, KeptIsSound DEF SoundEntries
    <2>. HIDE DEF rest
    <2>4. KeptOf(Without(rest, e.key), rest) /\ e.key \notin KeysOf(Without(rest, e.key))
      BY <2>3, WithoutKeeps DEF SoundEntries
    <2>5. SoundEntries(Without(rest, e.key))
      BY <2>3, <2>4, KeptIsSound
    <2>6. SoundEntries(Append(Without(rest, e.key), new))
      BY <1>2, <2>4, <2>5, SoundAppend
    <2>. QED
      BY <2>1, <2>6
  <1>. QED
    BY <1>1, <1>3, <1>4

FoundOK == \A c \in Calls : calls[c].pc = "found" => calls[c].version <= index

(* An answer on its way is of a version the index has had. *)
LEMMA StepsKeepFound ==
  ASSUME CallsOK, FoundOK, index \in 0..MaxVersion, [Next]_vars
  PROVE  FoundOK'
  <1>1. ASSUME NEW c \in Calls, NEW call,
               calls' = [calls EXCEPT ![c] = call], index' = index,
               call.pc = "found" => call.version <= index
        PROVE  FoundOK'
    BY <1>1 DEF FoundOK, CallsOK
  <1>2. ASSUME NEW c \in Calls, Leave(c), index' = index PROVE FoundOK'
    BY <1>1, <1>2 DEF Leave, Idle
  <1>3. ASSUME NEW c \in Calls, calls[c].pc # "idle", NEW pc \in {"routing", "embedding", "searching"},
               Advance(c, pc), index' = index
        PROVE  FoundOK'
    <2>1. calls[c] \in Call
      BY <1>3, AtType
    <2>2. [calls[c] EXCEPT !.pc = pc].pc = pc
      BY <2>1 DEF Call
    <2>3. calls' = [calls EXCEPT ![c] = [calls[c] EXCEPT !.pc = pc]]
      BY <1>3 DEF Advance
    <2>. QED
      BY <1>1, <1>3, <2>2, <2>3
  <1>4. ASSUME NEW c \in Calls, NEW s, NEW q, Begin(c, s, q), index' = index PROVE FoundOK'
    BY <1>1, <1>4 DEF Begin
  <1>5. ASSUME NEW c \in Calls, NEW s \in Subjects, NEW q \in Queries, Request(c, s, q) \/ Read(c, s, q)
        PROVE  FoundOK'
    BY <1>4, <1>5 DEF Request, Read, FoundOK
  <1>6. ASSUME NEW c \in Calls, CallTool(c) \/ CacheMiss(c) \/ Embedded(c) PROVE FoundOK'
    BY <1>2, <1>3, <1>6 DEF CallTool, CacheMiss, Embedded, At
  <1>7. ASSUME NEW c \in Calls, CallFails(c) \/ CacheHit(c) \/ Answer(c) PROVE FoundOK'
    BY <1>2, <1>7 DEF CallFails, CacheHit, Answer
  <1>8. ASSUME NEW c \in Calls, Search(c) PROVE FoundOK'
    <2>1. calls[c] \in Call
      BY <1>8, AtType DEF Search, At
    <2>2. [calls[c] EXCEPT !.pc = "found", !.version = index].version = index
      BY <2>1 DEF Call
    <2>3. calls' = [calls EXCEPT ![c] = [calls[c] EXCEPT !.pc = "found", !.version = index]]
      BY <1>8, <2>1 DEF Search, Call
    <2>4. index' = index
      BY <1>8 DEF Search
    <2>5. PICK call : call = [calls[c] EXCEPT !.pc = "found", !.version = index]
      OBVIOUS
    <2>6. calls' = [calls EXCEPT ![c] = call] /\ call.version = index /\ call.version <= index
      BY <2>2, <2>3, <2>5
    <2>. QED
      BY <1>1, <2>4, <2>6
  <1>9. CASE IndexChanges
    <2>1. ASSUME NEW c \in Calls, calls[c].pc = "found" PROVE calls[c].version <= index + 1
      <3>1. calls[c].version \in 0..MaxVersion
        BY <2>1, AtType DEF Call
      <3>. QED
        BY <2>1, <3>1 DEF FoundOK
    <2>. QED
      BY <1>9, <2>1 DEF IndexChanges, FoundOK
  <1>10. CASE Tick \/ Observe \/ UNCHANGED vars
    BY <1>10 DEF Tick, Observe, vars, FoundOK
  <1>. QED
    BY <1>5, <1>6, <1>7, <1>8, <1>9, <1>10 DEF Next

(* What is put in the cache after a search, or again after a hit, is sound. *)
LEMMA PutSound ==
  ASSUME CacheInv, NEW cached, cached = [entries |-> cached.entries, size |-> cached.size],
         SoundEntries(cached.entries), NEW q \in Queries, NEW val \in Results,
         val.query = q, val.version <= index, val.at <= now, PutResults(cached, q, val)
  PROVE  cache' = [entries |-> cache'.entries, size |-> cache'.size] /\ SoundEntries(cache'.entries)
  <1>. DEFINE e == [key |-> q, val |-> val, size |-> SizeOf(val), created |-> now]
  <1>1. SizeOf(val) \in Nat
    BY ToolCallsAssumption DEF SizeOf, Results
  <1>2. e \in CacheEntry
    BY <1>1 DEF CacheInv, CacheEntry
  <1>3. Sound(e) /\ e.created = now
    BY DEF CacheInv, Sound
  <1>4. cache' = AfterPut(cached, e.key, e.val, e.size, now)
    BY DEF PutResults
  <1>. HIDE DEF e
  <1>. QED
    BY <1>2, <1>3, <1>4, AfterPutSound

(* The empty cache is sound.                                               *)
LEMMA CacheInit == Init => CacheInv
  <1>. SUFFICES ASSUME Init PROVE CacheInv
    OBVIOUS
  <1>1. cache = [entries |-> <<>>, size |-> 0]
    BY DEF Init, EmptyCache
  <1>2. SoundEntries(<<>>)
    BY DEF SoundEntries, Distinct
  <1>3. \A c \in Calls : calls[c].pc # "found"
    BY DEF Init, Idle
  <1>. QED
    BY <1>1, <1>2, <1>3, ToolCallsAssumption DEF Init, CacheInv

(* Every step keeps the cache sound.                                       *)
LEMMA CacheStep ==
  ASSUME CacheInv, CallsOK, [Next]_vars
  PROVE  CacheInv'
  <1>1. /\ now \in 0..MaxTime /\ index \in 0..MaxVersion /\ MaxTime \in Nat /\ MaxVersion \in Nat
        /\ cache = [entries |-> cache.entries, size |-> cache.size]
        /\ SoundEntries(cache.entries) /\ FoundOK
    BY ToolCallsAssumption DEF CacheInv, FoundOK
  <1>2. FoundOK'
    BY <1>1, StepsKeepFound
  <1>3. /\ now' \in 0..MaxTime /\ index' \in 0..MaxVersion /\ now <= now' /\ index <= index'
        /\ cache' = cache \/ (now' = now /\ index' = index)
    <2>1. CASE IndexChanges
      <3>1. index < MaxVersion /\ index' = index + 1 /\ now' = now /\ cache' = cache
        BY <2>1 DEF IndexChanges
      <3>2. index + 1 \in 0..MaxVersion /\ index <= index + 1 /\ now <= now
        BY <1>1, <3>1
      <3>. QED
        BY <1>1, <3>1, <3>2
    <2>2. CASE Tick
      BY <1>1, <2>2 DEF Tick
    <2>3. CASE UNCHANGED <<now, index>>
      BY <1>1, <2>3
    <2>. QED
      BY <2>1, <2>2, <2>3
         DEF Next, Request, Read, CallTool, CallFails, CacheHit, CacheMiss, Embedded, Search, Answer,
             Observe, vars
  <1>4. CASE cache' = cache
    <2>1. ASSUME NEW e \in CacheEntry, Sound(e) PROVE Sound(e)'
      BY <1>1, <1>3, <2>1 DEF Sound, CacheEntry, Results
    <2>2. \A i \in 1..Len(cache.entries) : cache.entries[i] \in CacheEntry
      BY <1>1, ElementOfSeq DEF SoundEntries
    <2>3. SoundEntries(cache.entries)'
      BY <1>1, <1>4, <2>1, <2>2 DEF SoundEntries
    <2>. QED
      BY <1>1, <1>2, <1>3, <1>4, <2>3 DEF CacheInv, FoundOK
  <1>5. CASE /\ cache' = [entries |-> cache'.entries, size |-> cache'.size]
             /\ now' = now /\ index' = index /\ SoundEntries(cache'.entries)
    <2>1. SoundEntries(cache.entries)'
      BY <1>5 DEF SoundEntries, Sound
    <2>. QED
      BY <1>2, <1>3, <1>5, <2>1 DEF CacheInv, FoundOK
  <1>6. ASSUME NEW c \in Calls, CacheHit(c) PROVE CacheInv'
    <2>. DEFINE q == calls[c].query
                cached == AfterGet(cache, q, now)
                val == Entry(cache, q).val
    <2>1. q \in Queries
      BY <1>6, AtType DEF CacheHit, At, Call
    <2>2. /\ Entry(cache, q) \in CacheEntry /\ Sound(Entry(cache, q)) /\ Entry(cache, q).key = q
      BY <1>1, <1>6, FoundIsSound DEF CacheHit, Found
    <2>3. /\ val \in Results /\ val.query = q /\ val.version <= index /\ val.at <= now
      BY <1>1, <2>2 DEF Sound, CacheEntry, Results
    <2>4. cached = [entries |-> cached.entries, size |-> cached.size] /\ SoundEntries(cached.entries)
      BY <1>1, AfterGetSound
    <2>5. PutResults(cached, q, val) /\ now' = now /\ index' = index
      BY <1>6 DEF CacheHit
    <2>. HIDE DEF q, cached, val
    <2>. QED
      BY <1>5, <2>1, <2>3, <2>4, <2>5, PutSound
  <1>7. ASSUME NEW c \in Calls, CacheMiss(c) PROVE CacheInv'
    <2>1. cache' = AfterGet(cache, calls[c].query, now) /\ now' = now /\ index' = index
      BY <1>7 DEF CacheMiss
    <2>. QED
      BY <1>1, <1>5, <2>1, AfterGetSound
  <1>8. ASSUME NEW c \in Calls, Answer(c) PROVE CacheInv'
    <2>. DEFINE q == calls[c].query
                val == [query |-> q, version |-> calls[c].version, at |-> now]
    <2>1. calls[c] \in Call /\ calls[c].version <= index
      BY <1>1, <1>8, AtType DEF Answer, At, FoundOK
    <2>2. q \in Queries /\ val \in Results /\ val.query = q /\ val.version <= index /\ val.at <= now
      BY <1>1, <2>1 DEF Call, Results
    <2>3. PutResults(cache, q, val) /\ now' = now /\ index' = index
      BY <1>8 DEF Answer
    <2>. HIDE DEF q, val
    <2>. QED
      BY <1>1, <1>5, <2>2, <2>3, PutSound
  <1>. QED
    BY <1>4, <1>6, <1>7, <1>8
       DEF Next, Request, Read, CallTool, CallFails, Embedded, Search, IndexChanges, Tick, Observe, vars

-----------------------------------------------------------------------------
(* The sum of the sizes *)

(* F[n] is what the first n entries take together. *)
Sums(F, es) ==
  /\ F \in [0..Len(es) -> Int] /\ F[0] = 0
  /\ \A n \in 1..Len(es) : F[n] = F[n - 1] + es[n].size

(* A set of numbers that is not empty has a least one; an induction over   *)
(* sequences goes by the least counterexample.                             *)
LEMMA LeastNumber ==
  ASSUME NEW S \in SUBSET Nat, S # {} PROVE \E m \in S : \A o \in S : m <= o
  <1>1. IsWellFoundedOn(OpToRel(<, Nat), Nat)
    BY NatLessThanWellFounded
  <1>2. PICK m \in S : \A o \in S : ~(<<o, m>> \in OpToRel(<, Nat))
    BY <1>1, WFMin, Zenon
  <1>3. \A o \in S : ~(o < m)
    BY <1>2 DEF OpToRel
  <1>. QED
    BY <1>3

(* The sizes of the entries are numbers.                                   *)
LEMMA SizesType ==
  ASSUME NEW es \in Seq(CacheEntry)
  PROVE  Len(es) \in Nat /\ \A n \in 1..Len(es) : es[n] \in CacheEntry /\ es[n].size \in Nat
  <1>1. Len(es) \in Nat /\ \A n \in 1..Len(es) : es[n] \in CacheEntry
    BY LenProperties, ElementOfSeq
  <1>2. \A e \in CacheEntry : e.size \in Nat
    BY DEF CacheEntry
  <1>. QED
    BY <1>1, <1>2

(* The sums of the first sizes exist, for every sequence of entries.       *)
LEMMA SumsExist ==
  ASSUME NEW es \in Seq(CacheEntry)
  PROVE  \E F : Sums(F, es)
  <1>0. Len(es) \in Nat /\ \A n \in 1..Len(es) : es[n].size \in Nat
    BY SizesType
  <1>. DEFINE Upto(G, m) == /\ G \in [0..m -> Int] /\ G[0] = 0
                            /\ \A n \in 1..m : G[n] = G[n - 1] + es[n].size
              without == {m \in 0..Len(es) : ~\E G : Upto(G, m)}
  <1>1. SUFFICES ASSUME without # {} PROVE FALSE
    <2>1. Len(es) \in 0..Len(es)
      BY <1>0
    <2>2. without = {} => \E G : Upto(G, Len(es))
      BY <2>1
    <2>. QED
      BY <2>2 DEF Sums
  <1>2. PICK m \in without : \A o \in without : m <= o
    <2>1. without \in SUBSET Nat
      BY <1>0
    <2>. HIDE DEF without
    <2>. QED
      BY <1>1, <2>1, LeastNumber
  <1>3. m \in 0..Len(es) /\ ~\E G : Upto(G, m)
    OBVIOUS
  <1>4. CASE m = 0
    <2>1. Upto([n \in 0..0 |-> 0], 0)
      OBVIOUS
    <2>. QED
      BY <1>3, <1>4, <2>1
  <1>5. CASE m # 0
    <2>1. m - 1 \in 0..Len(es) /\ m - 1 \notin without
      <3>1. m - 1 \in 0..Len(es) /\ ~(m <= m - 1)
        BY <1>0, <1>3, <1>5
      <3>. HIDE DEF without
      <3>. QED
        BY <1>2, <3>1
    <2>2. PICK G : Upto(G, m - 1)
      BY <2>1
    <2>3. PICK H : H = [n \in 0..m |-> IF n = m THEN G[m - 1] + es[m].size ELSE G[n]]
      OBVIOUS
    <2>4. H \in [0..m -> Int] /\ H[0] = 0
      BY <1>0, <1>3, <1>5, <2>2, <2>3
    <2>5. ASSUME NEW n \in 1..m PROVE H[n] = H[n - 1] + es[n].size
      <3>1. CASE n = m
        BY <1>0, <1>3, <1>5, <2>3, <3>1
      <3>2. CASE n # m
        <4>1. n \in 1..(m - 1) /\ n \in 0..m /\ n - 1 \in 0..m /\ n - 1 # m
          BY <1>0, <1>3, <3>2
        <4>2. H[n] = G[n] /\ H[n - 1] = G[n - 1]
          BY <2>3, <3>2, <4>1
        <4>. QED
          BY <2>2, <4>1, <4>2
      <3>. QED
        BY <3>1, <3>2
    <2>. QED
      BY <1>3, <2>4, <2>5
  <1>. QED
    BY <1>4, <1>5

(* There is one sequence of sums, and TotalSize is its last. *)
LEMMA TotalIs ==
  ASSUME NEW es \in Seq(CacheEntry), NEW F, Sums(F, es)
  PROVE  TotalSize(es) = F[Len(es)] /\ TotalSize(es) \in Int
  <1>0. Len(es) \in Nat /\ \A n \in 1..Len(es) : es[n].size \in Nat
    BY SizesType
  <1>. DEFINE Sum == CHOOSE G : G = [n \in 0..Len(es) |-> IF n = 0 THEN 0 ELSE G[n - 1] + es[n].size]
              apart == {n \in 0..Len(es) : Sum[n] # F[n]}
  <1>1. TotalSize(es) = Sum[Len(es)]
    BY DEF TotalSize
  <1>2. F = [n \in 0..Len(es) |-> IF n = 0 THEN 0 ELSE F[n - 1] + es[n].size]
    <2>1. \A n \in 0..Len(es) : n # 0 => n \in 1..Len(es)
      BY <1>0
    <2>. QED
      BY <2>1 DEF Sums
  <1>3. Sum = [n \in 0..Len(es) |-> IF n = 0 THEN 0 ELSE Sum[n - 1] + es[n].size]
    BY <1>2
  <1>. HIDE DEF Sum
  <1>4. SUFFICES ASSUME apart # {} PROVE FALSE
    <2>1. Len(es) \in 0..Len(es)
      BY <1>0
    <2>2. apart = {} => Sum[Len(es)] = F[Len(es)]
      BY <2>1
    <2>. QED
      BY <1>1, <2>1, <2>2 DEF Sums
  <1>5. PICK m \in apart : \A o \in apart : m <= o
    <2>1. apart \in SUBSET Nat
      BY <1>0
    <2>. HIDE DEF apart
    <2>. QED
      BY <1>4, <2>1, LeastNumber
  <1>6. m \in 0..Len(es) /\ Sum[m] # F[m]
    OBVIOUS
  <1>7. CASE m = 0
    BY <1>0, <1>3, <1>6, <1>7 DEF Sums
  <1>8. CASE m # 0
    <2>1. m - 1 \in 0..Len(es) /\ m \in 1..Len(es) /\ m - 1 \notin apart
      BY <1>0, <1>5, <1>6, <1>8
    <2>2. Sum[m - 1] = F[m - 1]
      BY <2>1
    <2>3. Sum[m] = Sum[m - 1] + es[m].size
      BY <1>3, <1>6, <1>8
    <2>4. F[m] = F[m - 1] + es[m].size
      BY <2>1 DEF Sums
    <2>. QED
      BY <1>6, <2>2, <2>3, <2>4
  <1>. QED
    BY <1>7, <1>8

(* They grow with the number of entries summed.                            *)
LEMMA SumsGrow ==
  ASSUME NEW es \in Seq(CacheEntry), NEW F, Sums(F, es),
         NEW i \in 0..Len(es), NEW j \in 0..Len(es), i <= j
  PROVE  F[i] <= F[j]
  <1>0. Len(es) \in Nat /\ \A n \in 1..Len(es) : es[n].size \in Nat
    BY SizesType
  <1>. DEFINE below == {n \in 0..Len(es) : i <= n /\ ~(F[i] <= F[n])}
  <1>1. SUFFICES ASSUME below # {} PROVE FALSE
    OBVIOUS
  <1>2. PICK m \in below : \A o \in below : m <= o
    <2>1. below \in SUBSET Nat
      BY <1>0
    <2>. HIDE DEF below
    <2>. QED
      BY <1>1, <2>1, LeastNumber
  <1>3. m \in 0..Len(es) /\ i <= m /\ ~(F[i] <= F[m]) /\ F[i] \in Int
    BY DEF Sums
  <1>4. m # i
    BY <1>3
  <1>5. m - 1 \in 0..Len(es) /\ m \in 1..Len(es) /\ i <= m - 1 /\ m - 1 \notin below
    BY <1>0, <1>2, <1>3, <1>4
  <1>6. F[i] <= F[m - 1] /\ F[m] = F[m - 1] + es[m].size /\ F[m - 1] \in Int
    BY <1>5 DEF Sums
  <1>. QED
    BY <1>0, <1>3, <1>5, <1>6

(* The total of the first n entries is their sum.                          *)
LEMMA TotalOfPrefix ==
  ASSUME NEW es \in Seq(CacheEntry), NEW F, Sums(F, es), NEW n \in 0..Len(es)
  PROVE  TotalSize(SubSeq(es, 1, n)) = F[n]
  <1>0. Len(es) \in Nat
    BY SizesType
  <1>1. PICK r : r = SubSeq(es, 1, n)
    OBVIOUS
  <1>2. r \in Seq(CacheEntry) /\ Len(r) = n /\ \A i \in 1..n : r[i] = es[i]
    BY <1>0, <1>1, SubSeqProperties
  <1>3. PICK G : G = [i \in 0..n |-> F[i]]
    OBVIOUS
  <1>4. G \in [0..n -> Int] /\ G[0] = 0 /\ G[n] = F[n]
    <2>1. 0 \in 0..n /\ n \in 0..n /\ \A i \in 0..n : i \in 0..Len(es)
      BY <1>0
    <2>. QED
      BY <1>3, <2>1 DEF Sums
  <1>5. \A i \in 1..n : G[i] = G[i - 1] + r[i].size
    <2>. TAKE i \in 1..n
    <2>1. i \in 1..Len(es) /\ i \in 0..n /\ i - 1 \in 0..n
      BY <1>0
    <2>. QED
      BY <1>2, <1>3, <2>1 DEF Sums
  <1>6. Sums(G, r)
    BY <1>2, <1>4, <1>5 DEF Sums
  <1>. QED
    BY <1>1, <1>2, <1>4, <1>6, TotalIs

(* The total of the others is what is left of it.                          *)
LEMMA TotalOfSuffix ==
  ASSUME NEW es \in Seq(CacheEntry), NEW F, Sums(F, es), NEW n \in 0..Len(es)
  PROVE  TotalSize(SubSeq(es, n + 1, Len(es))) = TotalSize(es) - F[n]
  <1>0. Len(es) \in Nat /\ n \in Nat
    BY SizesType
  <1>1. PICK r : r = SubSeq(es, n + 1, Len(es))
    OBVIOUS
  <1>2. PICK k \in Nat : k = Len(es) - n
    BY <1>0
  <1>3. r \in Seq(CacheEntry) /\ Len(r) = k /\ \A i \in 1..k : r[i] = es[n + i]
    <2>1. /\ r \in Seq(CacheEntry) /\ Len(r) = Len(es) - n
          /\ \A i \in 1..(Len(es) - n) : r[i] = es[n + i]
      BY <1>0, <1>1, SubSeqProperties
    <2>. QED
      BY <1>2, <2>1
  <1>4. PICK G : G = [i \in 0..k |-> F[n + i] - F[n]]
    OBVIOUS
  <1>5. \A i \in 0..k : n + i \in 0..Len(es) /\ F[n + i] \in Int /\ F[n] \in Int
    <2>1. \A i \in 0..k : n + i \in 0..Len(es)
      BY <1>0, <1>2
    <2>. QED
      BY <2>1 DEF Sums
  <1>6. G \in [0..k -> Int] /\ G[0] = 0 /\ G[k] = F[Len(es)] - F[n]
    <2>1. n + 0 = n /\ n + k = Len(es) /\ 0 \in 0..k /\ k \in 0..k
      BY <1>0, <1>2
    <2>2. \A i \in 0..k : F[n + i] - F[n] \in Int
      <3>. TAKE i \in 0..k
      <3>1. F[n + i] \in Int /\ F[n] \in Int
        BY <1>5
      <3>. QED
        BY <3>1
    <2>3. G \in [0..k -> Int]
      BY <1>4, <2>2
    <2>4. G[0] = F[n + 0] - F[n] /\ G[k] = F[n + k] - F[n] /\ F[n] \in Int
      BY <1>4, <1>5, <2>1
    <2>5. F[n + 0] = F[n] /\ F[n + k] = F[Len(es)]
      BY <2>1
    <2>. QED
      BY <2>3, <2>4, <2>5
  <1>7. \A i \in 1..k : G[i] = G[i - 1] + r[i].size
    <2>. TAKE i \in 1..k
    <2>1. n + i \in 1..Len(es) /\ i \in 0..k /\ i - 1 \in 0..k /\ n + (i - 1) = n + i - 1
      BY <1>0, <1>2
    <2>2. F[n + i] = F[n + i - 1] + es[n + i].size /\ es[n + i].size \in Nat
      BY <2>1, SizesType DEF Sums
    <2>3. G[i] = F[n + i] - F[n] /\ G[i - 1] = F[n + i - 1] - F[n]
      BY <1>4, <2>1
    <2>4. F[n + i - 1] \in Int /\ F[n] \in Int
      BY <1>5, <2>1
    <2>. QED
      BY <1>3, <2>2, <2>3, <2>4
  <1>8. Sums(G, r)
    BY <1>3, <1>6, <1>7 DEF Sums
  <1>9. TotalSize(r) = G[k]
    BY <1>3, <1>8, TotalIs
  <1>. QED
    BY <1>1, <1>6, <1>9, TotalIs

(* An entry added at the end adds its size to the total.                   *)
LEMMA TotalOfAppend ==
  ASSUME NEW es \in Seq(CacheEntry), NEW e \in CacheEntry
  PROVE  TotalSize(Append(es, e)) = TotalSize(es) + e.size
  <1>0. Len(es) \in Nat /\ e.size \in Nat
    BY SizesType DEF CacheEntry
  <1>1. PICK F : Sums(F, es)
    BY SumsExist
  <1>2. PICK r : r = Append(es, e)
    OBVIOUS
  <1>3. PICK l \in Nat : l = Len(es)
    BY <1>0
  <1>4. r \in Seq(CacheEntry) /\ Len(r) = l + 1 /\ r[l + 1] = e /\ \A i \in 1..l : r[i] = es[i]
    BY <1>2, <1>3, AppendProperties
  <1>5. PICK G : G = [i \in 0..(l + 1) |-> IF i = l + 1 THEN F[l] + e.size ELSE F[i]]
    OBVIOUS
  <1>6. F \in [0..l -> Int] /\ F[0] = 0 /\ \A n \in 1..l : F[n] = F[n - 1] + es[n].size
    BY <1>1, <1>3 DEF Sums
  <1>7. G \in [0..(l + 1) -> Int] /\ G[0] = 0 /\ G[l + 1] = F[l] + e.size
    BY <1>0, <1>3, <1>5, <1>6
  <1>8. \A i \in 1..(l + 1) : G[i] = G[i - 1] + r[i].size
    <2>. TAKE i \in 1..(l + 1)
    <2>1. CASE i = l + 1
      <3>1. G[i - 1] = F[l]
        BY <1>5, <2>1
      <3>. QED
        BY <1>4, <1>7, <2>1, <3>1
    <2>2. CASE i # l + 1
      <3>1. i \in 1..l /\ i \in 0..(l + 1) /\ i - 1 \in 0..(l + 1) /\ i - 1 # l + 1
        BY <2>2
      <3>2. G[i] = F[i] /\ G[i - 1] = F[i - 1]
        BY <1>5, <2>2, <3>1
      <3>. QED
        BY <1>4, <1>6, <3>1, <3>2
    <2>. QED
      BY <2>1, <2>2
  <1>9. Sums(G, r)
    BY <1>4, <1>7, <1>8 DEF Sums
  <1>10. TotalSize(r) = G[l + 1]
    BY <1>4, <1>9, TotalIs
  <1>11. TotalSize(es) = F[l]
    BY <1>1, <1>3, TotalIs
  <1>. QED
    BY <1>2, <1>7, <1>10, <1>11

(* An entry that is taken out takes its size off the total.                *)
LEMMA TotalOfCutOut ==
  ASSUME NEW es \in Seq(CacheEntry), NEW p \in 1..Len(es), NEW r \in Seq(CacheEntry),
         Len(r) = Len(es) - 1,
         \A i \in 1..(Len(es) - 1) : r[i] = IF i < p THEN es[i] ELSE es[i + 1]
  PROVE  TotalSize(r) = TotalSize(es) - es[p].size
  <1>1. PICK l \in Nat : l = Len(r) /\ Len(es) = l + 1 /\ p \in 1..(l + 1)
    BY SizesType
  <1>2. PICK F : Sums(F, es)
    BY SumsExist
  <1>3. PICK G : G = [i \in 0..l |-> IF i < p THEN F[i] ELSE F[i + 1] - es[p].size]
    OBVIOUS
  <1>4. /\ F \in [0..(l + 1) -> Int] /\ F[0] = 0
        /\ \A n \in 1..(l + 1) : F[n] = F[n - 1] + es[n].size /\ es[n].size \in Nat
    BY <1>1, <1>2, SizesType DEF Sums
  <1>5. G \in [0..l -> Int] /\ G[0] = 0
    <2>1. \A i \in 0..l : i \in 0..(l + 1) /\ i + 1 \in 0..(l + 1)
      OBVIOUS
    <2>2. \A i \in 0..l : F[i] \in Int /\ F[i + 1] \in Int
      BY <1>4, <2>1
    <2>3. 0 < p /\ 0 \in 0..l /\ p \in 1..(l + 1)
      BY <1>1
    <2>4. es[p].size \in Nat
      BY <1>4, <2>3
    <2>5. ASSUME NEW i \in 0..l PROVE G[i] \in Int
      <3>1. G[i] = IF i < p THEN F[i] ELSE F[i + 1] - es[p].size
        BY <1>3
      <3>2. F[i] \in Int /\ F[i + 1] \in Int
        BY <2>2
      <3>3. \A x \in Int, y \in Nat : x - y \in Int
        OBVIOUS
      <3>4. F[i + 1] - es[p].size \in Int
        BY <2>4, <3>2, <3>3
      <3>. QED
        BY <3>1, <3>2, <3>4
    <2>6. G \in [0..l -> Int]
      BY <1>3, <2>5
    <2>. QED
      BY <1>3, <1>4, <2>3, <2>6
  <1>6. G[l] = F[l + 1] - es[p].size
    <2>1. CASE p = l + 1
      <3>1. F[l + 1] = F[l] + es[l + 1].size /\ F[l] \in Int /\ es[l + 1].size \in Nat
        BY <1>1, <1>4
      <3>2. G[l] = F[l]
        BY <1>3, <2>1
      <3>. QED
        BY <2>1, <3>1, <3>2
    <2>2. CASE p # l + 1
      BY <1>1, <1>3, <2>2
    <2>. QED
      BY <2>1, <2>2
  <1>7. \A i \in 1..l : G[i] = G[i - 1] + r[i].size
    <2>. TAKE i \in 1..l
    <2>0. /\ i \in 0..l /\ i - 1 \in 0..l /\ i \in 1..(l + 1) /\ i + 1 \in 1..(l + 1)
          /\ (i - 1) + 1 = i /\ (i + 1) - 1 = i /\ p \in Nat
      BY <1>1
    <2>1. /\ F[i] = F[i - 1] + es[i].size /\ F[i + 1] = F[i] + es[i + 1].size
          /\ F[i] \in Int /\ F[i - 1] \in Int /\ F[i + 1] \in Int
          /\ es[i].size \in Nat /\ es[i + 1].size \in Nat /\ es[p].size \in Nat
      <3>1. i - 1 \in 0..(l + 1) /\ i \in 0..(l + 1) /\ i + 1 \in 0..(l + 1) /\ p \in 1..(l + 1)
        BY <1>1, <2>0
      <3>2. F[i] = F[i - 1] + es[i].size /\ F[i + 1] = F[(i + 1) - 1] + es[i + 1].size
        BY <1>4, <2>0
      <3>. QED
        BY <1>4, <2>0, <3>1, <3>2
    <2>2. r[i] = IF i < p THEN es[i] ELSE es[i + 1]
      BY <1>1
    <2>3. CASE i < p
      <3>1. G[i] = F[i] /\ G[i - 1] = F[i - 1]
        BY <1>3, <2>0, <2>3
      <3>. QED
        BY <2>1, <2>2, <2>3, <3>1
    <2>4. CASE i = p
      <3>1. G[i] = F[i + 1] - es[p].size /\ G[i - 1] = F[i - 1]
        BY <1>3, <2>0, <2>4
      <3>2. r[i].size = es[i + 1].size
        BY <2>2, <2>4
      <3>. QED
        BY <2>1, <2>4, <3>1, <3>2
    <2>5. CASE i > p
      <3>1. G[i] = F[i + 1] - es[p].size /\ G[i - 1] = F[i] - es[p].size
        BY <1>3, <2>0, <2>5
      <3>2. r[i].size = es[i + 1].size
        BY <2>0, <2>2, <2>5
      <3>. QED
        BY <2>1, <3>1, <3>2
    <2>. QED
      BY <2>0, <2>3, <2>4, <2>5
  <1>8. Sums(G, r)
    BY <1>1, <1>5, <1>7 DEF Sums
  <1>9. TotalSize(r) = G[l]
    BY <1>1, <1>8, TotalIs
  <1>10. TotalSize(es) = F[l + 1]
    BY <1>1, <1>2, TotalIs
  <1>. QED
    BY <1>6, <1>9, <1>10

(* Without its entry, a cache holds less by the size of the entry. *)
LEMMA TotalWithout ==
  ASSUME NEW es \in Seq(CacheEntry), NEW key
  PROVE  TotalSize(Without(es, key))
           = TotalSize(es) - (IF key \in KeysOf(es) THEN es[Place(es, key)].size ELSE 0)
  <1>1. CASE key \notin KeysOf(es)
    <2>1. TotalSize(es) \in Int
      BY SumsExist, TotalIs
    <2>. QED
      BY <1>1, <2>1 DEF Without
  <1>2. CASE key \in KeysOf(es)
    <2>1. PICK p \in 1..Len(es) : p = Place(es, key)
      BY <1>2, PlaceOK
    <2>2. PICK r : r = SubSeq(es, 1, p - 1) \o SubSeq(es, p + 1, Len(es))
      OBVIOUS
    <2>3. Without(es, key) = r
      BY <1>2, <2>1, <2>2 DEF Without
    <2>4. /\ r \in Seq(CacheEntry) /\ Len(r) = Len(es) - 1
          /\ \A i \in 1..(Len(es) - 1) : r[i] = IF i < p THEN es[i] ELSE es[i + 1]
      BY <2>2, CutOut
    <2>. QED
      BY <1>2, <2>1, <2>3, <2>4, TotalOfCutOut
  <1>. QED
    BY <1>1, <1>2

-----------------------------------------------------------------------------
(* The account of the cache *)

(* put stops evicting at the first count that leaves room. *)
LEMMA EvictionsSuffice ==
  ASSUME NEW c, c.entries \in Seq(CacheEntry), c.size \in Int, c.size <= MaxSize,
         NEW key, NEW size \in Nat, SizeHeld(c, key) \in Nat, NEW F, Sums(F, c.entries),
         NEW n, n = Evictions(c, key, size)
  PROVE  /\ n \in 0..(Len(c.entries) + 1)
         /\ n <= Len(c.entries) => c.size - SizeHeld(c, key) - F[n] + size <= MaxSize
  <1>1. PICK l \in Nat : l = Len(c.entries)
    BY SizesType
  <1>2. PICK held \in Nat : held = SizeHeld(c, key)
    OBVIOUS
  <1>3. \A m \in 0..l : CountAfter(c, key, m) = c.size - held - F[m] /\ F[m] \in Int
    BY <1>1, <1>2, TotalOfPrefix DEF CountAfter, Sums
  <1>4. PICK some \in SUBSET (0..l) : some = {m \in 0..l : CountAfter(c, key, m) + size > MaxSize}
    OBVIOUS
  <1>5. n = Cardinality(some)
    BY <1>1, <1>4 DEF Evictions
  <1>6. n \in 0..(l + 1)
    BY <1>1, EvictionsType
  <1>7. CASE some = 0..l
    <2>1. n = l + 1
      BY <1>5, <1>7, FS_Interval
    <2>. QED
      BY <1>1, <1>6, <2>1
  <1>8. CASE some # 0..l
    <2>1. (0..l) \ some # {} /\ (0..l) \ some \in SUBSET Nat
      <3>1. \E m \in 0..l : m \notin some
        BY <1>8
      <3>. QED
        BY <3>1
    <2>2. PICK first \in (0..l) \ some : \A m \in (0..l) \ some : first <= m
      BY <2>1, LeastNumber
    <2>3. \A m \in 0..l : m < first => m \in some
      BY <2>2
    <2>4. ASSUME NEW m \in 0..l, first <= m PROVE m \notin some
      <3>1. F[first] <= F[m]
        BY <1>1, <2>2, <2>4, SumsGrow
      <3>2. ~(c.size - held - F[first] + size > MaxSize) /\ F[first] \in Int /\ F[m] \in Int
        BY <1>3, <1>4, <2>2
      <3>3. ~(c.size - held - F[m] + size > MaxSize)
        BY <3>1, <3>2, CacheAssumption
      <3>. QED
        BY <1>3, <1>4, <3>3
    <2>5. some = 0..(first - 1)
      <3>1. \A m \in some : m \in 0..l /\ ~(first <= m)
        BY <2>4
      <3>2. first \in 0..l
        BY <2>2
      <3>3. \A m \in some : m \in 0..(first - 1)
        BY <3>1, <3>2
      <3>4. \A m \in 0..(first - 1) : m \in 0..l /\ m < first
        BY <3>2
      <3>5. \A m \in 0..(first - 1) : m \in some
        BY <2>3, <3>4
      <3>. QED
        BY <3>3, <3>5
    <2>6. n = first
      BY <1>5, <2>2, <2>5, FS_Interval
    <2>7. ~(c.size - held - F[n] + size > MaxSize) /\ F[n] \in Int
      BY <1>3, <1>4, <2>2, <2>6
    <2>. QED
      BY <1>1, <1>2, <1>6, <2>7, CacheAssumption
  <1>. QED
    BY <1>7, <1>8

(* exact: whether the count is that of the entries *)
AccountOf(c, exact) ==
  /\ c.entries \in Seq(CacheEntry) /\ Distinct(c.entries)
  /\ c.size \in Int /\ c.size <= MaxSize
  /\ exact => c.size = TotalSize(c.entries)

(* What a put counts as held for the key is the size of its entry, or      *)
(* nothing.                                                                *)
LEMMA HeldType ==
  ASSUME NEW c, c.entries \in Seq(CacheEntry), NEW key
  PROVE  /\ SizeHeld(c, key) \in Nat
         /\ SizeHeld(c, key)
              = IF key \in KeysOf(c.entries) THEN c.entries[Place(c.entries, key)].size ELSE 0
         /\ key \in KeysOf(c.entries) => Entry(c, key) \in CacheEntry
  <1>1. CASE key \in KeysOf(c.entries)
    <2>1. PICK p \in 1..Len(c.entries) : p = Place(c.entries, key)
      BY <1>1, PlaceOK
    <2>2. c.entries[p] \in CacheEntry /\ c.entries[p].size \in Nat
      BY SizesType
    <2>. QED
      BY <1>1, <2>1, <2>2 DEF SizeHeld, Keys, Entry
  <1>2. CASE key \notin KeysOf(c.entries)
    BY <1>2 DEF SizeHeld, Keys
  <1>. QED
    BY <1>1, <1>2

(* get takes an expired entry off the count as it leaves the table.        *)
LEMMA AfterGetAccount ==
  ASSUME NEW c, NEW exact, AccountOf(c, exact), NEW key, NEW t
  PROVE  AccountOf(AfterGet(c, key, t), exact)
  <1>0. /\ c.entries \in Seq(CacheEntry) /\ Distinct(c.entries) /\ c.size \in Int
        /\ c.size <= MaxSize
        /\ exact => c.size = TotalSize(c.entries)
    BY DEF AccountOf
  <1>1. PICK held \in Nat : held = SizeHeld(c, key)
    BY <1>0, HeldType
  <1>2. PICK r : r = Without(c.entries, key)
    OBVIOUS
  <1>3. /\ r \in Seq(CacheEntry) /\ Distinct(r) /\ key \notin KeysOf(r)
    BY <1>0, <1>2, WithoutKeeps DEF KeptOf
  <1>4. TotalSize(r) = TotalSize(c.entries) - held /\ TotalSize(c.entries) \in Int
    BY <1>0, <1>1, <1>2, TotalWithout, HeldType, SumsExist, TotalIs
  <1>5. CASE Found(c, key, t)
    <2>1. PICK e \in CacheEntry : e = Entry(c, key)
      BY <1>0, <1>5, HeldType DEF Found, Keys
    <2>2. e.key = key /\ e.size = held
      BY <1>0, <1>1, <1>5, <2>1, PlaceOK DEF Found, Keys, Entry, SizeHeld
    <2>3. PICK s : s = Append(r, e)
      OBVIOUS
    <2>4. s \in Seq(CacheEntry) /\ Distinct(s)
      BY <1>3, <2>2, <2>3, AppendKeeps
    <2>5. TotalSize(s) = TotalSize(c.entries)
      BY <1>1, <1>3, <1>4, <2>2, <2>3, TotalOfAppend
    <2>6. AfterGet(c, key, t) = [c EXCEPT !.entries = s]
      BY <1>2, <1>5, <2>1, <2>3 DEF AfterGet
    <2>7. AfterGet(c, key, t).size = c.size
      BY <2>6
    <2>8. AfterGet(c, key, t).entries = s
      BY <1>5, <1>2, <2>1, <2>3 DEF AfterGet
    <2>. QED
      BY <1>0, <2>4, <2>5, <2>7, <2>8 DEF AccountOf
  <1>6. CASE ~Found(c, key, t)
    <2>1. AfterGet(c, key, t) = [entries |-> r, size |-> c.size - held]
      BY <1>1, <1>2, <1>6 DEF AfterGet
    <2>2. c.size - held \in Int /\ c.size - held <= MaxSize
      BY <1>0, <1>1, CacheAssumption
    <2>3. exact => c.size - held = TotalSize(r)
      BY <1>0, <1>4
    <2>. QED
      BY <1>3, <2>1, <2>2, <2>3 DEF AccountOf
  <1>. QED
    BY <1>5, <1>6

(* put keeps the account, unless it takes the size of an entry off twice. *)
LEMMA AfterPutAccount ==
  ASSUME NEW c, NEW exact, AccountOf(c, exact), NEW e \in CacheEntry, e.created = now,
         NEW exactly, exactly <=> exact /\ ~TakesOffTwice(c, e.key, e.size)
  PROVE  AccountOf(AfterPut(c, e.key, e.val, e.size, now), exactly)
  <1>0. /\ c.entries \in Seq(CacheEntry) /\ Distinct(c.entries) /\ c.size \in Int
        /\ c.size <= MaxSize
        /\ exact => c.size = TotalSize(c.entries)
        /\ e.size \in Nat
    BY DEF AccountOf, CacheEntry
  <1>1. PICK es \in Seq(CacheEntry) : es = c.entries
    BY <1>0
  <1>2. PICK l \in Nat : l = Len(es)
    BY SizesType
  <1>3. PICK held \in Nat : held = SizeHeld(c, e.key)
    BY <1>0, HeldType
  <1>4. held = IF e.key \in KeysOf(es) THEN es[Place(es, e.key)].size ELSE 0
    BY <1>1, <1>3, HeldType
  <1>5. PICK F : Sums(F, es)
    BY SumsExist
  <1>6. PICK n : n = Evictions(c, e.key, e.size)
    OBVIOUS
  <1>7. n \in 0..(l + 1) /\ (n <= l => c.size - held - F[n] + e.size <= MaxSize)
    BY <1>0, <1>1, <1>2, <1>3, <1>5, <1>6, EvictionsSuffice
  <1>8. \A m \in 0..l : F[m] \in Int /\ CountAfter(c, e.key, m) = c.size - held - F[m]
    BY <1>1, <1>2, <1>3, <1>5, TotalOfPrefix DEF CountAfter, Sums
  <1>9. TotalSize(es) = F[l] /\ F[l] \in Int /\ F[0] = 0 /\ F[0] <= F[l]
    BY <1>2, <1>5, TotalIs, SumsGrow DEF Sums
  <1>10. TakesOffTwice(c, e.key, e.size) <=> e.key \in KeysOf(es) /\ Place(es, e.key) <= n
    BY <1>1, <1>6 DEF TakesOffTwice, Keys
  <1>11. e.key \in KeysOf(es) => Place(es, e.key) \in 1..l
    BY <1>2, PlaceOK
  <1>12. PICK new \in CacheEntry : new = e
    OBVIOUS
  <1>13. new = [key |-> e.key, val |-> e.val, size |-> e.size, created |-> now]
    BY <1>12 DEF CacheEntry
  <1>14. CASE n > l
    <2>1. PICK count \in Int : count = c.size - held - F[l]
      BY <1>0, <1>9
    <2>2. AfterPut(c, e.key, e.val, e.size, now) = [entries |-> <<>>, size |-> count]
      BY <1>1, <1>2, <1>6, <1>8, <1>14, <2>1 DEF AfterPut
    <2>3. count <= MaxSize
      BY <1>0, <1>9, <2>1, CacheAssumption
    <2>4. TotalSize(<<>>) = 0
      <3>1. <<>> \in Seq(CacheEntry) /\ Len(<<>>) = 0
        OBVIOUS
      <3>2. PICK G : G = [i \in 0..0 |-> 0]
        OBVIOUS
      <3>3. Sums(G, <<>>)
        BY <3>1, <3>2 DEF Sums
      <3>. QED
        BY <3>1, <3>2, <3>3, TotalIs
    <2>5. exactly => count = 0
      <3>. SUFFICES ASSUME exactly PROVE count = 0
        OBVIOUS
      <3>1. e.key \notin KeysOf(es)
        BY <1>2, <1>7, <1>10, <1>11, <1>14
      <3>2. held = 0
        BY <1>4, <3>1
      <3>. QED
        BY <1>0, <1>1, <1>9, <2>1, <3>2
    <2>6. <<>> \in Seq(CacheEntry) /\ Distinct(<<>>)
      BY DEF Distinct
    <2>. QED
      BY <2>2, <2>3, <2>4, <2>5, <2>6 DEF AccountOf
  <1>15. CASE ~(n > l)
    <2>1. n \in 0..l
      BY <1>2, <1>7, <1>15
    <2>2. PICK count \in Int : count = c.size - held - F[n] + e.size
      BY <1>0, <1>8, <2>1
    <2>3. PICK rest : rest = SubSeq(es, n + 1, Len(es))
      OBVIOUS
    <2>4. PICK kept : kept = Without(rest, e.key)
      OBVIOUS
    <2>5. rest \in Seq(CacheEntry) /\ Distinct(rest) /\ TotalSize(rest) = F[l] - F[n]
      BY <1>0, <1>1, <1>2, <1>5, <1>9, <2>1, <2>3, SuffixKeeps, TotalOfSuffix DEF KeptOf
    <2>6. kept \in Seq(CacheEntry) /\ Distinct(kept) /\ e.key \notin KeysOf(kept)
      BY <2>4, <2>5, WithoutKeeps DEF KeptOf
    <2>7. PICK s : s = Append(kept, new)
      OBVIOUS
    <2>8. s \in Seq(CacheEntry) /\ Distinct(s) /\ TotalSize(s) = TotalSize(kept) + e.size
      BY <1>12, <2>6, <2>7, AppendKeeps, TotalOfAppend
    <2>9. AfterPut(c, e.key, e.val, e.size, now) = [entries |-> s, size |-> count]
      <3>1. CountAfter(c, e.key, n) = c.size - held - F[n]
        BY <1>8, <2>1
      <3>2. AfterPut(c, e.key, e.val, e.size, now)
              = [entries |-> Append(Without(SubSeq(es, n + 1, Len(es)), e.key),
                                    [key |-> e.key, val |-> e.val, size |-> e.size, created |-> now]),
                 size |-> CountAfter(c, e.key, n) + e.size]
        BY <1>1, <1>2, <1>6, <1>15 DEF AfterPut
      <3>. QED
        BY <1>13, <2>2, <2>3, <2>4, <2>7, <3>1, <3>2
    <2>10. count <= MaxSize
      BY <1>7, <2>1, <2>2
    <2>11. exactly => count = TotalSize(s)
      <3>. SUFFICES ASSUME exactly PROVE count = TotalSize(s)
        OBVIOUS
      <3>1. c.size = F[l] /\ ~(e.key \in KeysOf(es) /\ Place(es, e.key) <= n)
        BY <1>0, <1>1, <1>9, <1>10
      <3>2. TotalSize(kept) = TotalSize(rest) - held
        <4>1. TotalSize(kept) = TotalSize(rest)
                - (IF e.key \in KeysOf(rest) THEN rest[Place(rest, e.key)].size ELSE 0)
          BY <2>4, <2>5, TotalWithout
        <4>2. Len(rest) = l - n /\ \A i \in 1..(l - n) : rest[i] = es[n + i]
          BY <1>2, <2>1, <2>3, SubSeqProperties
        <4>3. CASE e.key \in KeysOf(rest)
          <5>1. PICK q \in 1..(l - n) : q = Place(rest, e.key) /\ rest[q].key = e.key
            BY <2>5, <4>2, <4>3, PlaceOK
          <5>2. n + q \in 1..l /\ es[n + q] = rest[q]
            BY <2>1, <4>2, <5>1
          <5>3. e.key \in KeysOf(es)
            BY <1>2, <5>1, <5>2, LenProperties DEF KeysOf
          <5>4. PICK p \in 1..l : p = Place(es, e.key) /\ es[p].key = e.key
            BY <1>2, <5>3, PlaceOK
          <5>5. p = n + q
            BY <1>0, <1>1, <1>2, <5>1, <5>2, <5>4 DEF Distinct
          <5>. QED
            BY <1>4, <4>1, <4>3, <5>1, <5>2, <5>3, <5>4, <5>5
        <4>4. CASE e.key \notin KeysOf(rest)
          <5>1. e.key \notin KeysOf(es)
            <6>. SUFFICES ASSUME e.key \in KeysOf(es) PROVE FALSE
              OBVIOUS
            <6>1. PICK p \in 1..l : p = Place(es, e.key) /\ es[p].key = e.key /\ ~(p <= n)
              BY <1>2, <3>1, PlaceOK
            <6>2. p - n \in 1..(l - n) /\ n + (p - n) = p
              BY <2>1, <6>1
            <6>3. rest[p - n].key = e.key
              BY <4>2, <6>1, <6>2
            <6>. QED
              BY <2>5, <4>2, <4>4, <6>2, <6>3, LenProperties DEF KeysOf
          <5>. QED
            BY <1>4, <2>5, <4>1, <4>4, <5>1
        <4>. QED
          BY <4>3, <4>4
      <3>. QED
        BY <1>0, <1>8, <1>9, <2>1, <2>2, <2>5, <2>8, <3>1, <3>2
    <2>. QED
      BY <2>8, <2>9, <2>10, <2>11 DEF AccountOf
  <1>. QED
    BY <1>2, <1>7, <1>14, <1>15

AccountInv ==
  /\ transport \in Transports /\ recounted \in BOOLEAN
  /\ AccountOf(cache, ~recounted)

(* The empty cache counts nothing.                                         *)
LEMMA AccountInit == Init => AccountInv
  <1>. SUFFICES ASSUME Init PROVE AccountInv
    OBVIOUS
  <1>1. cache.entries = <<>> /\ cache.size = 0 /\ transport \in Transports /\ recounted = FALSE
    BY DEF Init, EmptyCache
  <1>2. <<>> \in Seq(CacheEntry) /\ Len(<<>>) = 0 /\ Distinct(<<>>)
    BY DEF Distinct
  <1>3. TotalSize(<<>>) = 0
    <2>1. PICK G : G = [i \in 0..0 |-> 0]
      OBVIOUS
    <2>2. Sums(G, <<>>)
      BY <1>2, <2>1 DEF Sums
    <2>. QED
      BY <1>2, <2>1, <2>2, TotalIs
  <1>. QED
    <2>1. 0 \in Int /\ 0 <= MaxSize
      BY CacheAssumption
    <2>2. AccountOf(cache, ~recounted)
      BY <1>1, <1>2, <1>3, <2>1 DEF AccountOf
    <2>3. recounted \in BOOLEAN
      BY <1>1, Zenon
    <2>. QED
      BY <1>1, <2>2, <2>3 DEF AccountInv

(* A put keeps the account, unless an entry is taken off twice.            *)
LEMMA PutAccount ==
  ASSUME CacheInv, NEW cached, recounted \in BOOLEAN, AccountOf(cached, ~recounted),
         NEW q \in Queries, NEW val \in Results, PutResults(cached, q, val)
  PROVE  recounted' \in BOOLEAN /\ AccountOf(cache', ~recounted')
  <1>1. SizeOf(val) \in Nat
    BY ToolCallsAssumption DEF SizeOf, Results
  <1>2. PICK e : e = [key |-> q, val |-> val, size |-> SizeOf(val), created |-> now]
    OBVIOUS
  <1>3. /\ e \in CacheEntry /\ e.key = q /\ e.val = val /\ e.size = SizeOf(val)
        /\ e.created = now
    BY <1>1, <1>2 DEF CacheInv, CacheEntry
  <1>4. /\ cache' = AfterPut(cached, e.key, e.val, e.size, now)
        /\ recounted' = (recounted \/ TakesOffTwice(cached, e.key, e.size))
    BY <1>3 DEF PutResults
  <1>5. recounted' \in BOOLEAN
    BY <1>4, Zenon
  <1>6. ~recounted' <=> ~recounted /\ ~TakesOffTwice(cached, e.key, e.size)
    BY <1>4, Zenon
  <1>7. AccountOf(AfterPut(cached, e.key, e.val, e.size, now), ~recounted')
    BY <1>3, <1>6, AfterPutAccount
  <1>. QED
    BY <1>4, <1>5, <1>7

(* Every step keeps the account.                                           *)
LEMMA AccountStep ==
  ASSUME CacheInv, CallsOK, AccountInv, [Next]_vars
  PROVE  AccountInv'
  <1>1. /\ cache = [entries |-> cache.entries, size |-> cache.size]
        /\ SoundEntries(cache.entries) /\ FoundOK
        /\ now \in 0..MaxTime /\ index \in 0..MaxVersion
    BY DEF CacheInv, FoundOK
  <1>2. transport' = transport
    BY DEF Next, Request, Read, CallTool, CallFails, CacheHit, CacheMiss, Embedded, Search, Answer,
           IndexChanges, Tick, Observe, vars
  <1>3. CASE cache' = cache /\ recounted' = recounted
    BY <1>2, <1>3 DEF AccountInv
  <1>4. ASSUME NEW c \in Calls, CacheHit(c) PROVE AccountInv'
    <2>1. PICK q \in Queries : q = calls[c].query
      BY <1>4, AtType DEF CacheHit, At, Call
    <2>2. PICK e \in CacheEntry : e = Entry(cache, q)
      BY <1>1, <1>4, <2>1, FoundIsSound DEF CacheHit, Found
    <2>3. e.val \in Results
      BY DEF CacheEntry
    <2>4. PICK cached : cached = AfterGet(cache, q, now)
      OBVIOUS
    <2>5. AccountOf(cached, ~recounted) /\ recounted \in BOOLEAN
      BY <2>4, AfterGetAccount DEF AccountInv
    <2>6. PutResults(cached, q, e.val)
      BY <1>4, <2>1, <2>2, <2>4 DEF CacheHit
    <2>. QED
      BY <1>2, <2>3, <2>5, <2>6, PutAccount DEF AccountInv
  <1>5. ASSUME NEW c \in Calls, CacheMiss(c) PROVE AccountInv'
    <2>1. cache' = AfterGet(cache, calls[c].query, now) /\ recounted' = recounted
      BY <1>5 DEF CacheMiss
    <2>2. AccountOf(AfterGet(cache, calls[c].query, now), ~recounted)
      BY AfterGetAccount DEF AccountInv
    <2>. QED
      BY <1>2, <2>1, <2>2 DEF AccountInv
  <1>6. ASSUME NEW c \in Calls, Answer(c) PROVE AccountInv'
    <2>1. calls[c] \in Call
      BY <1>6, AtType DEF Answer, At
    <2>2. PICK q \in Queries : q = calls[c].query
      BY <2>1 DEF Call
    <2>3. PICK val \in Results : val = [query |-> q, version |-> calls[c].version, at |-> now]
      BY <1>1, <2>1 DEF Call, Results
    <2>4. PutResults(cache, q, val)
      BY <1>6, <2>2, <2>3 DEF Answer
    <2>. QED
      BY <1>2, <2>4, PutAccount DEF AccountInv
  <1>. QED
    BY <1>3, <1>4, <1>5, <1>6
       DEF Next, Request, Read, CallTool, CallFails, Embedded, Search, IndexChanges, Tick, Observe, vars

-----------------------------------------------------------------------------
(* The theorems *)

Inv == RateInv /\ CacheInv /\ AccountInv

(* Types of the limiter and the calls, the accounts of the subjects, the
   soundness and the account of the cache hold together in every reachable
   state (server.py, rate_limiter.py, lru.py). *)
THEOREM Invariance == Spec => []Inv
  <1>1. Init => Inv
    BY RateInit, CacheInit, AccountInit DEF Inv
  <1>2. Inv /\ [Next]_vars => Inv'
    BY RateStep, CacheStep, AccountStep DEF Inv, RateInv, CacheInv
  <1>. QED
    BY <1>1, <1>2, PTL DEF Spec

(* However often the cleanup drops and a check creates buckets, no subject is
   granted more in a window of time than a full bucket and its refill
   (rate_limiter.py check, _maybe_cleanup). *)
THEOREM Rate == Spec => []GrantsWithinRate
  <1>1. Inv => GrantsWithinRate
    <2>. SUFFICES ASSUME Inv, NEW s \in Subjects
                  PROVE  granted[s] * Token <= Capacity * Token + (now - opened) * RequestsPerMinute
      BY DEF GrantsWithinRate
    <2>1. /\ granted[s] * Token + Current(s).units
               <= Capacity * Token + (now - opened) * RequestsPerMinute
          /\ Current(s).units \in 0..(Capacity * Token)
      BY CurrentOK DEF Inv, Bucket
    <2>2. /\ granted[s] * Token \in Nat /\ Capacity * Token \in Nat
          /\ (now - opened) * RequestsPerMinute \in Int
      BY BucketAssumption, CapacityType DEF Inv, RateInv, LimiterOK, Token
    <2>. QED
      BY <2>1, <2>2
  <1>. QED
    BY <1>1, Invariance, PTL

(* At 60 requests a minute or more, a refused subject that waits as long as
   it was told is admitted (rate_limiter.py check). *)
THEOREM Promise ==
  ASSUME RequestsPerMinute >= 60
  PROVE  Spec => []RetryAfterSuffices
  <1>1. Inv => RetryAfterSuffices
    <2>. SUFFICES ASSUME Inv, NEW s \in Subjects, promise[s] # 0, now >= promise[s],
                         ~CanTake(Current(s))
                  PROVE  FALSE
      BY DEF RetryAfterSuffices
    <2>1. buckets[s].last = now
      BY CurrentOK DEF Inv
    <2>2. promise[s] = buckets[s].last + 1 /\ now \in Nat
      BY DEF Inv, RateInv, Promised, LimiterOK
    <2>. QED
      BY <2>1, <2>2
  <1>. QED
    BY <1>1, Invariance, PTL

(* However searches overlap with each other and with changes of the index,
   the cache answers a query with what was found for it (server.py _search_kb,
   lru.py). *)
THEOREM Cached == Spec => []CachedWasSearched
  <1>1. Inv => CachedWasSearched
    <2>. SUFFICES ASSUME Inv PROVE CachedWasSearched
      OBVIOUS
    <2>1. DOMAIN cache.entries = 1..Len(cache.entries) /\ SoundEntries(cache.entries)
      BY LenProperties DEF Inv, CacheInv, SoundEntries
    <2>. QED
      BY <2>1 DEF CachedWasSearched, SoundEntries, Sound, Distinct
  <1>. QED
    BY <1>1, Invariance, PTL

(* Every variable keeps its type: no bucket overflows, the cache is a
   sequence of entries of results, and a call stays in one of its places
   (server.py, rate_limiter.py, lru.py). *)
THEOREM Typing == Spec => []TypeOK
  <1>1. Inv => TypeOK
    <2>. SUFFICES ASSUME Inv PROVE TypeOK
      OBVIOUS
    <2>1. cache \in [entries : Seq(CacheEntry), size : Int]
      BY DEF Inv, CacheInv, SoundEntries, AccountInv, AccountOf
    <2>. QED
      BY <2>1 DEF Inv, RateInv, LimiterOK, CallsOK, CacheInv, AccountInv, TypeOK
  <1>. QED
    BY <1>1, Invariance, PTL

(* Whatever is found, evicted, replaced and put again, the count of bytes
   stays within the limit, and is the sum of what is held until a put takes
   an entry off twice (lru.py get, put). *)
THEOREM CacheAccounted == Spec => []AccountedUnlessRecounted
  <1>1. Inv => AccountedUnlessRecounted
    BY DEF Inv, AccountInv, AccountOf, AccountedUnlessRecounted
  <1>. QED
    BY <1>1, Invariance, PTL
=============================================================================
