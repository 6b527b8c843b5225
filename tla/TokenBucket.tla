---------------------------- MODULE TokenBucket ----------------------------
(***************************************************************************)
(* The token bucket of ingest/worker/limiter.py, as the request limiter of *)
(* the server uses it: one token at a time, without waiting.               *)
(*                                                                         *)
(* Time is in whole seconds.  rate is requests_per_minute / 60 tokens a    *)
(* second, so tokens are counted in sixtieths, and a second adds exactly   *)
(* RequestsPerMinute of them.                                              *)
(***************************************************************************)
EXTENDS Integers

CONSTANT RequestsPerMinute

ASSUME BucketAssumption == RequestsPerMinute \in Nat \ {0}

Token == 60

(* self.capacity: int(self.rate * 2), in whole tokens.  It is 0 when there *)
(* are fewer than 30 requests a minute, and nothing is ever granted.       *)
Capacity == (2 * RequestsPerMinute) \div 60

Bucket == [units : 0..(Capacity * Token), last : Nat]

FullBucket(now) == [units |-> Capacity * Token, last |-> now]

(* _refill *)
Lesser(m, n) == IF m <= n THEN m ELSE n
Refilled(b, now) ==
  [units |-> Lesser(Capacity * Token, b.units + (now - b.last) * RequestsPerMinute),
   last |-> now]

(* Variant: part of a token is enough. *)
CanTakePart(b) == b.units > 0

(* try_acquire, after the refill *)
CanTake(b) == b.units >= Token
Taken(b) == [b EXCEPT !.units = @ - Token]

(* available_tokens: no refill *)
AvailableTokens(b) == b.units \div Token

(* Variant: a wait of less than a second is announced as none. *)
RetryAfterFloor(b) == ((1 - AvailableTokens(b)) * Token) \div RequestsPerMinute

(* ServerRateLimiter.check: the seconds announced with a refusal *)
Greater(m, n) == IF m <= n THEN n ELSE m
RetryAfter(b) ==
  IF AvailableTokens(b) < 1
    THEN Greater(1, ((1 - AvailableTokens(b)) * Token) \div RequestsPerMinute)
    ELSE 1
=============================================================================
