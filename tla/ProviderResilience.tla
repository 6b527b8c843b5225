------------------------- MODULE ProviderResilience -------------------------
(***************************************************************************)
(* The embedding client (kb_server/embed_client.py) with its circuit       *)
(* breaker and its request budget: concurrent coroutines of one event loop *)
(* dispatch texts along a chain of providers.                              *)
(*                                                                         *)
(* A coroutine gives up the loop only while a provider works on its        *)
(* request.  What it does from one answer to the next request (recording   *)
(* the answer, checking breaker and budget of every provider it skips) is  *)
(* therefore one step; what the other coroutines do meanwhile happens      *)
(* between its check and its record.                                       *)
(*                                                                         *)
(* Times are relative: a cooldown is what is left of it, the deque of a    *)
(* budget holds the ages of the recorded requests, oldest first.           *)
(***************************************************************************)
EXTENDS Integers, Sequences, FiniteSets

CONSTANTS
  Providers,
  Chains,            (* values of PROVIDER_CHAIN                           *)
  Requests,          (* the coroutines                                     *)
  NativeBatch,       (* the primary backend has a batch call               *)
  BatchSize,         (* texts in a batch                                   *)
  FailureThreshold, CooldownBase, CooldownMax,     (* of the breaker       *)
  WindowSeconds, MaxRequests,                      (* of the budget        *)
  MaxKept            (* bound: no batch starts when the deque is that long *)

ASSUME ResilienceAssumption ==
  /\ \A c \in Chains : c \in Seq(Providers) /\ c # <<>>
  /\ NativeBatch \in BOOLEAN
  /\ {BatchSize, FailureThreshold, CooldownBase, CooldownMax, MaxRequests} \subseteq Nat \ {0}
  /\ CooldownBase <= CooldownMax
  /\ WindowSeconds \in Nat /\ MaxKept \in Nat

ASSUME ResilienceFinite == IsFiniteSet(Requests)

VARIABLES
  chain,    \* the chain of this process, read when it starts
  breaker,  \* breaker[p]: state, failures in a row, rest of the cooldown, multiplier
  usage,    \* usage[p]: ages of the recorded requests
  up,       \* up[p]: whether the provider answers
  pc,       \* per coroutine: "idle", "call" or "native" (batch call)
  pos,      \*   the position in the chain of the provider it calls,
  left,     \*   texts still to embed one by one, and
  batches,  \*   batches still to embed after those
  tested    \* history: whether its call was let through by a half-open circuit

vars == <<chain, breaker, usage, up, pc, pos, left, batches, tested>>

State == {"closed", "open", "half_open"}
MaxMultiplier == CooldownMax \div CooldownBase + 1
Native == NativeBatch /\ Len(chain) = 1
Primary == chain[1]

Entry == [state : State, failures : 0..FailureThreshold, cooldown : 0..CooldownMax,
          multiplier : 1..MaxMultiplier]
Deque == Seq(0..(WindowSeconds + 1))

TypeOK ==
  /\ chain \in Chains
  /\ breaker \in [Providers -> Entry]
  /\ usage \in [Providers -> Deque]
  /\ up \in [Providers -> BOOLEAN]
  /\ pc \in [Requests -> {"idle", "call", "native"}]
  /\ pos \in [Requests -> 1..Len(chain)]
  /\ left \in [Requests -> 0..BatchSize]
  /\ batches \in [Requests -> Nat]
  /\ tested \in [Requests -> BOOLEAN]

-----------------------------------------------------------------------------
(* CircuitBreaker: what each operation does to the entry of its provider   *)

(* Variant: an expired cooldown does not let a test request through. *)
CheckedNever(b) == b

(* check *)
Checked(b) ==
  IF b.state = "open" /\ b.cooldown = 0 THEN [b EXCEPT !.state = "half_open"] ELSE b

(* Variant: the failure count survives a success. *)
SuccessKeepsCount(b) == [b EXCEPT !.state = "closed"]

(* record_success *)
Success(b) == [b EXCEPT !.state = "closed", !.failures = 0]

(* Variant: the multiplier is not capped. *)
NextMultiplierUncapped(m) == 2 * m

(* _next_cooldown *)
AtMost(bound, n) == IF n <= bound THEN n ELSE bound
NextMultiplier(m) == AtMost(MaxMultiplier, 2 * m)

Opened(b) ==
  [b EXCEPT !.state = "open",
            !.cooldown = AtMost(CooldownMax, CooldownBase * b.multiplier),
            !.multiplier = NextMultiplier(b.multiplier)]

(* record_failure.  The count only matters up to the threshold: it is      *)
(* capped there.                                                           *)
Failure(b) ==
  LET c == [b EXCEPT !.failures = AtMost(FailureThreshold, b.failures + 1)]
  IN  IF b.state = "half_open" \/ c.failures = FailureThreshold THEN Opened(c) ELSE c

-----------------------------------------------------------------------------
(* ProviderBudget *)

(* _purge: the expired requests are the first of the deque. *)
Expired(u) == {i \in DOMAIN u : u[i] > WindowSeconds}
Purged(u) == SubSeq(u, Cardinality(Expired(u)) + 1, Len(u))

(* Variant: the comparison with the limit is off by one. *)
WithinBudgetOrAt(u) == Len(Purged(u)) <= MaxRequests

(* check_budget *)
WithinBudget(u) == Len(Purged(u)) < MaxRequests

(* record_request *)
Recorded(u) == Append(u, 0)

-----------------------------------------------------------------------------
(* Dispatching *)

(* _try_provider lets a request through. *)
Admits(p, b, u) == Checked(b[p]).state # "open" /\ WithinBudget(u[p])

(* The providers looked at from position i up to position k. *)
Looked(i, k) == {chain[n] : n \in i..k}

(* check runs on each provider looked at, check_budget on those not open.  *)
CheckAll(b, S) == [p \in Providers |-> IF p \in S THEN Checked(b[p]) ELSE b[p]]
PurgeAll(u, b, S) ==
  [p \in Providers |-> IF p \in S /\ b[p].state # "open" THEN Purged(u[p]) ELSE u[p]]

(* _dispatch_with_resilience for a text, from position i, with breaker b   *)
(* and budget u: to the first provider that admits the request, and if     *)
(* none does the coroutine ends with an exception.                         *)
Dispatch(r, i, b, u, n, k) ==
  \/ \E j \in i..Len(chain) :
       /\ Admits(chain[j], b, u)
       /\ \A h \in i..(j - 1) : ~Admits(chain[h], b, u)
       /\ breaker' = CheckAll(b, Looked(i, j))
       /\ usage' = PurgeAll(u, breaker', Looked(i, j))
       /\ pc' = [pc EXCEPT ![r] = "call"]
       /\ pos' = [pos EXCEPT ![r] = j]
       /\ left' = [left EXCEPT ![r] = n]
       /\ batches' = [batches EXCEPT ![r] = k]
       /\ tested' = [tested EXCEPT ![r] = Checked(b[chain[j]]).state = "half_open"]
  \/ /\ \A h \in i..Len(chain) : ~Admits(chain[h], b, u)
     /\ breaker' = CheckAll(b, Looked(i, Len(chain)))
     /\ usage' = PurgeAll(u, breaker', Looked(i, Len(chain)))
     /\ pc' = [pc EXCEPT ![r] = "idle"]
     /\ left' = [left EXCEPT ![r] = 0]
     /\ batches' = [batches EXCEPT ![r] = 0]
     /\ UNCHANGED <<pos, tested>>

(* A batch is sent to the primary provider with neither check. *)
SendBatch(r, b, u, k) ==
  /\ breaker' = b /\ usage' = u
  /\ pc' = [pc EXCEPT ![r] = "native"]
  /\ pos' = [pos EXCEPT ![r] = 1]
  /\ left' = [left EXCEPT ![r] = 0]
  /\ batches' = [batches EXCEPT ![r] = k]
  /\ tested' = [tested EXCEPT ![r] = FALSE]

(* The texts of coroutine r that remain: n one by one, then k batches. *)
Continue(r, b, u, n, k) ==
  \/ /\ n > 0
     /\ Dispatch(r, 1, b, u, n, k)
  \/ /\ n = 0 /\ k > 0 /\ Native
     /\ SendBatch(r, b, u, k - 1)
  \/ /\ n = 0 /\ k > 0 /\ ~Native
     /\ Dispatch(r, 1, b, u, BatchSize, k - 1)
  \/ /\ n = 0 /\ k = 0
     /\ breaker' = b /\ usage' = u
     /\ pc' = [pc EXCEPT ![r] = "idle"]
     /\ left' = [left EXCEPT ![r] = 0]
     /\ UNCHANGED <<pos, batches, tested>>

GetEmbedding(r) ==
  /\ pc[r] = "idle"
  /\ Dispatch(r, 1, breaker, usage, 1, 0)
  /\ UNCHANGED <<chain, up>>

(* Two batches are enough for a batch to follow another; the deque is       *)
(* bounded because nothing purges it while batches are answered.           *)
GetEmbeddingsBatch(r) ==
  /\ pc[r] = "idle"
  /\ Len(usage[Primary]) < MaxKept
  /\ \E k \in 1..2 : Continue(r, breaker, usage, 0, k)
  /\ UNCHANGED <<chain, up>>

Called(r) == chain[pos[r]]

(* fn(text) returns. *)
Answered(r) ==
  /\ pc[r] = "call" /\ up[Called(r)]
  /\ LET p == Called(r)
     IN  Continue(r, [breaker EXCEPT ![p] = Success(@)], [usage EXCEPT ![p] = Recorded(@)],
                  left[r] - 1, batches[r])
  /\ UNCHANGED <<chain, up>>

(* fn(text) raises: the next provider of the chain. *)
Failed(r) ==
  /\ pc[r] = "call" /\ ~up[Called(r)]
  /\ LET p == Called(r)
     IN  Dispatch(r, pos[r] + 1, [breaker EXCEPT ![p] = Failure(@)], usage, left[r], batches[r])
  /\ UNCHANGED <<chain, up>>

BatchAnswered(r) ==
  /\ pc[r] = "native" /\ up[Primary]
  /\ Continue(r, [breaker EXCEPT ![Primary] = Success(@)], [usage EXCEPT ![Primary] = Recorded(@)],
              0, batches[r])
  /\ UNCHANGED <<chain, up>>

(* The batch call raises: its texts are dispatched one by one. *)
BatchFailed(r) ==
  /\ pc[r] = "native" /\ ~up[Primary]
  /\ Continue(r, [breaker EXCEPT ![Primary] = Failure(@)], usage, BatchSize, batches[r])
  /\ UNCHANGED <<chain, up>>

Tick ==
  /\ breaker' = [p \in Providers |->
                   [breaker[p] EXCEPT !.cooldown = IF @ = 0 THEN 0 ELSE @ - 1]]
  /\ usage' = [p \in Providers |->
                 [i \in DOMAIN usage[p] |-> AtMost(WindowSeconds + 1, usage[p][i] + 1)]]
  /\ UNCHANGED <<chain, up, pc, pos, left, batches, tested>>

(* A provider becomes unreachable, or reachable again. *)
Toggle(p) ==
  /\ up' = [up EXCEPT ![p] = ~@]
  /\ UNCHANGED <<chain, breaker, usage, pc, pos, left, batches, tested>>

Init ==
  /\ chain \in Chains
  /\ breaker = [p \in Providers |->
                  [state |-> "closed", failures |-> 0, cooldown |-> 0, multiplier |-> 1]]
  /\ usage = [p \in Providers |-> <<>>]
  /\ up = [p \in Providers |-> TRUE]
  /\ pc = [r \in Requests |-> "idle"]
  /\ pos = [r \in Requests |-> 1]
  /\ left = [r \in Requests |-> 0]
  /\ batches = [r \in Requests |-> 0]
  /\ tested = [r \in Requests |-> FALSE]

Return(r) == Answered(r) \/ Failed(r) \/ BatchAnswered(r) \/ BatchFailed(r)

Next ==
  \/ \E r \in Requests : GetEmbedding(r) \/ GetEmbeddingsBatch(r) \/ Return(r)
  \/ Tick
  \/ \E p \in Providers : Toggle(p)

Spec == Init /\ [][Next]_vars

(* Every HTTP call has a timeout, time passes, and texts keep coming.      *)
FairSpec ==
  /\ Spec
  /\ WF_vars(Tick)
  /\ \A r \in Requests : WF_vars(Return(r)) /\ WF_vars(GetEmbedding(r))

-----------------------------------------------------------------------------
(* Properties *)

InFlight(p) == {r \in Requests : pc[r] # "idle" /\ Called(r) = p}

(* The budget is checked before the call and recorded after it, so calls   *)
(* in flight are not counted: n coroutines may exceed it, but by no more   *)
(* than n - 1 requests in any window, whatever fails or is retried; and    *)
(* the deque, which is only purged by the next check, grows no longer.     *)
BudgetOvershootBounded ==
  ~Native => \A p \in Providers : Len(usage[p]) <= MaxRequests - 1 + Cardinality(Requests)

(* However late answers arrive, a circuit is closed exactly when fewer     *)
(* than FailureThreshold results in a row, in order of arrival, were       *)
(* failures.                                                               *)
ClosedUnlessFailing ==
  \A p \in Providers : breaker[p].state = "closed" <=> breaker[p].failures < FailureThreshold

(* A provider that answers for good is used again: no breaker state, no    *)
(* escalated cooldown and no exhausted budget locks it out for ever.       *)
RecoversWhenUp == <>[]up[Primary] => <>[](breaker[Primary].state = "closed")

(* circuit_breaker.py:35: "HALF_OPEN - Allows a single test request".      *)
SingleTest ==
  \A p \in Providers :
    breaker[p].state = "half_open" => Cardinality({r \in InFlight(p) : tested[r]}) <= 1
=============================================================================
