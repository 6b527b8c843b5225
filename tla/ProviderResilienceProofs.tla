---------------------- MODULE ProviderResilienceProofs ----------------------
(***************************************************************************)
(* Proofs about ProviderResilience, for any chain of providers, any number *)
(* of coroutines and any thresholds, windows and cooldowns.                *)
(*                                                                         *)
(* The bound on the budget is not inductive: Budgeted counts the calls in  *)
(* flight together with the requests recorded.                             *)
(***************************************************************************)
EXTENDS ProviderResilience, FiniteSetTheorems, SequenceTheorems, TLAPS

EntryOK(b) == b \in Entry /\ (b.state = "closed" <=> b.failures < FailureThreshold)

(* A capped number is at most its cap. *)
LEMMA CapType == ASSUME NEW m \in Nat, NEW n \in Nat PROVE AtMost(m, n) \in 0..m
  BY DEF AtMost

(* The cap of the multiplier is at least 1. *)
LEMMA MultType == MaxMultiplier \in Nat /\ MaxMultiplier >= 1
  <1>1. CooldownMax \in Nat /\ CooldownBase \in Nat /\ CooldownBase > 0
    BY ResilienceAssumption
  <1>2. CooldownMax \div CooldownBase \in Nat
    BY <1>1
  <1>. QED
    BY <1>2 DEF MaxMultiplier

(* record_success keeps an entry well formed: it is closed exactly when its
   count is below the threshold. *)
LEMMA SuccessOK == ASSUME NEW b, EntryOK(b) PROVE EntryOK(Success(b))
  <1>1. b \in Entry /\ FailureThreshold \in Nat /\ FailureThreshold > 0
    BY ResilienceAssumption DEF EntryOK
  <1>2. Success(b) \in Entry
    <2>1. "closed" \in State /\ 0 \in 0..FailureThreshold
      BY <1>1 DEF State
    <2>2. [b EXCEPT !.state = "closed"] \in Entry
      BY <1>1, <2>1 DEF Entry
    <2>. QED
      BY <2>1, <2>2 DEF Entry, Success
  <1>3. Success(b).state = "closed" /\ Success(b).failures = 0
    BY <1>1 DEF Entry, Success
  <1>. QED
    BY <1>1, <1>2, <1>3 DEF EntryOK

(* So does check, *)
LEMMA CheckedOK == ASSUME NEW b, EntryOK(b) PROVE EntryOK(Checked(b))
  BY ResilienceAssumption DEF EntryOK, Entry, Checked, State

(* opening a circuit leaves the count alone, *)
LEMMA OpenedOK ==
  ASSUME NEW b \in Entry
  PROVE  Opened(b) \in Entry /\ Opened(b).state = "open" /\ Opened(b).failures = b.failures
  <1>1. NextMultiplier(b.multiplier) \in 1..MaxMultiplier
    BY MultType DEF Entry, NextMultiplier, AtMost
  <1>2. CooldownBase * b.multiplier \in Nat /\ CooldownMax \in Nat
    BY ResilienceAssumption, MultType DEF Entry
  <1>3. AtMost(CooldownMax, CooldownBase * b.multiplier) \in 0..CooldownMax
    BY <1>2, CapType
  <1>. QED
    BY <1>1, <1>3 DEF Entry, Opened, State

(* and so does record_failure: an open or half-open entry is at the threshold. *)
LEMMA FailureOK == ASSUME NEW b, EntryOK(b) PROVE EntryOK(Failure(b))
  <1>. DEFINE n == AtMost(FailureThreshold, b.failures + 1)
              c == [b EXCEPT !.failures = n]
  <1>1. b \in Entry /\ b.failures \in 0..FailureThreshold /\ FailureThreshold \in Nat \ {0}
    BY ResilienceAssumption DEF EntryOK, Entry
  <1>2. n \in 0..FailureThreshold
    <2>1. b.failures + 1 \in Nat
      BY <1>1
    <2>. QED
      BY <1>1, <2>1, CapType
  <1>3. c \in Entry /\ c.failures = n /\ c.state = b.state
    BY <1>1, <1>2 DEF Entry
  <1>4. b.state # "closed" => n = FailureThreshold
    <2>1. b.state # "closed" => b.failures = FailureThreshold
      BY <1>1 DEF EntryOK
    <2>. QED
      BY <1>1, <2>1 DEF AtMost
  <1>5. Failure(b) = IF b.state = "half_open" \/ n = FailureThreshold THEN Opened(c) ELSE c
    BY <1>3 DEF Failure
  <1>6. Opened(c) \in Entry /\ Opened(c).state = "open" /\ Opened(c).failures = n
    BY <1>3, OpenedOK
  <1>. HIDE DEF n, c
  <1>. QED
    BY <1>1, <1>2, <1>3, <1>4, <1>5, <1>6 DEF EntryOK, Entry, State

-----------------------------------------------------------------------------
(* The budget *)

(* Purging never lengthens a deque. *)
LEMMA PurgedProperties ==
  ASSUME NEW u \in Deque
  PROVE  Purged(u) \in Deque /\ Len(Purged(u)) \in Nat /\ Len(Purged(u)) <= Len(u)
  <1>1. Len(u) \in Nat /\ DOMAIN u = 1..Len(u)
    BY LenProperties DEF Deque
  <1>2. IsFiniteSet(1..Len(u))
    BY <1>1, FS_Interval
  <1>3. Cardinality(Expired(u)) \in Nat
    BY <1>1, <1>2, FS_Subset, FS_CardinalityType DEF Expired
  <1>. DEFINE c == Cardinality(Expired(u)) + 1
  <1>4. c \in Int /\ c >= 1 /\ \A i \in c..Len(u) : u[i] \in 0..(WindowSeconds + 1)
    <2>1. c \in Int /\ c >= 1
      BY <1>3
    <2>2. ASSUME NEW i \in c..Len(u) PROVE u[i] \in 0..(WindowSeconds + 1)
      <3>1. i \in 1..Len(u)
        BY <1>1, <2>1, <2>2
      <3>. QED
        BY <3>1, ElementOfSeq DEF Deque
    <2>. QED
      BY <2>1, <2>2
  <1>5. /\ SubSeq(u, c, Len(u)) \in Deque
        /\ Len(SubSeq(u, c, Len(u))) = IF c <= Len(u) THEN Len(u) - c + 1 ELSE 0
    BY <1>1, <1>4, SubSeqProperties DEF Deque
  <1>6. Purged(u) = SubSeq(u, c, Len(u))
    BY DEF Purged
  <1>. HIDE DEF c
  <1>. QED
    BY <1>1, <1>4, <1>5, <1>6

(* Recording a request lengthens it by one. *)
LEMMA RecordedProperties ==
  ASSUME NEW u \in Deque
  PROVE  Recorded(u) \in Deque /\ Len(Recorded(u)) = Len(u) + 1
  <1>1. 0 \in 0..(WindowSeconds + 1)
    BY ResilienceAssumption
  <1>. QED
    BY <1>1, AppendProperties DEF Recorded, Deque

(* Ageing it leaves its length alone. *)
LEMMA AgedProperties ==
  ASSUME NEW u \in Deque
  PROVE  LET v == [i \in DOMAIN u |-> AtMost(WindowSeconds + 1, u[i] + 1)]
         IN  v \in Deque /\ Len(v) = Len(u)
  <1>. DEFINE v == [i \in DOMAIN u |-> AtMost(WindowSeconds + 1, u[i] + 1)]
  <1>1. Len(u) \in Nat /\ DOMAIN u = 1..Len(u)
    BY LenProperties DEF Deque
  <1>2. WindowSeconds + 1 \in Nat
    BY ResilienceAssumption
  <1>3. \A i \in 1..Len(u) : u[i] + 1 \in Nat
    BY <1>1, <1>2, ElementOfSeq DEF Deque
  <1>4. v \in [1..Len(u) -> 0..(WindowSeconds + 1)]
    BY <1>1, <1>2, <1>3, CapType
  <1>. HIDE DEF v
  <1>5. v \in Deque
    BY <1>1, <1>4, SeqDef DEF Deque
  <1>6. Len(v) = Len(u)
    BY <1>1, <1>4, <1>5, LenProperties DEF Deque
  <1>. QED
    BY <1>5, <1>6 DEF v

-----------------------------------------------------------------------------
(* The inductive invariant *)

NativeOnly == \A r \in Requests : pc[r] = "native" => Native

(* What is recorded for a provider and what is on its way to it.           *)
Budgeted ==
  ~Native => \A p \in Providers :
    Len(usage[p]) + Cardinality(InFlight(p)) <= MaxRequests - 1 + Cardinality(Requests)

Inv == TypeOK /\ ClosedUnlessFailing /\ NativeOnly /\ Budgeted

(* What a coroutine that goes on from breaker b and deques u relies on: its *)
(* own call is over, so it is not counted.                                  *)
Breakers(b) == b \in [Providers -> Entry] /\ \A p \in Providers : EntryOK(b[p])
BudgetLeft(r, u) ==
  ~Native => \A p \in Providers :
    Len(u[p]) + Cardinality(InFlight(p) \ {r}) <= MaxRequests - 1 + Cardinality(Requests)

(* The entries of the current breaker are well formed. *)
LEMMA BreakersOK == TypeOK /\ ClosedUnlessFailing => Breakers(breaker)
  BY DEF TypeOK, ClosedUnlessFailing, Breakers, EntryOK

(* The chain holds providers. *)
LEMMA ChainType ==
  ASSUME chain \in Chains
  PROVE  /\ Len(chain) \in Nat \ {0}
         /\ \A j \in 1..Len(chain) : chain[j] \in Providers
         /\ Primary \in Providers
  <1>1. chain \in Seq(Providers) /\ chain # <<>>
    BY ResilienceAssumption
  <1>2. Len(chain) \in Nat \ {0}
    BY <1>1, EmptySeq
  <1>3. \A j \in 1..Len(chain) : chain[j] \in Providers
    BY <1>1, ElementOfSeq
  <1>. QED
    BY <1>2, <1>3 DEF Primary

(* Sets of coroutines can be counted. *)
LEMMA FlightCard ==
  ASSUME NEW S \in SUBSET Requests
  PROVE  /\ IsFiniteSet(S) /\ Cardinality(S) \in Nat
         /\ Cardinality(S) <= Cardinality(Requests)
         /\ \A T \in SUBSET S : Cardinality(T) <= Cardinality(S)
         /\ Cardinality(Requests) \in Nat
  BY ResilienceFinite, FS_Subset, FS_CardinalityType

(* The step of one coroutine leaves the calls of the others in flight. *)
LEMMA OthersInFlight ==
  ASSUME NEW r \in Requests, NEW p,
         \A s \in Requests \ {r} : pc'[s] = pc[s] /\ pos'[s] = pos[s], UNCHANGED chain
  PROVE  InFlight(p)' \ {r} = InFlight(p) \ {r}
  BY DEF InFlight, Called

(* A coroutine that no longer calls a provider is not counted for it. *)
LEMMA GoneFromFlight ==
  ASSUME NEW r \in Requests, NEW p,
         \A s \in Requests \ {r} : pc'[s] = pc[s] /\ pos'[s] = pos[s], UNCHANGED chain,
         pc'[r] = "idle" \/ Called(r)' # p
  PROVE  InFlight(p)' = InFlight(p) \ {r}
  <1>1. r \notin InFlight(p)'
    BY DEF InFlight
  <1>. QED
    BY <1>1, OthersInFlight

(* Looking at providers keeps the breaker well formed, *)
LEMMA CheckAllOK ==
  ASSUME NEW S, NEW STATE b, Breakers(b)
  PROVE  Breakers(CheckAll(b, S))
  <1>1. \A p \in Providers : CheckAll(b, S)[p] = IF p \in S THEN Checked(b[p]) ELSE b[p]
    BY DEF CheckAll
  <1>2. \A p \in Providers : EntryOK(CheckAll(b, S)[p])
    BY <1>1, CheckedOK DEF Breakers
  <1>3. \A p \in Providers : CheckAll(b, S)[p] \in Entry
    BY <1>2 DEF EntryOK
  <1>4. CheckAll(b, S) \in [Providers -> Entry]
    BY <1>3 DEF CheckAll
  <1>. QED
    BY <1>2, <1>4 DEF Breakers

(* and no deque grows. *)
LEMMA PurgeAllOK ==
  ASSUME NEW S, NEW ACTION b, NEW STATE u, u \in [Providers -> Deque]
  PROVE  /\ PurgeAll(u, b, S) \in [Providers -> Deque]
         /\ \A p \in Providers : /\ Len(PurgeAll(u, b, S)[p]) \in Nat
                                 /\ Len(PurgeAll(u, b, S)[p]) <= Len(u[p])
  <1>1. \A p \in Providers :
          PurgeAll(u, b, S)[p] =
            IF p \in S /\ b[p].state # "open" THEN Purged(u[p]) ELSE u[p]
    BY DEF PurgeAll
  <1>2. \A p \in Providers : u[p] \in Deque /\ Len(u[p]) \in Nat
    BY LenProperties DEF Deque
  <1>3. ASSUME NEW p \in Providers
        PROVE  /\ PurgeAll(u, b, S)[p] \in Deque
               /\ Len(PurgeAll(u, b, S)[p]) \in Nat
               /\ Len(PurgeAll(u, b, S)[p]) <= Len(u[p])
    <2>1. Purged(u[p]) \in Deque /\ Len(Purged(u[p])) \in Nat /\ Len(Purged(u[p])) <= Len(u[p])
      BY <1>2, PurgedProperties
    <2>. QED
      BY <1>1, <1>2, <2>1
  <1>4. PurgeAll(u, b, S) \in [Providers -> Deque]
    BY <1>3 DEF PurgeAll
  <1>. QED
    BY <1>3, <1>4

-----------------------------------------------------------------------------
(* The steps *)

(* Dispatching keeps the types: *)
LEMMA DispatchTypes ==
  ASSUME TypeOK, NativeOnly,
         NEW r \in Requests, NEW STATE i, i \in 1..(Len(chain) + 1),
         NEW STATE b, Breakers(b), NEW STATE u, u \in [Providers -> Deque],
         NEW STATE n, n \in 0..BatchSize, NEW STATE k, k \in Nat,
         Dispatch(r, i, b, u, n, k), UNCHANGED <<chain, up>>
  PROVE  TypeOK' /\ ClosedUnlessFailing' /\ NativeOnly'
  <1>0. chain \in Chains /\ chain' = chain
    BY DEF TypeOK
  <1>1. \E S : breaker' = CheckAll(b, S) /\ usage' = PurgeAll(u, breaker', S)
    BY DEF Dispatch
  <1>2. PICK S : breaker' = CheckAll(b, S) /\ usage' = PurgeAll(u, breaker', S)
    BY <1>1
  <1>3. Breakers(breaker')
    BY <1>2, CheckAllOK
  <1>4. usage' \in [Providers -> Deque]
    BY <1>2, PurgeAllOK
  <1>5. /\ pc' \in [Requests -> {"idle", "call", "native"}]
        /\ \A s \in Requests : pc'[s] = "native" => pc[s] = "native"
    BY DEF Dispatch, TypeOK
  <1>6. pos' \in [Requests -> 1..Len(chain)]
    <2>1. \A j \in i..Len(chain) : j \in 1..Len(chain)
      BY <1>0, ChainType
    <2>. QED
      BY <1>0, <2>1 DEF Dispatch, TypeOK
  <1>7. left' \in [Requests -> 0..BatchSize]
    <2>1. 0 \in 0..BatchSize
      BY ResilienceAssumption
    <2>. QED
      BY <2>1 DEF Dispatch, TypeOK
  <1>8. batches' \in [Requests -> Nat]
    <2>1. batches' = [batches EXCEPT ![r] = k] \/ batches' = [batches EXCEPT ![r] = 0]
      BY DEF Dispatch
    <2>2. batches \in [Requests -> Nat] /\ k \in Nat /\ 0 \in Nat
      BY DEF TypeOK
    <2>. QED
      BY <2>1, <2>2
  <1>9. tested' \in [Requests -> BOOLEAN]
    <2>1. tested' = tested \/ \E c \in BOOLEAN : tested' = [tested EXCEPT ![r] = c]
      BY Zenon DEF Dispatch
    <2>. QED
      BY <2>1 DEF TypeOK
  <1>10. up' \in [Providers -> BOOLEAN]
    BY DEF TypeOK
  <1>11. TypeOK'
    BY <1>0, <1>3, <1>4, <1>5, <1>6, <1>7, <1>8, <1>9, <1>10 DEF TypeOK, Breakers
  <1>12. ClosedUnlessFailing'
    BY <1>3 DEF Breakers, EntryOK, ClosedUnlessFailing
  <1>13. NativeOnly'
    BY <1>0, <1>5 DEF NativeOnly, Native
  <1>. QED
    BY <1>11, <1>12, <1>13

(* and the budget: the provider that admits the request has room for one    *)
(* more than it recorded, and the others have one call less to expect.      *)
LEMMA DispatchBudget ==
  ASSUME TypeOK,
         NEW r \in Requests, NEW STATE i, i \in 1..(Len(chain) + 1),
         NEW STATE b, NEW STATE u, u \in [Providers -> Deque], BudgetLeft(r, u),
         NEW STATE n, NEW STATE k,
         Dispatch(r, i, b, u, n, k), UNCHANGED chain
  PROVE  Budgeted'
  <1>1. SUFFICES ASSUME ~Native, NEW p \in Providers
                 PROVE  Len(usage'[p]) + Cardinality(InFlight(p)')
                          <= MaxRequests - 1 + Cardinality(Requests)
    BY DEF Budgeted, Native
  <1>2. MaxRequests \in Nat
    BY ResilienceAssumption
  <1>3. \A s \in Requests \ {r} : pc'[s] = pc[s] /\ pos'[s] = pos[s]
    BY DEF Dispatch, TypeOK
  <1>4. InFlight(p)' \in SUBSET Requests /\ InFlight(p) \ {r} \in SUBSET Requests
    BY DEF InFlight
  <1>5. /\ Cardinality(InFlight(p)') \in Nat
        /\ Cardinality(InFlight(p)') <= Cardinality(Requests)
        /\ Cardinality(InFlight(p) \ {r}) \in Nat
        /\ Cardinality(Requests) \in Nat
    BY <1>4, FlightCard
  <1>6. Len(u[p]) \in Nat /\ Len(usage'[p]) \in Nat /\ Len(usage'[p]) <= Len(u[p])
    <2>1. \E S : usage' = PurgeAll(u, breaker', S)
      BY DEF Dispatch
    <2>2. Len(u[p]) \in Nat
      BY LenProperties DEF Deque
    <2>. QED
      BY <2>1, <2>2, PurgeAllOK
  <1>7. Len(u[p]) + Cardinality(InFlight(p) \ {r}) <= MaxRequests - 1 + Cardinality(Requests)
    BY <1>1 DEF BudgetLeft
  <1>8. CASE pc'[r] = "idle" \/ Called(r)' # p
    <2>1. InFlight(p)' = InFlight(p) \ {r}
      BY <1>3, <1>8, GoneFromFlight
    <2>. QED
      BY <1>2, <1>5, <1>6, <1>7, <2>1
  <1>9. CASE pc'[r] # "idle" /\ Called(r)' = p
    <2>1. PICK j \in i..Len(chain) :
            /\ Admits(chain[j], b, u)
            /\ breaker' = CheckAll(b, Looked(i, j))
            /\ usage' = PurgeAll(u, breaker', Looked(i, j))
            /\ pos' = [pos EXCEPT ![r] = j]
      BY <1>9 DEF Dispatch, TypeOK
    <2>2. chain[j] = p
      BY <1>9, <2>1 DEF Called, TypeOK
    <2>3. p \in Looked(i, j)
      BY <2>1, <2>2 DEF Looked
    <2>4. breaker'[p] = Checked(b[p])
      BY <2>1, <2>3 DEF CheckAll
    <2>5. breaker'[p].state # "open" /\ Len(Purged(u[p])) < MaxRequests
      BY <2>1, <2>2, <2>4 DEF Admits, WithinBudget
    <2>6. usage'[p] = Purged(u[p])
      BY <2>1, <2>3, <2>5 DEF PurgeAll
    <2>7. Len(usage'[p]) < MaxRequests
      BY <2>5, <2>6
    <2>. QED
      BY <1>2, <1>5, <1>6, <2>7
  <1>. QED
    BY <1>8, <1>9

(* So does whatever a coroutine does next with the texts it has left. *)
LEMMA ContinueOK ==
  ASSUME TypeOK, NativeOnly,
         NEW r \in Requests, NEW STATE b, Breakers(b),
         NEW STATE u, u \in [Providers -> Deque], BudgetLeft(r, u),
         NEW STATE n, n \in (-1)..BatchSize, NEW STATE k, k \in Nat,
         Continue(r, b, u, n, k), UNCHANGED <<chain, up>>
  PROVE  Inv'
  <1>. USE DEF Inv
  <1>0. chain \in Chains /\ chain' = chain
    BY DEF TypeOK
  <1>1. 1 \in 1..(Len(chain) + 1) /\ BatchSize \in Nat \ {0}
    BY <1>0, ResilienceAssumption, ChainType
  <1>2. CASE n > 0 /\ Dispatch(r, 1, b, u, n, k)
    <2>1. n \in 0..BatchSize
      BY <1>1, <1>2
    <2>. QED
      BY <1>0, <1>1, <1>2, <2>1, DispatchTypes, DispatchBudget
  <1>3. CASE k > 0 /\ ~Native /\ Dispatch(r, 1, b, u, BatchSize, k - 1)
    <2>1. BatchSize \in 0..BatchSize /\ k - 1 \in Nat
      BY <1>1, <1>3
    <2>. QED
      BY <1>0, <1>1, <1>3, <2>1, DispatchTypes, DispatchBudget
  <1>4. CASE k > 0 /\ Native /\ SendBatch(r, b, u, k - 1)
    <2>1. k - 1 \in Nat /\ 1 \in 1..Len(chain) /\ 0 \in 0..BatchSize
      BY <1>0, <1>1, <1>4, ChainType
    <2>2. TypeOK'
      BY <1>4, <2>1 DEF SendBatch, TypeOK, Breakers
    <2>3. ClosedUnlessFailing'
      BY <1>4 DEF SendBatch, Breakers, EntryOK, ClosedUnlessFailing
    <2>4. NativeOnly' /\ Budgeted'
      BY <1>4 DEF NativeOnly, Budgeted, Native
    <2>. QED
      BY <2>2, <2>3, <2>4
  <1>5. CASE /\ breaker' = b /\ usage' = u
             /\ pc' = [pc EXCEPT ![r] = "idle"]
             /\ left' = [left EXCEPT ![r] = 0]
             /\ UNCHANGED <<pos, batches, tested>>
    <2>1. TypeOK'
      BY <1>1, <1>5 DEF TypeOK, Breakers
    <2>2. ClosedUnlessFailing'
      BY <1>5 DEF Breakers, EntryOK, ClosedUnlessFailing
    <2>3. NativeOnly'
      BY <1>5 DEF NativeOnly, TypeOK, Native
    <2>4. \A p \in Providers : InFlight(p)' = InFlight(p) \ {r}
      BY <1>0, <1>5, GoneFromFlight DEF TypeOK
    <2>5. Budgeted'
      BY <1>5, <2>4 DEF Budgeted, BudgetLeft, Native
    <2>. QED
      BY <2>1, <2>2, <2>3, <2>5
  <1>. QED
    BY <1>2, <1>3, <1>4, <1>5 DEF Continue

(* A coroutine that starts, or that lost its call, expects no more than     *)
(* before.                                                                  *)
LEMMA SameBudget ==
  ASSUME TypeOK, Budgeted, NEW r \in Requests
  PROVE  BudgetLeft(r, usage)
  <1>. SUFFICES ASSUME ~Native, NEW p \in Providers
                PROVE  Len(usage[p]) + Cardinality(InFlight(p) \ {r})
                         <= MaxRequests - 1 + Cardinality(Requests)
    BY DEF BudgetLeft
  <1>1. InFlight(p) \in SUBSET Requests /\ InFlight(p) \ {r} \in SUBSET InFlight(p)
    BY DEF InFlight
  <1>2. /\ Cardinality(InFlight(p)) \in Nat /\ Cardinality(Requests) \in Nat
        /\ Cardinality(InFlight(p) \ {r}) <= Cardinality(InFlight(p))
    BY <1>1, FlightCard
  <1>3. Cardinality(InFlight(p) \ {r}) \in Nat
    BY <1>1, FlightCard
  <1>4. Len(usage[p]) \in Nat /\ MaxRequests \in Nat
    BY LenProperties, ResilienceAssumption DEF TypeOK, Deque
  <1>. QED
    BY <1>2, <1>3, <1>4 DEF Budgeted

(* Recording an answer moves its call from the calls in flight to the deque. *)
LEMMA RecordedBudget ==
  ASSUME TypeOK, Budgeted, NEW r \in Requests, pc[r] = "call"
  PROVE  BudgetLeft(r, [usage EXCEPT ![Called(r)] = Recorded(@)])
  <1>. DEFINE q == Called(r)
              u == [usage EXCEPT ![q] = Recorded(@)]
  <1>1. SUFFICES ASSUME ~Native, NEW p \in Providers
                 PROVE  Len(u[p]) + Cardinality(InFlight(p) \ {r})
                          <= MaxRequests - 1 + Cardinality(Requests)
    BY DEF BudgetLeft
  <1>2. Len(usage[p]) \in Nat /\ usage[p] \in Deque /\ MaxRequests \in Nat
    BY LenProperties, ResilienceAssumption DEF TypeOK, Deque
  <1>3. InFlight(p) \in SUBSET Requests /\ InFlight(p) \ {r} \in SUBSET Requests
    BY DEF InFlight
  <1>4. /\ Cardinality(InFlight(p)) \in Nat /\ Cardinality(Requests) \in Nat
        /\ IsFiniteSet(InFlight(p)) /\ Cardinality(InFlight(p) \ {r}) \in Nat
    BY <1>3, FlightCard
  <1>5. Len(usage[p]) + Cardinality(InFlight(p)) <= MaxRequests - 1 + Cardinality(Requests)
    BY <1>1 DEF Budgeted
  <1>6. CASE p = q
    <2>1. r \in InFlight(p)
      BY <1>6 DEF InFlight
    <2>2. Cardinality(InFlight(p) \ {r}) = Cardinality(InFlight(p)) - 1
      BY <1>4, <2>1, FS_RemoveElement
    <2>3. u[p] = Recorded(usage[p])
      BY <1>6 DEF TypeOK
    <2>4. Len(u[p]) = Len(usage[p]) + 1
      BY <1>2, <2>3, RecordedProperties
    <2>. HIDE DEF u, q
    <2>. QED
      BY <1>2, <1>4, <1>5, <2>2, <2>4
  <1>7. CASE p # q
    <2>1. u[p] = usage[p]
      BY <1>7 DEF TypeOK
    <2>2. Len(usage[p]) + Cardinality(InFlight(p) \ {r}) <= MaxRequests - 1 + Cardinality(Requests)
      BY <1>1, SameBudget DEF BudgetLeft
    <2>. QED
      BY <2>1, <2>2
  <1>. QED
    BY <1>6, <1>7

(* Recording an answer, *)
LEMMA AnswerOK ==
  ASSUME TypeOK, ClosedUnlessFailing, NEW STATE p, p \in Providers
  PROVE  /\ Breakers([breaker EXCEPT ![p] = Success(@)])
         /\ [usage EXCEPT ![p] = Recorded(@)] \in [Providers -> Deque]
  <1>1. Breakers(breaker) /\ breaker \in [Providers -> Entry]
    BY BreakersOK DEF TypeOK
  <1>2. EntryOK(Success(breaker[p]))
    BY <1>1, SuccessOK DEF Breakers
  <1>3. Breakers([breaker EXCEPT ![p] = Success(@)])
    BY <1>1, <1>2 DEF Breakers, EntryOK
  <1>4. Recorded(usage[p]) \in Deque
    BY RecordedProperties DEF TypeOK
  <1>. QED
    BY <1>3, <1>4 DEF TypeOK

(* and recording a failure, keep the breaker well formed. *)
LEMMA FailureBreakers ==
  ASSUME TypeOK, ClosedUnlessFailing, NEW STATE p, p \in Providers
  PROVE  Breakers([breaker EXCEPT ![p] = Failure(@)])
  <1>1. Breakers(breaker) /\ breaker \in [Providers -> Entry]
    BY BreakersOK DEF TypeOK
  <1>2. EntryOK(Failure(breaker[p]))
    BY <1>1, FailureOK DEF Breakers
  <1>. QED
    BY <1>1, <1>2 DEF Breakers, EntryOK

(* Time passes. *)
LEMMA TickOK == Inv /\ Tick => Inv'
  <1>. SUFFICES ASSUME Inv, Tick PROVE Inv'
    OBVIOUS
  <1>. USE DEF Inv
  <1>. DEFINE aged(b) == [b EXCEPT !.cooldown = IF b.cooldown = 0 THEN 0 ELSE b.cooldown - 1]
  <1>1. \A p \in Providers : breaker'[p] = aged(breaker[p])
    BY DEF Tick
  <1>2. ASSUME NEW b \in Entry
        PROVE  aged(b) \in Entry /\ aged(b).state = b.state /\ aged(b).failures = b.failures
    <2>1. CooldownMax \in Nat
      BY ResilienceAssumption
    <2>2. (IF b.cooldown = 0 THEN 0 ELSE b.cooldown - 1) \in 0..CooldownMax
      BY <2>1 DEF Entry
    <2>. QED
      BY <2>2 DEF Entry
  <1>. HIDE DEF aged
  <1>3. \A p \in Providers : /\ breaker'[p] \in Entry
                             /\ breaker'[p].state = breaker[p].state
                             /\ breaker'[p].failures = breaker[p].failures
    BY <1>1, <1>2 DEF TypeOK
  <1>4. breaker' \in [Providers -> Entry]
    <2>1. breaker' = [p \in Providers |-> breaker'[p]]
      BY DEF Tick
    <2>. QED
      BY <1>3, <2>1
  <1>5. \A p \in Providers : usage'[p] \in Deque /\ Len(usage'[p]) = Len(usage[p])
    <2>1. \A p \in Providers : usage[p] \in Deque
      BY DEF TypeOK
    <2>2. \A p \in Providers :
            usage'[p] = [i \in DOMAIN usage[p] |-> AtMost(WindowSeconds + 1, usage[p][i] + 1)]
      BY DEF Tick
    <2>. QED
      BY <2>1, <2>2, AgedProperties
  <1>6. usage' \in [Providers -> Deque]
    <2>1. usage' = [p \in Providers |-> usage'[p]]
      BY DEF Tick
    <2>. QED
      BY <1>5, <2>1
  <1>7. TypeOK'
    BY <1>4, <1>6 DEF Tick, TypeOK
  <1>8. ClosedUnlessFailing'
    BY <1>3 DEF ClosedUnlessFailing
  <1>9. NativeOnly'
    BY DEF Tick, NativeOnly, Native
  <1>10. \A p \in Providers : InFlight(p)' = InFlight(p)
    BY DEF Tick, InFlight, Called
  <1>11. Budgeted'
    <2>1. Native' <=> Native
      BY DEF Tick, Native
    <2>. QED
      BY <1>5, <1>10, <2>1 DEF Budgeted
  <1>. QED
    BY <1>7, <1>8, <1>9, <1>11

-----------------------------------------------------------------------------
(* The theorems *)

(* The invariant holds initially, *)
LEMMA InitInv == Init => Inv
  <1>. SUFFICES ASSUME Init PROVE Inv
    OBVIOUS
  <1>. USE DEF Init
  <1>1. TypeOK
    <2>1. [state |-> "closed", failures |-> 0, cooldown |-> 0, multiplier |-> 1] \in Entry
      <3>1. /\ "closed" \in State /\ 0 \in 0..FailureThreshold /\ 0 \in 0..CooldownMax
            /\ 1 \in 1..MaxMultiplier
        BY ResilienceAssumption, MultType DEF State
      <3>. QED
        BY <3>1 DEF Entry
    <2>2. <<>> \in Deque
      BY EmptySeq DEF Deque
    <2>3. 1 \in 1..Len(chain) /\ 0 \in 0..BatchSize
      BY ChainType, ResilienceAssumption
    <2>. QED
      BY <2>1, <2>2, <2>3 DEF TypeOK
  <1>2. ClosedUnlessFailing
    BY ResilienceAssumption DEF ClosedUnlessFailing
  <1>3. NativeOnly
    BY DEF NativeOnly
  <1>4. Budgeted
    <2>1. \A p \in Providers : Len(usage[p]) = 0 /\ InFlight(p) = {}
      BY EmptySeq DEF InFlight
    <2>2. Cardinality(Requests) \in Nat /\ MaxRequests \in Nat \ {0} /\ Cardinality({}) = 0
      BY ResilienceFinite, FS_CardinalityType, FS_EmptySet, ResilienceAssumption
    <2>3. \A p \in Providers : Cardinality(InFlight(p)) = 0
      BY <2>1, <2>2
    <2>. QED
      BY <2>1, <2>2, <2>3 DEF Budgeted
  <1>. QED
    BY <1>1, <1>2, <1>3, <1>4 DEF Inv

(* and every step preserves it. *)
LEMMA NextInv == Inv /\ [Next]_vars => Inv'
  <1>. SUFFICES ASSUME Inv, [Next]_vars PROVE Inv'
    OBVIOUS
  <1>0. TypeOK /\ ClosedUnlessFailing /\ NativeOnly /\ Budgeted
    BY DEF Inv
  <1>1. Breakers(breaker) /\ usage \in [Providers -> Deque] /\ chain \in Chains
    BY <1>0, BreakersOK DEF TypeOK
  <1>2. \A r \in Requests : /\ pos[r] \in 1..Len(chain) /\ Called(r) \in Providers
                            /\ left[r] \in 0..BatchSize /\ batches[r] \in Nat
    BY <1>0, <1>1, ChainType DEF TypeOK, Called
  <1>3. BatchSize \in Nat \ {0}
    BY ResilienceAssumption
  <1>4. ASSUME NEW r \in Requests, GetEmbedding(r) PROVE Inv'
    <2>1. 1 \in 1..(Len(chain) + 1) /\ 1 \in 0..BatchSize /\ 0 \in Nat
      BY <1>1, <1>3, ChainType
    <2>2. BudgetLeft(r, usage)
      BY <1>0, SameBudget
    <2>. QED
      BY <1>0, <1>1, <1>4, <2>1, <2>2, DispatchTypes, DispatchBudget DEF GetEmbedding, Inv
  <1>5. ASSUME NEW r \in Requests, GetEmbeddingsBatch(r) PROVE Inv'
    <2>1. PICK k \in 1..2 : Continue(r, breaker, usage, 0, k)
      BY <1>5 DEF GetEmbeddingsBatch
    <2>2. 0 \in (-1)..BatchSize /\ k \in Nat
      BY <1>3
    <2>3. BudgetLeft(r, usage)
      BY <1>0, SameBudget
    <2>. QED
      BY <1>0, <1>1, <1>5, <2>1, <2>2, <2>3, ContinueOK DEF GetEmbeddingsBatch
  <1>6. ASSUME NEW r \in Requests, Answered(r) PROVE Inv'
    <2>. DEFINE b == [breaker EXCEPT ![Called(r)] = Success(@)]
                u == [usage EXCEPT ![Called(r)] = Recorded(@)]
    <2>1. Breakers(b) /\ u \in [Providers -> Deque]
      BY <1>0, <1>2, AnswerOK
    <2>2. BudgetLeft(r, u)
      BY <1>0, <1>6, RecordedBudget DEF Answered
    <2>3. left[r] - 1 \in (-1)..BatchSize /\ batches[r] \in Nat
      BY <1>2, <1>3
    <2>4. Continue(r, b, u, left[r] - 1, batches[r]) /\ UNCHANGED <<chain, up>>
      BY <1>6 DEF Answered
    <2>. HIDE DEF b, u
    <2>. QED
      BY <1>0, <2>1, <2>2, <2>3, <2>4, ContinueOK
  <1>7. ASSUME NEW r \in Requests, Failed(r) PROVE Inv'
    <2>. DEFINE b == [breaker EXCEPT ![Called(r)] = Failure(@)]
    <2>1. Breakers(b)
      BY <1>0, <1>2, FailureBreakers
    <2>2. BudgetLeft(r, usage)
      BY <1>0, SameBudget
    <2>3. pos[r] + 1 \in 1..(Len(chain) + 1)
      BY <1>1, <1>2, ChainType
    <2>4. Dispatch(r, pos[r] + 1, b, usage, left[r], batches[r]) /\ UNCHANGED <<chain, up>>
      BY <1>7 DEF Failed
    <2>. HIDE DEF b
    <2>. QED
      BY <1>0, <1>1, <1>2, <2>1, <2>2, <2>3, <2>4, DispatchTypes, DispatchBudget DEF Inv
  <1>8. ASSUME NEW r \in Requests, BatchAnswered(r) PROVE Inv'
    <2>. DEFINE b == [breaker EXCEPT ![Primary] = Success(@)]
                u == [usage EXCEPT ![Primary] = Recorded(@)]
    <2>1. Breakers(b) /\ u \in [Providers -> Deque]
      BY <1>0, <1>1, ChainType, AnswerOK
    <2>2. BudgetLeft(r, u)
      BY <1>0, <1>8 DEF BatchAnswered, NativeOnly, BudgetLeft
    <2>3. 0 \in (-1)..BatchSize /\ batches[r] \in Nat
      BY <1>2, <1>3
    <2>4. Continue(r, b, u, 0, batches[r]) /\ UNCHANGED <<chain, up>>
      BY <1>8 DEF BatchAnswered
    <2>. HIDE DEF b, u
    <2>. QED
      BY <1>0, <2>1, <2>2, <2>3, <2>4, ContinueOK
  <1>9. ASSUME NEW r \in Requests, BatchFailed(r) PROVE Inv'
    <2>. DEFINE b == [breaker EXCEPT ![Primary] = Failure(@)]
    <2>1. Breakers(b)
      BY <1>0, <1>1, ChainType, FailureBreakers
    <2>2. BudgetLeft(r, usage)
      BY <1>0, SameBudget
    <2>3. BatchSize \in (-1)..BatchSize /\ batches[r] \in Nat
      BY <1>2, <1>3
    <2>4. Continue(r, b, usage, BatchSize, batches[r]) /\ UNCHANGED <<chain, up>>
      BY <1>9 DEF BatchFailed
    <2>. HIDE DEF b
    <2>. QED
      BY <1>0, <1>1, <2>1, <2>2, <2>3, <2>4, ContinueOK
  <1>10. CASE Tick
    BY <1>10, TickOK
  <1>11. ASSUME NEW p \in Providers, Toggle(p) PROVE Inv'
    <2>1. TypeOK' /\ ClosedUnlessFailing' /\ NativeOnly'
      BY <1>0, <1>11 DEF Toggle, TypeOK, ClosedUnlessFailing, NativeOnly, Native
    <2>2. \A q : InFlight(q)' = InFlight(q)
      BY <1>11 DEF Toggle, InFlight, Called
    <2>3. Budgeted'
      BY <1>0, <1>11, <2>2 DEF Toggle, Budgeted, Native
    <2>. QED
      BY <2>1, <2>3 DEF Inv
  <1>12. CASE UNCHANGED vars
    <2>1. TypeOK' /\ ClosedUnlessFailing' /\ NativeOnly'
      BY <1>0, <1>12 DEF vars, TypeOK, ClosedUnlessFailing, NativeOnly, Native
    <2>2. \A q : InFlight(q)' = InFlight(q)
      BY <1>12 DEF vars, InFlight, Called
    <2>3. Budgeted'
      BY <1>0, <1>12, <2>2 DEF vars, Budgeted, Native
    <2>. QED
      BY <2>1, <2>3 DEF Inv
  <1>. QED
    BY <1>4, <1>5, <1>6, <1>7, <1>8, <1>9, <1>10, <1>11, <1>12 DEF Next, Return

(* The invariant holds in every state. *)
THEOREM Invariance == Spec => []Inv
  BY InitInv, NextInv, PTL DEF Spec

(* The entries, the deques and the coroutines keep their types: the        *)
(* doubling multiplier and the cooldown stay below their caps.             *)
THEOREM Typing == Spec => []TypeOK
  <1>1. Inv => TypeOK
    BY DEF Inv
  <1>. QED
    BY <1>1, Invariance, PTL

(* Whatever late answers and failures are recorded in whatever order, a    *)
(* circuit is closed exactly when its count is below the threshold.        *)
THEOREM ClosedIsHealthy == Spec => []ClosedUnlessFailing
  <1>1. Inv => ClosedUnlessFailing
    BY DEF Inv
  <1>. QED
    BY <1>1, Invariance, PTL

(* Coroutines that check the budget before their call and record after it  *)
(* exceed it by at most their number less one, however many they are.      *)
THEOREM BudgetBound == Spec => []BudgetOvershootBounded
  <1>1. Inv => BudgetOvershootBounded
    <2>. SUFFICES ASSUME Inv, ~Native, NEW p \in Providers
                  PROVE  Len(usage[p]) <= MaxRequests - 1 + Cardinality(Requests)
      BY DEF BudgetOvershootBounded
    <2>1. InFlight(p) \in SUBSET Requests
      BY DEF InFlight
    <2>2. Cardinality(InFlight(p)) \in Nat /\ Cardinality(Requests) \in Nat
      BY <2>1, FlightCard
    <2>3. Len(usage[p]) \in Nat /\ MaxRequests \in Nat
      BY LenProperties, ResilienceAssumption DEF Inv, TypeOK, Deque
    <2>. QED
      BY <2>2, <2>3 DEF Inv, Budgeted
  <1>. QED
    BY <1>1, Invariance, PTL
=============================================================================
