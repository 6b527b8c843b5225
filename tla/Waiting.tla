------------------------------ MODULE Waiting ------------------------------
(***************************************************************************)
(* The waiting half of ingest/worker/limiter.py: tasks of one event loop   *)
(* that acquire tokens, as file workers and connectors do before they send *)
(* a request, and acquire_all over several limiters.                       *)
(*                                                                         *)
(* A task holds a limiter's lock only between two awaits, and releases it  *)
(* before it sleeps: no task ever finds it taken, and what runs from the   *)
(* end of a sleep to the next one is a step for each limiter.  Nothing     *)
(* queues the sleepers; who wakes first takes what there is.               *)
(*                                                                         *)
(* Time is in whole seconds, and relative: last is the age of the last     *)
(* refill, of which the seconds that fill an empty bucket are as good as   *)
(* any longer time.                                                        *)
(***************************************************************************)
EXTENDS TokenBucket, Sequences

CONSTANTS
  Limiters,     \* names given to add_limiter
  Tasks,        \* tasks that acquire
  Demands,      \* tokens a task asks for; one, wherever the program does
  Paths,        \* sequences of limiters that acquire_all is given
  MaxCalls      \* bound: calls of acquire or acquire_all

ASSUME WaitingAssumption ==
  /\ Demands \subseteq 1..Capacity   \* a larger demand would wait for ever
  /\ Paths \subseteq Seq(Limiters) \ {<<>>}   \* of no limiter, nothing is acquired
  /\ MaxCalls \in Nat

VARIABLES
  bucket,     \* bucket[l]: the tokens of a limiter and the age of its refill
  task,       \* task[t]: what the task still has to acquire, its sleep
  requested   \* calls so far

waitingVars == <<bucket, task, requested>>

(* The seconds after which so many units have been refilled *)
SecondsFor(units) == (units + RequestsPerMinute - 1) \div RequestsPerMinute
LongAgo == SecondsFor(Capacity * Token)

AtRest == [pc |-> "idle", path |-> <<>>, tokens |-> 0, sleep |-> 0]

WaitingTypeOK ==
  /\ \A l \in Limiters : bucket[l] \in [units : 0..(Capacity * Token), last : 0..LongAgo]
  /\ \A t \in Tasks : /\ task[t].pc \in {"idle", "acquire", "asleep"}
                      /\ task[t].sleep \in 0..LongAgo
                      /\ task[t].pc = "idle" <=> task[t].path = <<>>
  /\ requested \in 0..MaxCalls

WaitingInit ==
  /\ bucket = [l \in Limiters |-> FullBucket(0)]
  /\ task = [t \in Tasks |-> AtRest]
  /\ requested = 0

(* Between two steps of one task that does not sleep, no other one runs. *)
LoopIsFree == \A t \in Tasks : task[t].pc # "acquire"

(* acquire is acquire_all of one limiter. *)
AcquireAll(t, path, tokens) ==
  /\ LoopIsFree
  /\ task[t] = AtRest
  /\ requested < MaxCalls
  /\ requested' = requested + 1
  /\ task' = [task EXCEPT ![t] = [pc |-> "acquire", path |-> path,
                                  tokens |-> tokens, sleep |-> 0]]
  /\ UNCHANGED bucket

(* _refill *)
RefilledNow(b) == [Refilled([b EXCEPT !.last = 0], b.last) EXCEPT !.last = 0]

(* The tokens are taken, whatever the limiters after this one will say, or the
   task sleeps for what is missing now and leaves rest in the bucket. *)
TakeOrSleep(t, l, b, rest) ==
  LET missing == task[t].tokens * Token - b.units IN
  /\ task[t].pc = "acquire"
  /\ l = Head(task[t].path)
  /\ IF missing <= 0
     THEN /\ bucket' = [bucket EXCEPT ![l] = [b EXCEPT !.units = -missing]]
          /\ IF Len(task[t].path) = 1 THEN task' = [task EXCEPT ![t] = AtRest]
                                      ELSE task' = [task EXCEPT ![t].path = Tail(@)]
     ELSE /\ bucket' = [bucket EXCEPT ![l] = [b EXCEPT !.units = rest]]
          /\ task' = [task EXCEPT ![t].pc = "asleep", ![t].sleep = SecondsFor(missing)]
  /\ UNCHANGED requested

(* Variant: a task takes what there is before it sleeps, and forgets it. *)
AcquireInParts(t, l) == TakeOrSleep(t, l, RefilledNow(bucket[l]), 0)

(* The body of acquire's loop, for the next limiter *)
Acquire(t, l) ==
  LET b == RefilledNow(bucket[l]) IN TakeOrSleep(t, l, b, b.units)

(* The sleep is over; others may have woken before. *)
WakeUp(t) ==
  /\ LoopIsFree
  /\ task[t].pc = "asleep" /\ task[t].sleep = 0
  /\ task' = [task EXCEPT ![t].pc = "acquire"]
  /\ UNCHANGED <<bucket, requested>>

(* A task that is cancelled while it sleeps takes the lock once more, gives
   it back and leaves; what it took from other limiters is spent. *)
CancelTask(t) ==
  /\ LoopIsFree
  /\ task[t].pc = "asleep"
  /\ task' = [task EXCEPT ![t] = AtRest]
  /\ UNCHANGED <<bucket, requested>>

Second ==
  /\ LoopIsFree
  /\ bucket' = [l \in Limiters |->
       [bucket[l] EXCEPT !.last = Lesser(LongAgo, @ + 1)]]
  /\ task' = [t \in Tasks |-> [task[t] EXCEPT !.sleep = IF @ = 0 THEN 0 ELSE @ - 1]]
  /\ UNCHANGED requested

WaitingNext ==
  \/ \E t \in Tasks :
       \/ \E path \in Paths, tokens \in Demands : AcquireAll(t, path, tokens)
       \/ \E l \in Limiters : Acquire(t, l)
       \/ WakeUp(t)
       \/ CancelTask(t)
  \/ Second

(* The loop runs what can run, and time passes. *)
GoesAhead(t) == (\E l \in Limiters : Acquire(t, l)) \/ WakeUp(t)
WaitingFairness ==
  /\ \A t \in Tasks : WF_waitingVars(GoesAhead(t))
  /\ WF_waitingVars(Second)

WaitingSpec == WaitingInit /\ [][WaitingNext]_waitingVars /\ WaitingFairness

----------------------------------------------------------------------------
(* Whoever asks a limiter for no more than it can hold is let through, as  *)
(* long as new requests do not come for ever: sleepers may overtake one    *)
(* another, and each wakes to a bucket that others have emptied, refilled  *)
(* in part and looked at, but none is left behind (limiter.py:66-85).      *)
EveryWaiterGoesOn == \A t \in Tasks : task[t].pc = "asleep" ~> task[t].pc = "idle"
=============================================================================
