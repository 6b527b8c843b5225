---------------------------- MODULE JobExecution ----------------------------
(***************************************************************************)
(* One JobExecutor and its WorkerPool (ingest/worker/executor.py and       *)
(* pool.py): coroutines of one asyncio event loop that share two queues.   *)
(*                                                                         *)
(*   - execute_job submits a task per file, then waits for as many results *)
(*     as it submitted, each wait bounded by a timeout of 300 s.           *)
(*   - the workers take tasks and put one result per task.                 *)
(*   - stop() clears `running', puts one stop signal per worker in the     *)
(*     task queue and joins the workers, for at most 30 s.                 *)
(*                                                                         *)
(* A coroutine is interrupted only at an await that blocks, so a step is   *)
(* the code between two such awaits.  Which job is executed next is the    *)
(* business of module JobQueue; how a file is ingested, of IngestIndex.    *)
(***************************************************************************)
EXTENDS Integers, FiniteSets, Sequences

CONSTANTS
  Jobs,          (* the jobs of the run                                       *)
  Drained,       (* those executed by execute_all_pending, not by run_loop    *)
  Workers,       (* the worker coroutines, num_workers of them                *)
  MaxFiles,      (* bound on the files of a job                               *)
  FileCounts,    (* how many files the directory of each job may hold         *)
  QueueCap,      (* max_queue_size of the pool: 1000                          *)
  ProgressEvery, (* the progress is written every 10 results                  *)
  MaxStarts,     (* bound on the calls of start()                             *)
  MaxErrors,     (* bound on the failures of the jobs table                   *)
  NoJob

ASSUME JobExecutionAssumption ==
  /\ Drained \subseteq Jobs
  /\ IsFiniteSet(Workers)
  /\ MaxFiles \in Nat
  /\ FileCounts \in [Jobs -> SUBSET (1..MaxFiles)]
  /\ QueueCap \in Nat \ {0}
  /\ ProgressEvery \in Nat \ {0}
  /\ {MaxStarts, MaxErrors} \subseteq Nat
  /\ NoJob \notin Jobs

VARIABLES
  running,    \* WorkerPool.running (and JobExecutor.running, set with it)
  starts,     \* number of calls of start()
  tasks,      \* task_queue
  unfinished, \* the count task_queue.join() waits for
  results,    \* result_queue
  wpc, wtask, \* per worker: where it is in _worker_loop, and its task
  spc,        \* where stop() is
  signals,    \* stop signals that stop() has still to put
  epc,        \* where execute_job is
  cur,        \* the job being executed
  sent,       \* per job: how many of its files have been submitted
  processed,  \* how many results have been counted for it
  failed,     \* whether `errors' is non-empty
  row,        \* the columns of the jobs table this module is about
  outcome,    \* history: how the processing of each task ended
  errors,     \* how often the jobs table has failed
  collected,  \* history: collected[j], the tasks whose results were counted for j
  lost,       \* history: tasks whose worker was cancelled
  owed,       \* history: how many results executions that ended early left to come
  excepted    \* history: jobs that ended in the exception handler of execute_job

poolVars == <<running, starts, wpc, wtask, lost>>
stopVars == <<spc, signals>>
jobVars  == <<epc, cur, sent, processed, failed, row, errors, collected, owed, excepted>>
vars == <<running, starts, tasks, unfinished, results, wpc, wtask, spc, signals,
          epc, cur, sent, processed, failed, row, errors, outcome, collected, lost, owed,
          excepted>>

-----------------------------------------------------------------------------
(* Types *)

Task    == [job : Jobs, file : 1..MaxFiles]
Stop    == [job |-> NoJob, file |-> 0]    \* None in task_queue
Outcome == {"returned", "raised"}         \* ingest returned a status, "error"
                                          \* included; or validation failed or
                                          \* every retry raised
Result  == [task : Task, success : BOOLEAN]
Ended   == {"completed", "failed"}

TypeOK ==
  /\ running \in BOOLEAN
  /\ starts \in Nat
  /\ tasks \in Seq(Task \cup {Stop}) /\ Len(tasks) <= QueueCap
  /\ unfinished \in Int
  /\ results \in Seq(Result)
  /\ wpc \in [Workers -> {"off", "get", "work"}]
  /\ wtask \in [Workers -> Task \cup {Stop}]
  /\ spc \in {"none", "putting", "joining"}
  /\ signals \in Nat
  /\ epc \in {"idle", "submit", "collect"}
  /\ cur \in Jobs \cup {NoJob}
  /\ sent \in [Jobs -> 0..MaxFiles]
  /\ processed \in Nat
  /\ failed \in BOOLEAN
  /\ row \in [Jobs -> [status : {"pending", "running"} \cup Ended,
                       total : 0..MaxFiles]]
  /\ outcome \in [Task -> Outcome \cup {"none"}]
  /\ collected \in [Jobs -> SUBSET Task]
  /\ lost \in SUBSET Task
  /\ errors \in 0..MaxErrors
  /\ owed \in Nat
  /\ excepted \in SUBSET Jobs

Init ==
  /\ running = FALSE
  /\ starts = 0
  /\ tasks = <<>>
  /\ unfinished = 0
  /\ results = <<>>
  /\ wpc = [w \in Workers |-> "off"]
  /\ wtask = [w \in Workers |-> Stop]
  /\ spc = "none"
  /\ signals = 0
  /\ epc = "idle"
  /\ cur = NoJob
  /\ sent = [j \in Jobs |-> 0]
  /\ processed = 0
  /\ failed = FALSE
  /\ row = [j \in Jobs |-> [status |-> "pending", total |-> 0]]
  /\ outcome = [t \in Task |-> "none"]
  /\ collected = [j \in Jobs |-> {}]
  /\ errors = 0
  /\ lost = {}
  /\ owed = 0
  /\ excepted = {}

-----------------------------------------------------------------------------
(* Putting into the bounded queue: as much as fits, then the putter blocks. *)

(* Variant: everything is put, whatever room there is. *)
RoomUnbounded(n) == n

AtMost(a, b) == IF a <= b THEN a ELSE b
Room(n) == AtMost(n, QueueCap - Len(tasks))

FilesFrom(first, k) == [i \in 1..k |-> [job |-> cur, file |-> first + i]]

PutTasks(k) ==
  /\ tasks' = tasks \o FilesFrom(sent[cur], k)
  /\ unfinished' = unfinished + k

(* stop(): what is left of the loop that puts the stop signals. *)
PutSignals(n) ==
  /\ tasks' = tasks \o [i \in 1..Room(n) |-> Stop]
  /\ unfinished' = unfinished + Room(n)
  /\ signals' = n - Room(n)
  /\ spc' = IF signals' = 0 THEN "joining" ELSE "putting"

-----------------------------------------------------------------------------
(* WorkerPool *)

(* start(): a fresh worker per slot; the two queues are those of before.   *)
(* start() is not called while a stop() is in progress: both are awaited   *)
(* by the owner of the pool.                                               *)
StartPool ==
  /\ ~running /\ spc = "none" /\ starts < MaxStarts
  /\ running' = TRUE
  /\ starts' = starts + 1
  /\ wpc' = [w \in Workers |-> "get"]
  /\ UNCHANGED <<tasks, unfinished, results, wtask, lost, outcome, stopVars, jobVars>>

(* Variant: the worker takes the task without removing it from the queue.  *)
TakeTwice(w) ==
  /\ wpc[w] = "get" /\ tasks # <<>>
  /\ wtask' = [wtask EXCEPT ![w] = Head(tasks)]
  /\ wpc' = [wpc EXCEPT ![w] = IF Head(tasks) = Stop THEN "off" ELSE "work"]
  /\ UNCHANGED <<running, starts, tasks, unfinished, results, lost, outcome, stopVars, jobVars>>

(* Variant: task_done() right after get(), the result some time later.     *)
TakeDone(w) ==
  /\ wpc[w] = "get" /\ tasks # <<>>
  /\ tasks' = Tail(tasks)
  /\ unfinished' = unfinished - 1
  /\ wtask' = [wtask EXCEPT ![w] = Head(tasks)]
  /\ wpc' = [wpc EXCEPT ![w] = IF Head(tasks) = Stop THEN "off" ELSE "work"]
  /\ UNCHANGED <<running, starts, results, lost, outcome, stopVars, jobVars>>

(* task = await self.task_queue.get(), and the test for the stop signal.   *)
Take(w) ==
  /\ wpc[w] = "get" /\ tasks # <<>>
  /\ tasks' = Tail(tasks)
  /\ wtask' = [wtask EXCEPT ![w] = Head(tasks)]
  /\ wpc' = [wpc EXCEPT ![w] = IF Head(tasks) = Stop THEN "off" ELSE "work"]
  /\ UNCHANGED <<running, starts, unfinished, results, lost, outcome, stopVars, jobVars>>

(* process_file has returned (it raises nothing): result, task_done(), and *)
(* `while self.running'.                                                   *)
Deliver(w) ==
  /\ wpc[w] = "work"
  /\ \E o \in Outcome :
       /\ outcome' = [outcome EXCEPT ![wtask[w]] = o]
       /\ results' = Append(results, [task |-> wtask[w], success |-> o # "raised"])
  /\ unfinished' = unfinished - 1
  /\ wtask' = [wtask EXCEPT ![w] = Stop]
  /\ wpc' = [wpc EXCEPT ![w] = IF running THEN "get" ELSE "off"]
  /\ UNCHANGED <<running, starts, tasks, lost, stopVars, jobVars>>

StopPool ==
  /\ running
  /\ running' = FALSE
  /\ PutSignals(Cardinality(Workers))
  /\ UNCHANGED <<starts, results, wpc, wtask, lost, outcome, jobVars>>

StopPut ==
  /\ spc = "putting" /\ Len(tasks) < QueueCap
  /\ PutSignals(signals)
  /\ UNCHANGED <<poolVars, results, outcome, jobVars>>

(* Variant: stop() also awaits task_queue.join(), which no stop signal     *)
(* ever releases: task_done() is not called for them.                      *)
StopJoinQueue ==
  /\ spc = "joining" /\ unfinished = 0 /\ \A w \in Workers : wpc[w] = "off"
  /\ spc' = "none"
  /\ UNCHANGED <<poolVars, tasks, unfinished, results, signals, outcome, jobVars>>

StopJoin ==
  /\ spc = "joining" /\ \A w \in Workers : wpc[w] = "off"
  /\ spc' = "none"
  /\ UNCHANGED <<poolVars, tasks, unfinished, results, signals, outcome, jobVars>>

(* Joining has taken 30 s: the workers are cancelled, wherever they are.   *)
StopTimeout ==
  /\ spc = "joining" /\ \E w \in Workers : wpc[w] # "off"
  /\ spc' = "none"
  /\ lost' = lost \cup {wtask[w] : w \in {v \in Workers : wpc[v] = "work"}}
  /\ wpc' = [w \in Workers |-> "off"]
  /\ wtask' = [w \in Workers |-> Stop]
  /\ UNCHANGED <<running, starts, tasks, unfinished, results, signals, outcome, jobVars>>

-----------------------------------------------------------------------------
(* JobExecutor.execute_job *)

(* Variant: complete_job(job_id) on every path. *)
CompleteSuccessfully(j, error, r) == [r EXCEPT ![j].status = "completed"]

(* complete_job(job_id) or complete_job(job_id, error) *)
CompleteJob(j, error, r) ==
  [r EXCEPT ![j].status = IF error THEN "failed" ELSE "completed"]

(* except Exception: complete_job with the error, when the path is missing  *)
(* (raised = 0) or a statement on the jobs table failed (raised = 1).  When *)
(* this one fails too the row stays running, and the exception leaves       *)
(* execute_job and run_loop (and `async with' then stops the pool).         *)
Except(j, r, raised) ==
  /\ excepted' = excepted \cup {j}
  /\ \/ errors' = errors + raised /\ row' = CompleteJob(j, TRUE, r)
     \/ errors' = errors + 1 /\ row' = r
  /\ errors' <= MaxErrors

(* run_loop tests `running' before every job; execute_all_pending does not. *)
MayExecute(j) == running \/ (j \in Drained /\ starts > 0)

(* start_job, which has found the row pending, and the count of the files. *)
Started(j, n) == [row EXCEPT ![j].status = "running", ![j].total = n]

(* The paths on which nothing is submitted: no files; no such directory;   *)
(* and an error of complete_job or of update_progress.                     *)
ExecuteNothing(j) ==
  /\ epc = "idle" /\ row[j].status = "pending" /\ MayExecute(j)
  /\ \/ row' = CompleteJob(j, FALSE, Started(j, 0)) /\ UNCHANGED <<errors, excepted>>
     \/ \E raised \in {0, 1} : Except(j, Started(j, 0), raised)
  /\ UNCHANGED <<poolVars, tasks, unfinished, results, outcome, stopVars, epc, cur,
                 sent, processed, failed, collected, owed>>

ExecuteJob(j, n) ==
  /\ epc = "idle" /\ row[j].status = "pending" /\ MayExecute(j)
  /\ row' = Started(j, n)
  /\ epc' = "submit"
  /\ cur' = j
  /\ processed' = 0
  /\ failed' = FALSE
  /\ UNCHANGED <<poolVars, tasks, unfinished, results, outcome, stopVars, sent, errors,
                 collected, owed, excepted>>

(* submit_batch, up to the next put that blocks. *)
Submit ==
  /\ epc = "submit" /\ Len(tasks) < QueueCap
  /\ LET k == Room(row[cur].total - sent[cur])
     IN  /\ PutTasks(k)
         /\ sent' = [sent EXCEPT ![cur] = @ + k]
  /\ epc' = IF sent'[cur] = row[cur].total THEN "collect" ELSE "submit"
  /\ UNCHANGED <<poolVars, results, outcome, stopVars, cur, processed, failed, row, errors,
                 collected, owed, excepted>>

(* One result of get_result. *)
CountResult ==
  /\ epc = "collect" /\ results # <<>>
  /\ results' = Tail(results)
  /\ processed' = processed + 1
  /\ failed' = (failed \/ ~Head(results).success)
  /\ collected' = [collected EXCEPT ![cur] = @ \cup {Head(results).task}]

(* execute_job ends with p results counted: those of the other tasks are   *)
(* still to come, and whoever asks for results next gets them.             *)
LeaveEarly(p) ==
  /\ epc' = "idle"
  /\ owed' = owed + (sent[cur] - p)

(* Variant: the loop ends one result early. *)
CollectShort ==
  /\ CountResult
  /\ IF processed' >= row[cur].total - 1
       THEN row' = CompleteJob(cur, failed', row) /\ epc' = "idle"
       ELSE row' = row /\ epc' = epc
  /\ UNCHANGED <<poolVars, tasks, unfinished, outcome, stopVars, cur, sent, errors, owed,
                 excepted>>

(* One iteration of the loop over total_files, and complete_job after the  *)
(* last one.                                                               *)
IsLast == processed' = row[cur].total

Collect ==
  /\ CountResult
  /\ row' = IF IsLast THEN CompleteJob(cur, failed', row) ELSE row
  /\ epc' = IF IsLast THEN "idle" ELSE "collect"
  /\ UNCHANGED <<poolVars, tasks, unfinished, outcome, stopVars, cur, sent, errors, owed,
                 excepted>>

(* The same, when update_progress or the last complete_job raises.         *)
CollectFails ==
  /\ CountResult
  /\ IsLast \/ processed' % ProgressEvery = 0
  /\ Except(cur, row, 1)
  /\ LeaveEarly(processed')
  /\ UNCHANGED <<poolVars, tasks, unfinished, outcome, stopVars, cur, sent>>

(* Variant: the wait is given up only while the pool runs. *)
CollectTimeoutWhileRunning ==
  /\ epc = "collect" /\ results = <<>> /\ running
  /\ LeaveEarly(processed)
  /\ row' = CompleteJob(cur, failed, row)
  /\ UNCHANGED <<poolVars, tasks, unfinished, results, outcome, stopVars, cur, sent,
                 processed, failed, errors, collected, excepted>>

(* get_result(timeout=300.0) returned None: `break', then complete_job.    *)
CollectTimeout ==
  /\ epc = "collect" /\ results = <<>>
  /\ LeaveEarly(processed)
  /\ \/ row' = CompleteJob(cur, failed, row) /\ UNCHANGED <<errors, excepted>>
     \/ Except(cur, row, 1)
  /\ UNCHANGED <<poolVars, tasks, unfinished, results, outcome, stopVars, cur, sent,
                 processed, failed, collected>>

(* The coroutine is cancelled (Ctrl-C) at an await: `except Exception' does *)
(* not see it, the row stays as it is; __aexit__ stops the pool (StopPool). *)
Interrupt ==
  /\ epc = "collect" \/ (epc = "submit" /\ Len(tasks) = QueueCap)
  /\ LeaveEarly(processed)
  /\ UNCHANGED <<poolVars, tasks, unfinished, results, outcome, stopVars, cur, sent,
                 processed, failed, row, errors, collected, excepted>>

-----------------------------------------------------------------------------

ExecuteStep == Submit \/ Collect \/ CollectFails \/ CollectTimeout
StopStep    == StopPut \/ StopJoin \/ StopTimeout
WorkerStep(w) == Take(w) \/ Deliver(w)

Next ==
  \/ StartPool
  \/ StopPool
  \/ StopStep
  \/ \E w \in Workers : WorkerStep(w)
  \/ \E j \in Jobs : \/ ExecuteNothing(j)
                     \/ \E n \in FileCounts[j] : ExecuteJob(j, n)
  \/ ExecuteStep
  \/ Interrupt

Spec == Init /\ [][Next]_vars

(* Coroutines that can go on do: the event loop is fair, process_file ends *)
(* (its requests have timeouts), and so do the two waits with a timeout.   *)
FairSpec ==
  /\ Spec
  /\ WF_vars(ExecuteStep)
  /\ WF_vars(StopStep)
  /\ \A w \in Workers : WF_vars(WorkerStep(w))

-----------------------------------------------------------------------------
(* Properties *)

(* The places where a task can be; one of them for each time it is there.  *)
Places(t) ==
  {<<"queued", i>> : i \in {k \in DOMAIN tasks : tasks[k] = t}}
    \cup {<<"at work", w>> : w \in {v \in Workers : wpc[v] = "work" /\ wtask[v] = t}}
    \cup {<<"result", i>> : i \in {k \in DOMAIN results : results[k].task = t}}
    \cup {<<"counted", j>> : j \in {k \in Jobs : t \in collected[k]}}
    \cup {<<"lost", t>> : x \in {t} \cap lost}

(* No file is processed or counted twice, and every file submitted for any *)
(* job is queued, at work, delivered, counted, or was in the hands of a    *)
(* cancelled worker: none disappears between the two queues.               *)
EveryTaskInOnePlace ==
  \A t \in Task :
    /\ Cardinality(Places(t)) <= 1
    /\ t.file <= sent[t.job] => Places(t) # {}

(* wait_completion() never returns early: while a task is queued or being  *)
(* processed, the counter that task_queue.join() waits for is not zero.    *)
JoinWaitsForAll ==
  unfinished = 0 => tasks = <<>> /\ \A w \in Workers : wpc[w] # "work"

FilesOf(j) == {t \in Task : t.job = j /\ t.file <= sent[j]}

(* The damage of an execution that ends early (a timeout, an exception, an *)
(* interrupt) is bounded by what it left: over all that time later jobs    *)
(* count at most so many results that are not theirs, and each misses at   *)
(* most so many of its own -- none, as long as no execution ended early.   *)
JobsMissOnlyWhatIsOwed ==
  \A j \in Jobs :
    /\ Cardinality(collected[j] \ FilesOf(j)) <= owed
    /\ epc = "idle" \/ j # cur => Cardinality(FilesOf(j) \ collected[j]) <= owed

(* A job that counted a failed file ends as failed, even if it then timed  *)
(* out; and a job with files ends as failed only for that reason, or when  *)
(* the exception handler completed it.                                     *)
FailuresFailTheJob ==
  \A j \in Jobs :
    row[j].status \in Ended /\ sent[j] > 0 =>
      (row[j].status = "failed" <=>
         j \in excepted \/ \E t \in collected[j] : outcome[t] = "raised")

(* stop() comes to its end, whatever is left in the queues, unless it has  *)
(* a stop signal to put, the task queue is full, and no worker is left to  *)
(* take anything from it.                                                  *)
StopReturns ==
  spc # "none" ~> \/ spc = "none"
                  \/ /\ spc = "putting" /\ Len(tasks) = QueueCap
                     /\ \A w \in Workers : wpc[w] = "off"

(* Every job that starts executing stops executing, also when the pool is  *)
(* stopped under it, unless it waits for room in the task queue.           *)
ExecutionReturns ==
  epc # "idle" ~> epc = "idle" \/ (epc = "submit" /\ Len(tasks) = QueueCap)
=============================================================================
