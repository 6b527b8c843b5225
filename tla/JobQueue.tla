------------------------------ MODULE JobQueue ------------------------------
(***************************************************************************)
(* The ingestion job queue: the jobs table of kb_metadata.db, updated by   *)
(* several operating-system processes at once.                             *)
(*                                                                         *)
(*   - JobManager (ingest/job/manager.py): every status change is one      *)
(*     conditional UPDATE, committed at once: one atomic step here.        *)
(*   - JobScheduler (ingest/job/scheduler.py): the count of running jobs   *)
(*     and the choice of the next job are separate SELECTs, so another     *)
(*     process may act between them; the bulk operations list rows first   *)
(*     and update them one by one.                                         *)
(*   - JobExecutor (ingest/worker/executor.py): run_loop and               *)
(*     execute_all_pending, up to the end of execute_job.  The work itself *)
(*     (the pool and its results) is module JobExecution.                  *)
(*   - kb-rag job ... (ingest/cli/job.py): each command is a process.      *)
(***************************************************************************)
EXTENDS Integers, FiniteSets

CONSTANTS
  Jobs,          (* the job ids                                            *)
  Executors,     (* the processes running a JobExecutor on this database   *)
  Drainers,      (* those that call execute_all_pending besides run_loop   *)
  Operators,     (* the processes running a bulk operation                 *)
  Priorities,    (* JobPriority values                                     *)
  MaxConcurrent, (* the largest limit any scheduler is given               *)
  CliWindow,     (* LIMIT of list_jobs() in the CLI's prefix lookup: 100   *)
  MaxResumes,    (* bound on the resumes of a behaviour                    *)
  MaxCrashes,    (* bound on the crashes of executor processes             *)
  NoJob

ASSUME JobQueueAssumption ==
  /\ Drainers \subseteq Executors
  /\ Priorities \subseteq Nat
  /\ Priorities # {}
  /\ MaxConcurrent \in Nat \ {0}
  /\ CliWindow \in Nat
  /\ MaxResumes \in Nat
  /\ MaxCrashes \in Nat
  /\ NoJob \notin Jobs

(* A behaviour has finitely many rows and processes. *)
ASSUME JobQueueFinite == IsFiniteSet(Jobs) /\ IsFiniteSet(Executors)

VARIABLES
  status,   \* status[j]: status column ("absent": not inserted, "cleaned": deleted)
  prio,     \* prio[j]: priority column
  created,  \* created[j]: rank of created_at
  clock,    \* number of rows inserted so far
  limit,    \* limit[e]: max_concurrent_jobs of e's scheduler
  pc,       \* pc[e]: where e is in run_loop / execute_next_job / execute_job
  job,      \* job[e]: the job e has selected or executes
  backlog,  \* backlog[e]: what execute_all_pending of e has still to execute
  bulk,     \* bulk[o]: operation in progress and the rows it listed
  resumes, crashes,   \* counters of the two bounds
  revived,  \* history: jobs resumed while an executor was still working on them
  orphaned  \* history: jobs whose executor crashed and that nobody restarted

tableVars   == <<status, prio, created, clock>>
execVars    == <<limit, pc, job, backlog>>
historyVars == <<resumes, crashes, revived, orphaned>>
vars == <<status, prio, created, clock, limit, pc, job, backlog, bulk,
          resumes, crashes, revived, orphaned>>

(* The refinement mapping: the abstract status is the column of that name. *)
Lifecycle == INSTANCE JobLifecycle WITH Jobs <- Jobs, status <- status

-----------------------------------------------------------------------------
(* Types *)

PC == {"idle", "count", "select", "start", "work"}
BulkOps == {"none", "cancel_all_pending", "pause_all_running",
            "resume_all_paused", "clean"}

TypeOK ==
  /\ status \in [Jobs -> Lifecycle!RowStatus]
  /\ prio \in [Jobs -> Priorities]
  /\ created \in [Jobs -> Nat]
  /\ clock \in Nat
  /\ limit \in [Executors -> 1..MaxConcurrent]
  /\ pc \in [Executors -> PC]
  /\ job \in [Executors -> Jobs \cup {NoJob}]
  /\ backlog \in [Executors -> SUBSET Jobs]
  /\ bulk \in [Operators -> [op : BulkOps, todo : SUBSET Jobs]]
  /\ resumes \in Nat
  /\ crashes \in Nat
  /\ revived \in SUBSET Jobs
  /\ orphaned \in SUBSET Jobs

-----------------------------------------------------------------------------
(* Reading the table *)

WithStatus(s) == {j \in Jobs : status[j] = s}
Running == WithStatus("running")
Pending == WithStatus("pending")

(* Variant: the count selects the wrong status. *)
PendingCount == Cardinality(Pending)

(* _count_running_jobs *)
RunningCount == Cardinality(Running)

(* ORDER BY priority DESC, created_at ASC *)
Before(j, k) ==
  \/ prio[j] > prio[k]
  \/ prio[j] = prio[k] /\ created[j] < created[k]

IsFirst(j, S) == j \in S /\ \A k \in S \ {j} : Before(j, k)

(* The CLI resolves an id prefix against the CliWindow newest rows. *)
Addressable(j) ==
  /\ status[j] \notin {"absent", "cleaned"}
  /\ Cardinality({k \in Jobs : /\ status[k] \notin {"absent", "cleaned"}
                               /\ created[k] > created[j]}) < CliWindow

Working(e, j) == pc[e] = "work" /\ job[e] = j

-----------------------------------------------------------------------------
(* JobManager: conditional updates.  Each is one committed statement.      *)

(* Variant: the WHERE clause on the status is missing. *)
UpdateUnchecked(j, from, to) == status' = [status EXCEPT ![j] = to]

(* UPDATE jobs SET status = to WHERE job_id = j AND status IN from *)
Update(j, from, to) ==
  status' = [status EXCEPT ![j] = IF @ \in from THEN to ELSE @]

StartJob(j)    == Update(j, {"pending"}, "running")
CompleteJob(j, outcome) == Update(j, {"running"}, outcome)
CancelJob(j)   == Update(j, {"pending", "running", "paused"}, "cancelled")
PauseJob(j)    == Update(j, {"pending", "running"}, "paused")

(* resume_job, with the history of resumes that overtake an executor. *)
ResumeJob(j) ==
  /\ resumes < MaxResumes
  /\ resumes' = resumes + 1
  /\ Update(j, {"paused"}, "pending")
  /\ revived' = IF status[j] = "paused" /\ \E e \in Executors : Working(e, j)
                  THEN revived \cup {j} ELSE revived

(* create_job: called by the CLI, the watcher and the schedule loop. *)
CreateJob(j, p) ==
  /\ status[j] = "absent"
  /\ status' = [status EXCEPT ![j] = "pending"]
  /\ prio' = [prio EXCEPT ![j] = p]
  /\ created' = [created EXCEPT ![j] = clock]
  /\ clock' = clock + 1
  /\ UNCHANGED <<execVars, bulk, historyVars>>

-----------------------------------------------------------------------------
(* The command line: kb-rag job pause | resume | cancel <prefix> *)

CliPause(j) ==
  /\ Addressable(j)
  /\ PauseJob(j)
  /\ UNCHANGED <<prio, created, clock, execVars, bulk, historyVars>>

CliCancel(j) ==
  /\ Addressable(j)
  /\ CancelJob(j)
  /\ UNCHANGED <<prio, created, clock, execVars, bulk, historyVars>>

CliResume(j) ==
  /\ Addressable(j)
  /\ ResumeJob(j)
  /\ UNCHANGED <<prio, created, clock, execVars, bulk, crashes, orphaned>>

-----------------------------------------------------------------------------
(* Bulk operations and `job clean': list the rows, then act on the list.   *)

Listed(op) ==
  CASE op = "cancel_all_pending" -> {Pending}
    [] op = "pause_all_running"  -> {Running}
    [] op = "resume_all_paused"  -> {WithStatus("paused")}
    [] op = "clean" -> {WithStatus(s) : s \in Lifecycle!Terminal}

(* The first SELECT; `clean' lists the old rows of one terminal status.    *)
BulkList(o, op) ==
  /\ bulk[o].op = "none"
  /\ \E rows \in Listed(op) :
       \E todo \in IF op = "clean" THEN SUBSET rows ELSE {rows} :
         /\ todo # {}
         /\ bulk' = [bulk EXCEPT ![o] = [op |-> op, todo |-> todo]]
  /\ UNCHANGED <<tableVars, execVars, historyVars>>

(* What is left of a bulk operation once row j is done. *)
Remaining(b, j) ==
  IF b.todo = {j} THEN [op |-> "none", todo |-> {}]
                  ELSE [op |-> b.op, todo |-> b.todo \ {j}]

(* One iteration of the loop over the listed rows. *)
BulkUpdate(o) ==
  \E j \in bulk[o].todo :
    /\ \/ /\ bulk[o].op = "cancel_all_pending"
          /\ CancelJob(j)
          /\ UNCHANGED <<resumes, revived>>
       \/ /\ bulk[o].op = "pause_all_running"
          /\ PauseJob(j)
          /\ UNCHANGED <<resumes, revived>>
       \/ /\ bulk[o].op = "resume_all_paused"
          /\ ResumeJob(j)
    /\ bulk' = [bulk EXCEPT ![o] = Remaining(bulk[o], j)]
    /\ UNCHANGED <<prio, created, clock, execVars, crashes, orphaned>>

(* The DELETEs of `clean' are one transaction; they test only the id.      *)
CleanDelete(o) ==
  /\ bulk[o].op = "clean"
  /\ status' = [j \in Jobs |-> IF j \in bulk[o].todo THEN "cleaned" ELSE status[j]]
  /\ bulk' = [bulk EXCEPT ![o] = [op |-> "none", todo |-> {}]]
  /\ UNCHANGED <<prio, created, clock, execVars, historyVars>>

-----------------------------------------------------------------------------
(* JobScheduler and JobExecutor *)

(* Variant: the lower bound of the new limit is one too low. *)
SetMaxConcurrentJobsFromZero(e, n) ==
  /\ limit' = [limit EXCEPT ![e] = n - 1]
  /\ UNCHANGED <<tableVars, pc, job, backlog, bulk, historyVars>>

SetMaxConcurrentJobs(e, n) ==
  /\ limit' = [limit EXCEPT ![e] = n]
  /\ UNCHANGED <<tableVars, pc, job, backlog, bulk, historyVars>>

(* run_loop: `if self.scheduler.can_schedule_more()' *)
CanScheduleMore(e) ==
  /\ pc[e] = "idle"
  /\ RunningCount < limit[e]
  /\ pc' = [pc EXCEPT ![e] = "count"]
  /\ UNCHANGED <<tableVars, limit, job, backlog, bulk, historyVars>>

(* get_next_job, first SELECT: the count of running jobs. *)
CountRunning(e) ==
  /\ pc[e] = "count"
  /\ pc' = [pc EXCEPT ![e] = IF RunningCount >= limit[e] THEN "idle" ELSE "select"]
  /\ UNCHANGED <<tableVars, limit, job, backlog, bulk, historyVars>>

(* get_next_job, second SELECT: the first pending row, if any. *)
SelectNext(e) ==
  /\ pc[e] = "select"
  /\ \/ /\ Pending = {}
        /\ pc' = [pc EXCEPT ![e] = "idle"]
        /\ UNCHANGED job
     \/ \E j \in Jobs :
          /\ IsFirst(j, Pending)
          /\ pc' = [pc EXCEPT ![e] = "start"]
          /\ job' = [job EXCEPT ![e] = j]
  /\ UNCHANGED <<tableVars, limit, backlog, bulk, historyVars>>

(* execute_all_pending: one SELECT, then every listed job in that order,   *)
(* without looking at the limit again.                                     *)
ListAllPending(e) ==
  /\ e \in Drainers
  /\ pc[e] = "idle"
  /\ \E j \in Jobs :
       /\ IsFirst(j, Pending)
       /\ pc' = [pc EXCEPT ![e] = "start"]
       /\ job' = [job EXCEPT ![e] = j]
       /\ backlog' = [backlog EXCEPT ![e] = Pending \ {j}]
  /\ UNCHANGED <<tableVars, limit, bulk, historyVars>>

(* execute_job has returned: next job of the backlog, or back to the loop. *)
Return(e) ==
  \/ /\ backlog[e] = {}
     /\ pc' = [pc EXCEPT ![e] = "idle"]
     /\ job' = [job EXCEPT ![e] = NoJob]
     /\ UNCHANGED backlog
  \/ \E j \in Jobs :
       /\ IsFirst(j, backlog[e])
       /\ pc' = [pc EXCEPT ![e] = "start"]
       /\ job' = [job EXCEPT ![e] = j]
       /\ backlog' = [backlog EXCEPT ![e] = @ \ {j}]

(* execute_job: `if not self.manager.start_job(...): return False' *)
Start(e) ==
  /\ pc[e] = "start"
  /\ StartJob(job[e])
  /\ IF status[job[e]] = "pending"
       THEN /\ pc' = [pc EXCEPT ![e] = "work"]
            /\ orphaned' = orphaned \ {job[e]}
            /\ UNCHANGED <<job, backlog>>
       ELSE /\ Return(e)
            /\ UNCHANGED orphaned
  /\ UNCHANGED <<prio, created, clock, limit, bulk, resumes, crashes, revived>>

(* Variant: execute_job returns without complete_job on one of its paths.  *)
FinishSilently(e) ==
  /\ pc[e] = "work"
  /\ Return(e)
  /\ UNCHANGED <<tableVars, limit, bulk, historyVars>>

(* Every path of execute_job after start_job ends in complete_job.         *)
Finish(e) ==
  /\ pc[e] = "work"
  /\ \E outcome \in {"completed", "failed"} : CompleteJob(job[e], outcome)
  /\ Return(e)
  /\ UNCHANGED <<prio, created, clock, limit, bulk, historyVars>>

(* The process dies or is interrupted, and comes back with a new executor  *)
(* and scheduler; nothing then looks at the rows it left "running".        *)
Crash(e) ==
  /\ pc[e] # "idle"
  /\ crashes < MaxCrashes
  /\ crashes' = crashes + 1
  /\ orphaned' = IF pc[e] = "work" THEN orphaned \cup {job[e]} ELSE orphaned
  /\ pc' = [pc EXCEPT ![e] = "idle"]
  /\ job' = [job EXCEPT ![e] = NoJob]
  /\ backlog' = [backlog EXCEPT ![e] = {}]
  /\ limit' = [limit EXCEPT ![e] = MaxConcurrent]
  /\ UNCHANGED <<tableVars, bulk, resumes, revived>>

-----------------------------------------------------------------------------

Init ==
  /\ status = [j \in Jobs |-> "absent"]
  /\ prio = [j \in Jobs |-> CHOOSE p \in Priorities : TRUE]
  /\ created = [j \in Jobs |-> 0]
  /\ clock = 0
  /\ limit = [e \in Executors |-> MaxConcurrent]
  /\ pc = [e \in Executors |-> "idle"]
  /\ job = [e \in Executors |-> NoJob]
  /\ backlog = [e \in Executors |-> {}]
  /\ bulk = [o \in Operators |-> [op |-> "none", todo |-> {}]]
  /\ resumes = 0
  /\ crashes = 0
  /\ revived = {}
  /\ orphaned = {}

ExecutorStep(e) ==
  \/ CanScheduleMore(e)
  \/ CountRunning(e)
  \/ SelectNext(e)
  \/ Start(e)
  \/ Finish(e)

Next ==
  \/ \E j \in Jobs :
       \/ \E p \in Priorities : CreateJob(j, p)
       \/ CliPause(j)
       \/ CliCancel(j)
       \/ CliResume(j)
  \/ \E o \in Operators :
       \/ \E op \in BulkOps \ {"none"} : BulkList(o, op)
       \/ BulkUpdate(o)
       \/ CleanDelete(o)
  \/ \E e \in Executors :
       \/ ExecutorStep(e)
       \/ ListAllPending(e)
       \/ Crash(e)
       \/ \E n \in 1..MaxConcurrent : SetMaxConcurrentJobs(e, n)

Spec == Init /\ [][Next]_vars

(* run_loop keeps polling, and execute_job always comes to an end: its     *)
(* waits for results are bounded by get_result(timeout=300).               *)
FairSpec == Spec /\ \A e \in Executors : WF_vars(ExecutorStep(e))

-----------------------------------------------------------------------------
(* Properties *)

(* A job that has ended keeps its status for ever, whatever executors, CLI *)
(* commands and bulk operations are still in flight; only `job clean' may  *)
(* remove its row (manager.py: every UPDATE tests the status).             *)
TerminalStatusFinal ==
  [][\A j \in Jobs : status[j] \in Lifecycle!Terminal =>
                       status'[j] \in {status[j], "cleaned"}]_vars

(* The table implements the lifecycle of models.py.  In particular `job    *)
(* clean', which deletes by id what it listed earlier, never deletes the   *)
(* row of a job that is not over.                                          *)
FollowsLifecycle == Lifecycle!LifecycleSpec

(* Two executors never work on the same job, unless it was resumed while   *)
(* its first executor, which does not notice a pause, was still at it; and *)
(* otherwise a job still to be started is one nobody works on.             *)
OneExecutorPerJob ==
  \A j \in Jobs \ revived :
    /\ \A d, e \in Executors : Working(d, j) /\ Working(e, j) => d = e
    /\ status[j] \in {"absent", "pending"} => \A e \in Executors : ~Working(e, j)

(* A row says "running" only while an executor works on the job, or after  *)
(* its executor crashed: execute_job closes the row on every path.         *)
RunningHasOwner ==
  \A j \in Running : j \in orphaned \/ \E e \in Executors : Working(e, j)

(* The executors that have passed the capacity check but not yet started. *)
Claiming == {e \in Executors : pc[e] \in {"select", "start"}}

(* The count and the start are not one transaction: n executors can exceed *)
(* the limit, but never by more than n - 1; one executor never exceeds it. *)
CapacityOvershootBounded ==
  Drainers = {} =>
    Cardinality(Running) <= MaxConcurrent + Cardinality(Executors) - 1

(* A pending job does not wait for ever: it is eventually executed to its  *)
(* end, cancelled, or parked by an operator; unless the rows that crashed  *)
(* executors left "running", which nothing ever closes, take up the whole  *)
(* limit of an executor.                                                   *)
EveryJobSettles ==
  \A j \in Jobs : status[j] = "pending" ~>
                    \/ status[j] \in Lifecycle!Terminal \cup {"paused", "cleaned"}
                    \/ /\ Running \subseteq orphaned
                       /\ \E e \in Executors : Cardinality(Running) >= limit[e]
=============================================================================
