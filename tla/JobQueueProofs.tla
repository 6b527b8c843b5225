--------------------------- MODULE JobQueueProofs ---------------------------
(***************************************************************************)
(* Proofs about JobQueue, for any number of jobs, executors and operators. *)
(*                                                                         *)
(* The safety properties follow from one inductive invariant, Inv: typing, *)
(* what the program counters imply (ControlOK), what a `job clean' in      *)
(* flight has listed (CleanListsEndedJobs), and the two ownership          *)
(* properties.                                                             *)
(***************************************************************************)
EXTENDS JobQueue, FiniteSetTheorems, TLAPS

(* An executor that starts or works has a job; only drainers keep a backlog. *)
ControlOK ==
  \A e \in Executors :
    /\ pc[e] \in {"start", "work"} => job[e] \in Jobs
    /\ e \notin Drainers => backlog[e] = {}

(* Whatever happened since the listing, the rows about to be deleted by id *)
(* are still rows of ended jobs (or already gone).                         *)
CleanListsEndedJobs ==
  \A o \in Operators : bulk[o].op = "clean" =>
    \A j \in bulk[o].todo : status[j] \in Lifecycle!Terminal \cup {"cleaned"}

Inv == TypeOK /\ ControlOK /\ CleanListsEndedJobs /\ OneExecutorPerJob /\ RunningHasOwner

USE DEF Lifecycle!RowStatus, Lifecycle!JobStatus, Lifecycle!Terminal

-----------------------------------------------------------------------------
(* Inv is inductive *)

(* Inv holds initially. *)
LEMMA InitInv == Init => Inv
  <1>. SUFFICES ASSUME Init PROVE Inv
    OBVIOUS
  <1>1. TypeOK
    BY JobQueueAssumption DEF Init, TypeOK, PC, BulkOps
  <1>. QED
    BY <1>1 DEF Init, Inv, ControlOK, CleanListsEndedJobs, OneExecutorPerJob,
                RunningHasOwner, Running, WithStatus, Working

(* A conditional UPDATE keeps the typing, leaves the other rows alone and  *)
(* never touches an ended row.                                             *)
LEMMA UpdateFacts ==
  ASSUME TypeOK, NEW j \in Jobs, NEW from, NEW to \in Lifecycle!JobStatus,
         from \cap (Lifecycle!Terminal \cup {"cleaned"}) = {},
         Update(j, from, to)
  PROVE  /\ status' \in [Jobs -> Lifecycle!RowStatus]
         /\ \A k \in Jobs : k # j => status'[k] = status[k]
         /\ status'[j] = IF status[j] \in from THEN to ELSE status[j]
         /\ \A k \in Jobs : status[k] \in Lifecycle!Terminal \cup {"cleaned"}
                              => status'[k] = status[k]
  BY DEF Update, TypeOK

(* What the end of execute_next_job does to its executor, and to no other. *)
LEMMA ReturnFacts ==
  ASSUME TypeOK, NEW e \in Executors, Return(e)
  PROVE  /\ pc' \in [Executors -> PC]
         /\ job' \in [Executors -> Jobs \cup {NoJob}]
         /\ backlog' \in [Executors -> SUBSET Jobs]
         /\ \A d \in Executors \ {e} : /\ pc'[d] = pc[d]
                                       /\ job'[d] = job[d]
                                       /\ backlog'[d] = backlog[d]
         /\ pc'[e] \in {"idle", "start"}
         /\ pc'[e] = "start" => job'[e] \in Jobs /\ backlog[e] # {}
         /\ backlog[e] = {} => backlog'[e] = {} /\ pc'[e] = "idle"
  BY DEF Return, TypeOK, PC, IsFirst

(* An UPDATE that starts nothing and makes no job pending keeps Inv. *)
LEMMA ParkInv ==
  ASSUME Inv, NEW j \in Jobs, NEW from, NEW to \in {"cancelled", "paused"},
         from \cap (Lifecycle!Terminal \cup {"cleaned"}) = {},
         Update(j, from, to),
         bulk' \in [Operators -> [op : BulkOps, todo : SUBSET Jobs]],
         \A o \in Operators : bulk'[o] = bulk[o] \/ bulk'[o].op # "clean",
         UNCHANGED <<prio, created, clock, execVars, historyVars>>
  PROVE  Inv'
  <1>. USE DEF Inv, execVars, historyVars
  <1>1. /\ status' \in [Jobs -> Lifecycle!RowStatus]
        /\ \A k \in Jobs : k # j => status'[k] = status[k]
        /\ status'[j] = IF status[j] \in from THEN to ELSE status[j]
        /\ \A k \in Jobs : status[k] \in Lifecycle!Terminal \cup {"cleaned"}
                             => status'[k] = status[k]
    BY UpdateFacts
  <1>2. TypeOK'
    BY <1>1 DEF TypeOK
  <1>3. ControlOK'
    BY DEF ControlOK
  <1>4. CleanListsEndedJobs'
    BY <1>1 DEF CleanListsEndedJobs, TypeOK
  <1>5. OneExecutorPerJob'
    BY <1>1 DEF OneExecutorPerJob, Working
  <1>6. RunningHasOwner'
    BY <1>1 DEF RunningHasOwner, Running, WithStatus, Working
  <1>. QED
    BY <1>2, <1>3, <1>4, <1>5, <1>6

(* A resumed job is pending: nobody owns it, and if its executor still     *)
(* works on it, it is counted as revived.                                  *)
LEMMA ResumeInv ==
  ASSUME Inv, NEW j \in Jobs, ResumeJob(j),
         bulk' \in [Operators -> [op : BulkOps, todo : SUBSET Jobs]],
         \A o \in Operators : bulk'[o] = bulk[o] \/ bulk'[o].op # "clean",
         UNCHANGED <<prio, created, clock, execVars, crashes, orphaned>>
  PROVE  Inv'
  <1>. USE DEF Inv, execVars
  <1>1. /\ status' \in [Jobs -> Lifecycle!RowStatus]
        /\ \A k \in Jobs : k # j => status'[k] = status[k]
        /\ status'[j] = IF status[j] \in {"paused"} THEN "pending" ELSE status[j]
        /\ \A k \in Jobs : status[k] \in Lifecycle!Terminal \cup {"cleaned"}
                             => status'[k] = status[k]
    BY UpdateFacts DEF ResumeJob
  <1>2. TypeOK'
    BY <1>1, JobQueueAssumption DEF TypeOK, ResumeJob
  <1>3. ControlOK'
    BY DEF ControlOK
  <1>4. CleanListsEndedJobs'
    BY <1>1 DEF CleanListsEndedJobs, TypeOK
  <1>5. OneExecutorPerJob'
    BY <1>1 DEF OneExecutorPerJob, Working, ResumeJob
  <1>6. RunningHasOwner'
    BY <1>1 DEF RunningHasOwner, Running, WithStatus, Working
  <1>. QED
    BY <1>2, <1>3, <1>4, <1>5, <1>6

(* A new row is pending and has no owner. *)
LEMMA CreateInv == ASSUME Inv, NEW j \in Jobs, NEW p \in Priorities, CreateJob(j, p)
                   PROVE  Inv'
  <1>. USE DEF Inv, CreateJob, execVars, historyVars
  <1>1. TypeOK'
    BY DEF TypeOK
  <1>2. ControlOK'
    BY DEF ControlOK
  <1>3. CleanListsEndedJobs'
    BY DEF CleanListsEndedJobs, TypeOK
  <1>4. OneExecutorPerJob'
    BY DEF OneExecutorPerJob, Working, TypeOK
  <1>5. RunningHasOwner'
    BY DEF RunningHasOwner, Running, WithStatus, Working, TypeOK
  <1>. QED
    BY <1>1, <1>2, <1>3, <1>4, <1>5

(* The commands of the CLI keep Inv. *)
LEMMA CliInv == ASSUME Inv, NEW j \in Jobs, CliPause(j) \/ CliCancel(j) \/ CliResume(j)
                PROVE  Inv'
  <1>1. CASE CliPause(j)
    BY <1>1, ParkInv DEF CliPause, PauseJob, Inv, TypeOK, historyVars, Lifecycle!Terminal
  <1>2. CASE CliCancel(j)
    BY <1>2, ParkInv DEF CliCancel, CancelJob, Inv, TypeOK, historyVars
  <1>3. CASE CliResume(j)
    BY <1>3, ResumeInv DEF CliResume, Inv, TypeOK
  <1>. QED
    BY <1>1, <1>2, <1>3

(* Listing rows changes none; a clean lists ended jobs only. *)
LEMMA BulkListInv ==
  ASSUME Inv, NEW o \in Operators, NEW op \in BulkOps \ {"none"}, BulkList(o, op)
  PROVE  Inv'
  <1>. USE DEF Inv, tableVars, execVars, historyVars
  <1>1. PICK rows \in Listed(op) :
          \E todo \in IF op = "clean" THEN SUBSET rows ELSE {rows} :
            bulk' = [bulk EXCEPT ![o] = [op |-> op, todo |-> todo]]
    BY DEF BulkList
  <1>2. PICK todo \in IF op = "clean" THEN SUBSET rows ELSE {rows} :
          bulk' = [bulk EXCEPT ![o] = [op |-> op, todo |-> todo]]
    BY <1>1
  <1>3. /\ rows \subseteq Jobs /\ todo \subseteq rows
        /\ op = "clean" => \A j \in rows : status[j] \in Lifecycle!Terminal
    <2>1. CASE op = "clean"
      <3>1. Listed(op) = {WithStatus(s) : s \in Lifecycle!Terminal}
        BY <2>1 DEF Listed
      <3>. QED
        BY <2>1, <3>1, <1>2 DEF WithStatus
    <2>2. CASE op = "cancel_all_pending"
      BY <2>2, <1>2 DEF Listed, Pending, WithStatus
    <2>3. CASE op = "pause_all_running"
      BY <2>3, <1>2 DEF Listed, Running, WithStatus
    <2>4. CASE op = "resume_all_paused"
      BY <2>4, <1>2 DEF Listed, WithStatus
    <2>. QED
      BY <2>1, <2>2, <2>3, <2>4 DEF BulkOps
  <1>5. UNCHANGED <<tableVars, execVars, historyVars>>
    BY DEF BulkList
  <1>6. TypeOK'
    BY <1>2, <1>3, <1>5 DEF TypeOK
  <1>7. CleanListsEndedJobs'
    BY <1>2, <1>3, <1>5 DEF CleanListsEndedJobs, TypeOK
  <1>. QED
    BY <1>5, <1>6, <1>7 DEF ControlOK, OneExecutorPerJob, RunningHasOwner, Running,
                            WithStatus, Working

(* Each row of a bulk operation is updated like a single one. *)
LEMMA BulkUpdateInv == ASSUME Inv, NEW o \in Operators, BulkUpdate(o) PROVE Inv'
  <1>1. PICK j \in bulk[o].todo :
          /\ \/ /\ bulk[o].op = "cancel_all_pending"
                /\ CancelJob(j)
                /\ UNCHANGED <<resumes, revived>>
             \/ /\ bulk[o].op = "pause_all_running"
                /\ PauseJob(j)
                /\ UNCHANGED <<resumes, revived>>
             \/ /\ bulk[o].op = "resume_all_paused"
                /\ ResumeJob(j)
          /\ bulk' = [bulk EXCEPT ![o] = Remaining(bulk[o], j)]
          /\ UNCHANGED <<prio, created, clock, execVars, crashes, orphaned>>
    BY DEF BulkUpdate
  <1>2. j \in Jobs /\ bulk[o].op # "clean"
    BY <1>1 DEF Inv, TypeOK
  <1>3. /\ bulk' \in [Operators -> [op : BulkOps, todo : SUBSET Jobs]]
        /\ \A q \in Operators : bulk'[q] = bulk[q] \/ bulk'[q].op # "clean"
    <2>1. /\ Remaining(bulk[o], j) \in [op : BulkOps, todo : SUBSET Jobs]
          /\ Remaining(bulk[o], j).op # "clean"
      BY <1>2 DEF Inv, TypeOK, Remaining, BulkOps
    <2>. QED
      BY <1>1, <2>1 DEF Inv, TypeOK
  <1>4. CASE CancelJob(j) /\ UNCHANGED <<resumes, revived>>
    BY <1>1, <1>2, <1>3, <1>4, ParkInv DEF CancelJob, historyVars
  <1>5. CASE PauseJob(j) /\ UNCHANGED <<resumes, revived>>
    BY <1>1, <1>2, <1>3, <1>5, ParkInv DEF PauseJob, historyVars
  <1>6. CASE ResumeJob(j)
    BY <1>1, <1>2, <1>3, <1>6, ResumeInv
  <1>. QED
    BY <1>1, <1>4, <1>5, <1>6

(* The rows deleted by id are those of ended jobs, which have no owner. *)
LEMMA CleanDeleteInv == ASSUME Inv, NEW o \in Operators, CleanDelete(o) PROVE Inv'
  <1>. USE DEF Inv, CleanDelete, execVars, historyVars
  <1>1. TypeOK'
    BY DEF TypeOK, BulkOps
  <1>2. ControlOK'
    BY DEF ControlOK
  <1>3. CleanListsEndedJobs'
    BY DEF CleanListsEndedJobs, TypeOK
  <1>4. OneExecutorPerJob'
    BY DEF OneExecutorPerJob, Working, TypeOK
  <1>5. RunningHasOwner'
    BY DEF RunningHasOwner, Running, WithStatus, Working, TypeOK
  <1>. QED
    BY <1>1, <1>2, <1>3, <1>4, <1>5

(* The reads of the scheduler change no row and no owner. *)
LEMMA SchedulerInv ==
  ASSUME Inv, NEW e \in Executors,
         \/ \E n \in 1..MaxConcurrent : SetMaxConcurrentJobs(e, n)
         \/ CanScheduleMore(e)
         \/ CountRunning(e)
         \/ SelectNext(e)
         \/ ListAllPending(e)
  PROVE  Inv'
  <1>. USE DEF Inv, tableVars, historyVars
  <1>1. TypeOK'
    <2>1. CASE \/ \E n \in 1..MaxConcurrent : SetMaxConcurrentJobs(e, n)
               \/ CanScheduleMore(e)
               \/ CountRunning(e)
      BY <2>1 DEF TypeOK, PC, SetMaxConcurrentJobs, CanScheduleMore, CountRunning
    <2>2. CASE SelectNext(e)
      BY <2>2 DEF TypeOK, PC, SelectNext
    <2>3. CASE ListAllPending(e)
      BY <2>3 DEF TypeOK, PC, ListAllPending, Pending, WithStatus
    <2>. QED
      BY <2>1, <2>2, <2>3
  <1>2. UNCHANGED <<tableVars, bulk, historyVars>>
    BY DEF SetMaxConcurrentJobs, CanScheduleMore, CountRunning, SelectNext, ListAllPending
  <1>3. /\ \A d \in Executors, j \in Jobs : Working(d, j)' <=> Working(d, j)
        /\ ControlOK'
    BY DEF TypeOK, ControlOK, Working, SetMaxConcurrentJobs, CanScheduleMore, CountRunning,
           SelectNext, ListAllPending
  <1>4. CleanListsEndedJobs'
    BY <1>2 DEF CleanListsEndedJobs
  <1>5. OneExecutorPerJob'
    BY <1>2, <1>3 DEF OneExecutorPerJob
  <1>6. RunningHasOwner'
    BY <1>2, <1>3 DEF RunningHasOwner, Running, WithStatus
  <1>. QED
    BY <1>1, <1>3, <1>4, <1>5, <1>6

(* The step that matters for ownership: start_job moves exactly the rows   *)
(* that are pending, so whoever loses the race does not execute the job.   *)
LEMMA StartInv == ASSUME Inv, NEW e \in Executors, Start(e) PROVE Inv'
  <1>. USE DEF Inv
  <1>0. PICK j \in Jobs : j = job[e]
    BY DEF ControlOK, Start
  <1>1. /\ status' \in [Jobs -> Lifecycle!RowStatus]
        /\ \A k \in Jobs : k # j => status'[k] = status[k]
        /\ status'[j] = IF status[j] \in {"pending"} THEN "running" ELSE status[j]
        /\ \A k \in Jobs : status[k] \in Lifecycle!Terminal \cup {"cleaned"}
                             => status'[k] = status[k]
    <2>1. Update(j, {"pending"}, "running")
      BY <1>0 DEF Start, StartJob
    <2>. QED
      BY <2>1, UpdateFacts
  <1>2. CASE status[j] = "pending"
    <2>1. /\ pc' = [pc EXCEPT ![e] = "work"]
          /\ orphaned' = orphaned \ {j}
          /\ UNCHANGED <<prio, created, clock, limit, job, backlog, bulk, resumes,
                         crashes, revived>>
      BY <1>0, <1>2 DEF Start
    <2>2. TypeOK'
      BY <1>1, <2>1 DEF TypeOK, PC
    <2>3. ControlOK'
      BY <1>0, <2>1 DEF ControlOK, TypeOK
    <2>4. CleanListsEndedJobs'
      BY <1>1, <2>1 DEF CleanListsEndedJobs, TypeOK
    <2>5. /\ Working(e, j)'
          /\ \A d \in Executors, k \in Jobs : d # e => (Working(d, k)' <=> Working(d, k))
          /\ \A k \in Jobs : Working(e, k)' => k = j
          /\ \A k \in Jobs : ~Working(e, k)
      BY <1>0, <2>1 DEF Working, TypeOK, Start
    <2>6. OneExecutorPerJob'
      BY <1>1, <1>2, <2>1, <2>5 DEF OneExecutorPerJob
    <2>7. RunningHasOwner'
      BY <1>1, <2>1, <2>5 DEF RunningHasOwner, Running, WithStatus
    <2>. QED
      BY <2>2, <2>3, <2>4, <2>6, <2>7
  <1>3. CASE status[j] # "pending"
    <2>1. /\ Return(e)
          /\ UNCHANGED <<prio, created, clock, limit, bulk, resumes, crashes, revived,
                         orphaned>>
      BY <1>0, <1>3 DEF Start
    <2>2. status' = status
      BY <1>0, <1>3, <1>1 DEF TypeOK
    <2>3. TypeOK' /\ ControlOK'
      BY <2>1, <2>2, ReturnFacts, JobQueueAssumption DEF TypeOK, ControlOK
    <2>4. \A d \in Executors, k \in Jobs : Working(d, k)' <=> Working(d, k)
      BY <2>1, ReturnFacts DEF Working, Start
    <2>. QED
      BY <2>1, <2>2, <2>3, <2>4 DEF CleanListsEndedJobs, OneExecutorPerJob, RunningHasOwner,
                                    Running, WithStatus
  <1>. QED
    BY <1>2, <1>3

(* Whatever became of the row meanwhile, it does not stay running when its *)
(* executor returns.                                                       *)
LEMMA FinishInv == ASSUME Inv, NEW e \in Executors, Finish(e) PROVE Inv'
  <1>. USE DEF Inv, historyVars
  <1>0. PICK j \in Jobs : j = job[e]
    BY DEF ControlOK, Finish
  <1>1. PICK outcome \in {"completed", "failed"} : Update(j, {"running"}, outcome)
    BY <1>0 DEF Finish, CompleteJob
  <1>2. /\ status' \in [Jobs -> Lifecycle!RowStatus]
        /\ \A k \in Jobs : k # j => status'[k] = status[k]
        /\ status'[j] = IF status[j] \in {"running"} THEN outcome ELSE status[j]
        /\ \A k \in Jobs : status[k] \in Lifecycle!Terminal \cup {"cleaned"}
                             => status'[k] = status[k]
    BY <1>1, UpdateFacts
  <1>3. /\ Return(e)
        /\ UNCHANGED <<prio, created, clock, limit, bulk, historyVars>>
    BY DEF Finish
  <1>4. TypeOK'
    BY <1>2, <1>3, ReturnFacts DEF TypeOK
  <1>5. ControlOK'
    BY <1>3, ReturnFacts DEF ControlOK
  <1>6. CleanListsEndedJobs'
    BY <1>2, <1>3 DEF CleanListsEndedJobs, TypeOK
  <1>7. \A d \in Executors, k \in Jobs : Working(d, k)' <=> d # e /\ Working(d, k)
    BY <1>3, ReturnFacts DEF Working
  <1>8. OneExecutorPerJob'
    BY <1>2, <1>3, <1>7 DEF OneExecutorPerJob
  <1>9. RunningHasOwner'
    <2>1. \A k \in Jobs : k # j => ~Working(e, k)
      BY <1>0 DEF Working
    <2>2. status'[j] # "running"
      BY <1>2
    <2>. QED
      BY <1>2, <1>3, <1>7, <2>1, <2>2 DEF RunningHasOwner, Running, WithStatus
  <1>. QED
    BY <1>4, <1>5, <1>6, <1>8, <1>9

(* A crash orphans the job of the executor. *)
LEMMA CrashInv == ASSUME Inv, NEW e \in Executors, Crash(e) PROVE Inv'
  <1>. USE DEF Inv, Crash, tableVars
  <1>1. TypeOK'
    BY JobQueueAssumption DEF TypeOK, PC, ControlOK
  <1>2. ControlOK'
    BY DEF ControlOK, TypeOK
  <1>3. CleanListsEndedJobs'
    BY DEF CleanListsEndedJobs
  <1>4. \A d \in Executors, k \in Jobs : Working(d, k)' <=> d # e /\ Working(d, k)
    BY DEF Working, TypeOK
  <1>5. OneExecutorPerJob'
    BY <1>4 DEF OneExecutorPerJob
  <1>6. RunningHasOwner'
    <2>1. \A k \in Jobs : Working(e, k) => k \in orphaned'
      BY DEF Working
    <2>. QED
      BY <1>4, <2>1 DEF RunningHasOwner, Running, WithStatus
  <1>. QED
    BY <1>1, <1>2, <1>3, <1>5, <1>6

(* The strengthened invariant holds in every reachable state. *)
THEOREM Invariance == Spec => []Inv
  <1>1. Init => Inv
    BY InitInv
  <1>2. Inv /\ [Next]_vars => Inv'
    <2>. SUFFICES ASSUME Inv, [Next]_vars PROVE Inv'
      OBVIOUS
    <2>1. ASSUME NEW j \in Jobs, NEW p \in Priorities, CreateJob(j, p) PROVE Inv'
      BY <2>1, CreateInv
    <2>2. ASSUME NEW j \in Jobs, CliPause(j) \/ CliCancel(j) \/ CliResume(j) PROVE Inv'
      BY <2>2, CliInv
    <2>3. ASSUME NEW o \in Operators, NEW op \in BulkOps \ {"none"}, BulkList(o, op)
          PROVE  Inv'
      BY <2>3, BulkListInv
    <2>4. ASSUME NEW o \in Operators, BulkUpdate(o) PROVE Inv'
      BY <2>4, BulkUpdateInv
    <2>5. ASSUME NEW o \in Operators, CleanDelete(o) PROVE Inv'
      BY <2>5, CleanDeleteInv
    <2>6. ASSUME NEW e \in Executors,
                 \/ \E n \in 1..MaxConcurrent : SetMaxConcurrentJobs(e, n)
                 \/ CanScheduleMore(e)
                 \/ CountRunning(e)
                 \/ SelectNext(e)
                 \/ ListAllPending(e)
          PROVE  Inv'
      BY <2>6, SchedulerInv
    <2>7. ASSUME NEW e \in Executors, Start(e) PROVE Inv'
      BY <2>7, StartInv
    <2>8. ASSUME NEW e \in Executors, Finish(e) PROVE Inv'
      BY <2>8, FinishInv
    <2>9. ASSUME NEW e \in Executors, Crash(e) PROVE Inv'
      BY <2>9, CrashInv
    <2>10. CASE UNCHANGED vars
      BY <2>10 DEF vars, Inv, TypeOK, ControlOK, CleanListsEndedJobs, OneExecutorPerJob,
                   RunningHasOwner, Running, WithStatus, Working
    <2>. QED
      BY <2>1, <2>2, <2>3, <2>4, <2>5, <2>6, <2>7, <2>8, <2>9, <2>10
         DEF Next, ExecutorStep
  <1>. QED
    BY <1>1, <1>2, PTL DEF Spec

(* Every variable always has its type. *)
THEOREM Typing == Spec => []TypeOK
  BY Invariance, PTL DEF Inv

(* Two executors never execute the same job unless an operator resumed it  *)
(* behind its executor's back (manager.py:161 start_job is one conditional *)
(* UPDATE, whose loser returns without executing).                         *)
THEOREM Ownership == Spec => []OneExecutorPerJob
  BY Invariance, PTL DEF Inv

(* A row says "running" only while somebody executes the job, or after a   *)
(* crash of its executor.                                                  *)
THEOREM NoSpontaneousOrphan == Spec => []RunningHasOwner
  BY Invariance, PTL DEF Inv

-----------------------------------------------------------------------------
(* The jobs table implements the lifecycle of models.py *)

(* A conditional UPDATE is a move of the lifecycle, or changes nothing. *)
LEMMA UpdateIsMove ==
  ASSUME TypeOK, NEW j \in Jobs, NEW from, NEW to, Update(j, from, to)
  PROVE  Lifecycle!Moves(j, from, to) \/ status' = status
  <1>1. CASE status[j] \in from
    BY <1>1 DEF Update, TypeOK, Lifecycle!Moves
  <1>2. CASE status[j] \notin from
    BY <1>2 DEF Update, TypeOK
  <1>. QED
    BY <1>1, <1>2

(* Every step is one of the lifecycle, or leaves the statuses alone. *)
LEMMA StepFollowsLifecycle ==
  ASSUME Inv, [Next]_vars
  PROVE  Lifecycle!LifecycleNext \/ status' = status
  <1>. USE DEF Inv
  <1>1. ASSUME NEW j \in Jobs, NEW p \in Priorities, CreateJob(j, p)
        PROVE  Lifecycle!Creates(j)
    BY <1>1 DEF CreateJob, Lifecycle!Creates, Lifecycle!Moves
  <1>2. ASSUME NEW j \in Jobs, PauseJob(j) PROVE Lifecycle!Pauses(j) \/ status' = status
    BY <1>2, UpdateIsMove DEF PauseJob, Lifecycle!Pauses, Lifecycle!Pausable
  <1>3. ASSUME NEW j \in Jobs, CancelJob(j) PROVE Lifecycle!Cancels(j) \/ status' = status
    BY <1>3, UpdateIsMove DEF CancelJob, Lifecycle!Cancels, Lifecycle!Cancelable
  <1>4. ASSUME NEW j \in Jobs, ResumeJob(j) PROVE Lifecycle!Resumes(j) \/ status' = status
    BY <1>4, UpdateIsMove DEF ResumeJob, Lifecycle!Resumes, Lifecycle!Resumable
  <1>5. ASSUME NEW j \in Jobs, StartJob(j) PROVE Lifecycle!Starts(j) \/ status' = status
    BY <1>5, UpdateIsMove DEF StartJob, Lifecycle!Starts
  <1>6. ASSUME NEW j \in Jobs, NEW outcome \in {"completed", "failed"},
               CompleteJob(j, outcome)
        PROVE  Lifecycle!Finishes(j) \/ status' = status
    BY <1>6, UpdateIsMove DEF CompleteJob, Lifecycle!Finishes
  <1>7. ASSUME NEW o \in Operators, CleanDelete(o)
        PROVE  \E S \in SUBSET Jobs : Lifecycle!Deletes(S)
    <2>. DEFINE S == {j \in bulk[o].todo : status[j] \in Lifecycle!Terminal}
    <2>1. bulk[o].todo \subseteq Jobs
      BY DEF TypeOK
    <2>2. \A j \in bulk[o].todo \ S : status[j] = "cleaned"
      BY <1>7 DEF CleanDelete, CleanListsEndedJobs
    <2>3. status' = [j \in Jobs |-> IF j \in S THEN "cleaned" ELSE status[j]]
      BY <1>7, <2>1, <2>2 DEF CleanDelete
    <2>4. Lifecycle!Deletes(S)
      BY <2>3 DEF Lifecycle!Deletes
    <2>. QED
      BY <2>1, <2>4
  <1>8. ASSUME NEW o \in Operators, BulkUpdate(o)
        PROVE  \E j \in Jobs : CancelJob(j) \/ PauseJob(j) \/ ResumeJob(j)
    BY <1>8 DEF BulkUpdate, TypeOK
  <1>9. ASSUME NEW e \in Executors, Start(e) PROVE job[e] \in Jobs /\ StartJob(job[e])
    BY <1>9 DEF Start, ControlOK
  <1>10. ASSUME NEW e \in Executors, Finish(e)
         PROVE  /\ job[e] \in Jobs
                /\ \E outcome \in {"completed", "failed"} : CompleteJob(job[e], outcome)
    BY <1>10 DEF Finish, ControlOK
  <1>11. CASE UNCHANGED status
    BY <1>11
  <1>12. CASE /\ Next
              /\ status' # status
    <2>1. \/ \E j \in Jobs : \/ \E p \in Priorities : CreateJob(j, p)
                             \/ PauseJob(j) \/ CancelJob(j) \/ ResumeJob(j)
          \/ \E o \in Operators : BulkUpdate(o) \/ CleanDelete(o)
          \/ \E e \in Executors : Start(e) \/ Finish(e)
      BY <1>12 DEF Next, ExecutorStep, CliPause, CliCancel, CliResume, BulkList,
                   CanScheduleMore, CountRunning, SelectNext, ListAllPending, Crash,
                   SetMaxConcurrentJobs, tableVars
    <2>2. \/ \E j \in Jobs : \/ Lifecycle!Creates(j) \/ Lifecycle!Starts(j)
                             \/ Lifecycle!Finishes(j) \/ Lifecycle!Cancels(j)
                             \/ Lifecycle!Pauses(j) \/ Lifecycle!Resumes(j)
          \/ \E S \in SUBSET Jobs : Lifecycle!Deletes(S)
      BY <1>12, <2>1, <1>1, <1>2, <1>3, <1>4, <1>5, <1>6, <1>7, <1>8, <1>9, <1>10
    <2>. QED
      BY <2>2 DEF Lifecycle!LifecycleNext
  <1>. QED
    BY <1>11, <1>12 DEF vars

(* Whatever the processes do, the jobs table behaves as the lifecycle of   *)
(* models.py says.                                                         *)
THEOREM Refinement == Spec => FollowsLifecycle
  <1>1. Init => Lifecycle!LifecycleInit
    BY DEF Init, Lifecycle!LifecycleInit
  <1>2. Inv /\ [Next]_vars => [Lifecycle!LifecycleNext]_status
    BY StepFollowsLifecycle
  <1>. QED
    BY <1>1, <1>2, Invariance, PTL DEF Spec, FollowsLifecycle, Lifecycle!LifecycleSpec

(* An ended job keeps its status until its row is deleted. *)
THEOREM Finality == Spec => TerminalStatusFinal
  <1>1. ASSUME Inv, [Next]_vars, NEW j \in Jobs, status[j] \in Lifecycle!Terminal
        PROVE  status'[j] \in {status[j], "cleaned"}
    <2>1. CASE Lifecycle!LifecycleNext
      BY <1>1, <2>1 DEF Inv, TypeOK, Lifecycle!LifecycleNext, Lifecycle!Creates,
           Lifecycle!Starts, Lifecycle!Finishes, Lifecycle!Cancels, Lifecycle!Pauses,
           Lifecycle!Resumes, Lifecycle!Deletes, Lifecycle!Moves, Lifecycle!Cancelable,
           Lifecycle!Pausable, Lifecycle!Resumable
    <2>. QED
      BY <1>1, <2>1, StepFollowsLifecycle
  <1>2. Inv /\ [Next]_vars =>
          [\A j \in Jobs : status[j] \in Lifecycle!Terminal =>
                             status'[j] \in {status[j], "cleaned"}]_vars
    BY <1>1
  <1>. QED
    BY <1>2, Invariance, PTL DEF Spec, TerminalStatusFinal

-----------------------------------------------------------------------------
(* The limit of concurrent jobs *)

(* An executor counts twice: as the job it runs, or as one it may start.   *)
Overshoot ==
  Drainers = {} =>
    Cardinality(Running) + Cardinality(Claiming) <= MaxConcurrent - 1 + Cardinality(Executors)

(* Both sets are finite, in every state. *)
LEMMA FiniteCounts ==
  /\ IsFiniteSet(Running) /\ IsFiniteSet(Claiming)
  /\ Cardinality(Running) \in Nat /\ Cardinality(Claiming) \in Nat
  /\ Cardinality(Claiming) <= Cardinality(Executors) /\ Cardinality(Executors) \in Nat
  <1>1. Running \subseteq Jobs /\ Claiming \subseteq Executors
    BY DEF Running, WithStatus, Claiming
  <1>. QED
    BY <1>1, JobQueueFinite, FS_Subset, FS_CardinalityType

(* The same of the next state. *)
LEMMA FiniteCountsNext ==
  /\ IsFiniteSet(Running') /\ IsFiniteSet(Claiming')
  /\ Cardinality(Running') \in Nat /\ Cardinality(Claiming') \in Nat
  /\ Cardinality(Claiming') <= Cardinality(Executors)
  <1>1. Running' \subseteq Jobs /\ Claiming' \subseteq Executors
    BY DEF Running, WithStatus, Claiming
  <1>. QED
    BY <1>1, JobQueueFinite, FS_Subset, FS_CardinalityType

(* Fewer running jobs and fewer claims keep the bound. *)
LEMMA FewerClaims ==
  ASSUME Overshoot, Running' \subseteq Running, Claiming' \subseteq Claiming
  PROVE  Overshoot'
  <1>1. /\ Cardinality(Running') <= Cardinality(Running)
        /\ Cardinality(Claiming') <= Cardinality(Claiming)
    BY FiniteCounts, FS_Subset
  <1>. QED
    BY <1>1, FiniteCounts, FiniteCountsNext, JobQueueAssumption DEF Overshoot

(* A successful start turns a claim into a running job; a failed one drops *)
(* the claim.                                                              *)
LEMMA StartKeepsBound ==
  ASSUME Inv, Overshoot, NEW e \in Executors, Start(e)
  PROVE  Overshoot'
  <1>1. CASE Drainers # {}
    BY <1>1 DEF Overshoot
  <1>2. CASE Drainers = {}
    <2>1. PICK j \in Jobs : j = job[e]
      BY DEF Inv, ControlOK, Start
    <2>2. backlog[e] = {} /\ pc[e] = "start" /\ e \in Claiming
      BY <1>2 DEF Inv, ControlOK, Start, Claiming
    <2>3. pc \in [Executors -> PC] /\ status \in [Jobs -> Lifecycle!RowStatus]
      BY DEF Inv, TypeOK
    <2>4. CASE status[j] = "pending"
      <3>1. pc' = [pc EXCEPT ![e] = "work"] /\ status' = [status EXCEPT ![j] = "running"]
        BY <2>1, <2>3, <2>4 DEF Start, StartJob, Update
      <3>2. Claiming' = Claiming \ {e}
        BY <2>3, <3>1 DEF Claiming
      <3>3. Running' \subseteq Running \cup {j}
        BY <2>3, <3>1 DEF Running, WithStatus
      <3>4. Cardinality(Claiming') = Cardinality(Claiming) - 1
        BY <2>2, <3>2, FiniteCounts, FS_RemoveElement
      <3>5. Cardinality(Running') <= Cardinality(Running) + 1
        <4>0. PICK c \in Nat : c = Cardinality(Running)
          BY FiniteCounts
        <4>1. /\ IsFiniteSet(Running \cup {j})
              /\ Cardinality(Running \cup {j}) = IF j \in Running THEN c ELSE c + 1
          BY <4>0, FiniteCounts, FS_AddElement
        <4>2. Cardinality(Running') <= Cardinality(Running \cup {j})
          BY <3>3, <4>1, FS_Subset
        <4>. QED
          BY <4>0, <4>1, <4>2, FiniteCountsNext
      <3>. QED
        BY <1>2, <3>4, <3>5, FiniteCounts, FiniteCountsNext, JobQueueAssumption DEF Overshoot
    <2>5. CASE status[j] # "pending"
      <3>1. status' = status /\ Return(e)
        BY <2>1, <2>3, <2>5 DEF Start, StartJob, Update
      <3>2. pc' = [pc EXCEPT ![e] = "idle"]
        BY <2>2, <3>1 DEF Return, IsFirst
      <3>. QED
        BY <2>3, <3>1, <3>2, FewerClaims DEF Running, WithStatus, Claiming
    <2>. QED
      BY <2>4, <2>5
  <1>. QED
    BY <1>1, <1>2

(* An executor claims only while it counts fewer than MaxConcurrent.       *)
LEMMA CountKeepsBound ==
  ASSUME Inv, Overshoot, NEW e \in Executors, CountRunning(e)
  PROVE  Overshoot'
  <1>1. /\ pc \in [Executors -> PC] /\ limit[e] \in 1..MaxConcurrent
        /\ pc[e] = "count" /\ status' = status
        /\ pc' = [pc EXCEPT ![e] = IF RunningCount >= limit[e] THEN "idle" ELSE "select"]
    BY DEF Inv, TypeOK, CountRunning, tableVars
  <1>2. Running' = Running
    BY <1>1 DEF Running, WithStatus
  <1>3. CASE RunningCount >= limit[e]
    BY <1>1, <1>2, <1>3, FewerClaims DEF Claiming
  <1>4. CASE ~(RunningCount >= limit[e])
    BY <1>1, <1>2, <1>4, FiniteCounts, FiniteCountsNext, JobQueueAssumption
       DEF Overshoot, RunningCount
  <1>. QED
    BY <1>3, <1>4

(* No other step starts a job, and none of them claims one. *)
LEMMA OthersKeepBound ==
  ASSUME Inv, Overshoot, [Next]_vars, Drainers = {},
         \A e \in Executors : ~Start(e) /\ ~CountRunning(e)
  PROVE  Overshoot'
  <1>1. /\ pc \in [Executors -> PC] /\ status \in [Jobs -> Lifecycle!RowStatus]
        /\ \A e \in Executors : backlog[e] = {}
        /\ bulk \in [Operators -> [op : BulkOps, todo : SUBSET Jobs]]
    BY DEF Inv, TypeOK, ControlOK
  <1>2. ASSUME NEW j \in Jobs, NEW from, NEW to \in Lifecycle!JobStatus \ {"running"}, Update(j, from, to)
        PROVE  Running' \subseteq Running
    BY <1>1, <1>2 DEF Update, Running, WithStatus
  <1>3. ASSUME UNCHANGED pc
        PROVE  Claiming' = Claiming
    BY <1>3 DEF Claiming
  <1>4. ASSUME NEW j \in Jobs, PauseJob(j) \/ CancelJob(j) \/ ResumeJob(j)
        PROVE  Running' \subseteq Running
    BY <1>2, <1>4 DEF PauseJob, CancelJob, ResumeJob
  <1>5. ASSUME NEW j \in Jobs,
               (\E p \in Priorities : CreateJob(j, p)) \/ CliPause(j) \/ CliCancel(j) \/ CliResume(j)
        PROVE  Overshoot'
    <2>1. Running' \subseteq Running
      BY <1>1, <1>4, <1>5 DEF CreateJob, CliPause, CliCancel, CliResume, Running, WithStatus
    <2>2. UNCHANGED pc
      BY <1>5 DEF CreateJob, CliPause, CliCancel, CliResume, execVars
    <2>. QED
      BY <1>3, <2>1, <2>2, FewerClaims
  <1>6. ASSUME NEW o \in Operators,
               \/ \E op \in BulkOps \ {"none"} : BulkList(o, op)
               \/ BulkUpdate(o) \/ CleanDelete(o)
        PROVE  Overshoot'
    <2>1. UNCHANGED pc
      BY <1>6 DEF BulkList, BulkUpdate, CleanDelete, execVars
    <2>2. bulk[o].todo \subseteq Jobs
      BY <1>1
    <2>3. Running' \subseteq Running
      <3>1. CASE \E op \in BulkOps \ {"none"} : BulkList(o, op)
        BY <3>1 DEF BulkList, tableVars, Running, WithStatus
      <3>2. CASE BulkUpdate(o)
        BY <1>4, <2>2, <3>2 DEF BulkUpdate
      <3>3. CASE CleanDelete(o)
        BY <3>3 DEF CleanDelete, Running, WithStatus
      <3>. QED
        BY <1>6, <3>1, <3>2, <3>3
    <2>. QED
      BY <1>3, <2>1, <2>3, FewerClaims
  <1>7. ASSUME NEW e \in Executors,
               \/ CanScheduleMore(e) \/ SelectNext(e) \/ Crash(e)
               \/ \E n \in 1..MaxConcurrent : SetMaxConcurrentJobs(e, n)
        PROVE  Overshoot'
    <2>1. Running' = Running
      BY <1>7 DEF CanScheduleMore, SelectNext, Crash, SetMaxConcurrentJobs, tableVars,
                  Running, WithStatus
    <2>2. Claiming' \subseteq Claiming
      BY <1>1, <1>7 DEF CanScheduleMore, SelectNext, Crash, SetMaxConcurrentJobs, Claiming
    <2>. QED
      BY <2>1, <2>2, FewerClaims
  <1>8. ASSUME NEW e \in Executors, Finish(e)
        PROVE  Overshoot'
    <2>1. PICK j \in Jobs : j = job[e]
      BY <1>8 DEF Finish, Inv, ControlOK
    <2>2. PICK outcome \in {"completed", "failed"} : Update(j, {"running"}, outcome)
      BY <1>8, <2>1 DEF Finish, CompleteJob
    <2>3. Running' \subseteq Running
      BY <1>2, <2>2
    <2>4. pc' = [pc EXCEPT ![e] = "idle"]
      BY <1>1, <1>8 DEF Finish, Return, IsFirst
    <2>5. Claiming' \subseteq Claiming
      BY <1>1, <2>4 DEF Claiming
    <2>. QED
      BY <2>3, <2>5, FewerClaims
  <1>9. CASE UNCHANGED vars
    BY <1>9, FewerClaims DEF vars, Running, WithStatus, Claiming
  <1>. QED
    BY <1>5, <1>6, <1>7, <1>8, <1>9 DEF Next, ExecutorStep, ListAllPending

(* For any number of executors and any limits up to MaxConcurrent, no more *)
(* than MaxConcurrent + n - 1 jobs run at once, and a single executor      *)
(* enforces the limit (scheduler.py:24), as long as none of them drains    *)
(* the queue with execute_all_pending.                                     *)
THEOREM Capacity == Spec => []CapacityOvershootBounded
  <1>1. Init => Overshoot
    <2>1. SUFFICES ASSUME Init PROVE Overshoot
      OBVIOUS
    <2>2. Running = {} /\ Claiming = {}
      BY <2>1 DEF Init, Running, WithStatus, Claiming
    <2>. QED
      BY <2>2, FS_EmptySet, FiniteCounts, JobQueueAssumption DEF Overshoot
  <1>2. Inv /\ Overshoot /\ [Next]_vars => Overshoot'
    <2>1. CASE Drainers # {}
      BY <2>1 DEF Overshoot
    <2>. QED
      BY <2>1, StartKeepsBound, CountKeepsBound, OthersKeepBound
  <1>3. Overshoot => CapacityOvershootBounded
    BY FiniteCounts, JobQueueAssumption DEF Overshoot, CapacityOvershootBounded
  <1>. QED
    BY <1>1, <1>2, <1>3, Invariance, PTL DEF Spec
=============================================================================
