---------------------------- MODULE JobLifecycle ----------------------------
(***************************************************************************)
(* What ingest/job/models.py and ingest/job/manager.py promise about one   *)
(* row of the jobs table, whoever issues the updates: the status follows   *)
(* the lifecycle, a terminal status is final, and a row is deleted only    *)
(* after its job has ended.  JobQueue is shown to implement this module.   *)
(***************************************************************************)

CONSTANT Jobs   \* the job ids ever created (uuid4, never reused)

VARIABLE status \* status[j]: the status column, "absent" before the INSERT,
                \* "cleaned" after the row is deleted

(* JobStatus: the enumeration, plus the two ways a row can be missing. *)
JobStatus == {"pending", "running", "completed", "failed", "cancelled", "paused"}
RowStatus == JobStatus \cup {"absent", "cleaned"}

(* Job.is_terminal, can_pause, can_resume, can_cancel. *)
Terminal   == {"completed", "failed", "cancelled"}
Pausable   == {"pending", "running"}
Resumable  == {"paused"}
Cancelable == {"pending", "running", "paused"}

LifecycleTypeOK == status \in [Jobs -> RowStatus]

LifecycleInit == status = [j \in Jobs |-> "absent"]

(* One row goes from one of the statuses in `from' to `to'. *)
Moves(j, from, to) ==
  /\ status[j] \in from
  /\ status' = [status EXCEPT ![j] = to]

Creates(j)  == Moves(j, {"absent"}, "pending")
Starts(j)   == Moves(j, {"pending"}, "running")
Finishes(j) == \E to \in {"completed", "failed"} : Moves(j, {"running"}, to)
Cancels(j)  == Moves(j, Cancelable, "cancelled")
Pauses(j)   == Moves(j, Pausable, "paused")
Resumes(j)  == Moves(j, Resumable, "pending")

(* One DELETE transaction removes any number of rows, ended ones only. *)
Deletes(S) ==
  /\ \A j \in S : status[j] \in Terminal
  /\ status' = [j \in Jobs |-> IF j \in S THEN "cleaned" ELSE status[j]]

LifecycleNext ==
  \/ \E j \in Jobs :
       \/ Creates(j)
       \/ Starts(j)
       \/ Finishes(j)
       \/ Cancels(j)
       \/ Pauses(j)
       \/ Resumes(j)
  \/ \E S \in SUBSET Jobs : Deletes(S)

LifecycleSpec == LifecycleInit /\ [][LifecycleNext]_status
=============================================================================
