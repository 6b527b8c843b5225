------------------------------- MODULE Watcher -------------------------------
(***************************************************************************)
(* The standalone file watcher (ingest/watcher/file_watcher.py), for one   *)
(* path; the Debouncer keeps the paths apart.  Three kinds of threads work *)
(* on its two dictionaries without a lock: the observer, which calls       *)
(* schedule for every event, one Timer per call, and the main thread,      *)
(* which stops the watcher.                                                *)
(*                                                                         *)
(* A job of the watcher would ingest the whole directory by force, so one  *)
(* attempt after an event covers that event.  The service asks for jobs on *)
(* a store that it never connects: every attempt of it is refused.         *)
(***************************************************************************)
EXTENDS Naturals

CONSTANT MaxEvents  \* bound: events of the path that are not ignored

ASSUME WatcherAssumption == MaxEvents \in Nat \ {0}

VARIABLES
  observer,   \* where the observer thread stands
  timer,      \* timer[k]: the Timer that the k-th schedule started
  pending,    \* pending[path]: the number of a timer, 0 when there is none
  waiting,    \* events[path]: numbers of the events that no timer has taken
  recorded,   \* events appended to events[path] so far
  jobs,       \* jobs created so far
  attempted,  \* events that had arrived at the last attempt to create a job
  refused,    \* calls of create_job that raised
  stopping    \* stop() was called

watcherVars == <<observer, timer, pending, waiting, recorded, jobs, attempted,
                 refused, stopping>>

Timers == 1..MaxEvents

WatcherTypeOK ==
  /\ observer \in {"idle", "cancel", "append", "start", "store", "delete", "dead"}
  /\ timer \in [Timers -> {"none", "waiting", "entered", "popped", "calling",
                           "done", "cancelled"}]
  /\ pending \in Timers \cup {0}
  /\ waiting \subseteq Timers
  /\ {recorded, attempted, jobs, refused} \subseteq 0..MaxEvents
  /\ stopping \in BOOLEAN

WatcherInit ==
  /\ observer = "idle"
  /\ timer = [k \in Timers |-> "none"]
  /\ pending = 0
  /\ waiting = {}
  /\ recorded = 0 /\ jobs = 0 /\ attempted = 0 /\ refused = 0
  /\ stopping = FALSE

----------------------------------------------------------------------------
(* The observer thread. *)

Observes(from, to) == observer = from /\ observer' = to

(* on_created, on_modified: should_ignore let the event through, and schedule
   tests whether the path has a timer. *)
EventArrives ==
  /\ recorded < MaxEvents
  /\ Observes("idle", IF pending = 0 THEN "append" ELSE "cancel")
  /\ UNCHANGED <<timer, pending, waiting, recorded, jobs, attempted, refused,
                 stopping>>

(* on_deleted: the vectors and the row of the file go; the debouncer, with the
   timer that earlier events started, is left alone. *)
HandleDeletion ==
  /\ Observes("idle", "delete") \/ Observes("delete", "idle")
  /\ UNCHANGED <<timer, pending, waiting, recorded, jobs, attempted, refused,
                 stopping>>

(* Cancelling a Timer that waits; once it has entered its function, nothing
   stops it. *)
Cancelled(k) ==
  IF timer[k] = "waiting" THEN [timer EXCEPT ![k] = "cancelled"] ELSE timer

(* self.pending[path].cancel(): a KeyError when _execute removed the entry
   since the test, and the observer thread is gone. *)
CancelPending ==
  /\ \/ pending = 0 /\ Observes("cancel", "dead") /\ UNCHANGED timer
     \/ /\ pending # 0
        /\ Observes("cancel", "append")
        /\ timer' = Cancelled(pending)
  /\ UNCHANGED <<pending, waiting, recorded, jobs, attempted, refused, stopping>>

AppendEvent ==
  /\ Observes("append", "start")
  /\ recorded' = recorded + 1
  /\ waiting' = waiting \cup {recorded + 1}
  /\ UNCHANGED <<timer, pending, jobs, attempted, refused, stopping>>

StartTimer ==
  /\ Observes("start", "store")
  /\ timer' = [timer EXCEPT ![recorded] = "waiting"]
  /\ UNCHANGED <<pending, waiting, recorded, jobs, attempted, refused, stopping>>

(* Variant: the new timer is cancelled instead of the old one. *)
StoreTimerAndCancel ==
  /\ Observes("store", "idle")
  /\ pending' = recorded
  /\ timer' = Cancelled(recorded)
  /\ UNCHANGED <<waiting, recorded, jobs, attempted, refused, stopping>>

StoreTimer ==
  /\ Observes("store", "idle")
  /\ pending' = recorded
  /\ UNCHANGED <<timer, waiting, recorded, jobs, attempted, refused, stopping>>

Schedule == CancelPending \/ AppendEvent \/ StartTimer \/ StoreTimer

----------------------------------------------------------------------------
(* A timer's thread: _execute, then _trigger_ingestion. *)

Advance(k, from, to) == timer[k] = from /\ timer' = [timer EXCEPT ![k] = to]

(* The debounce window is over. *)
Enter(k) ==
  /\ Advance(k, "waiting", "entered")
  /\ UNCHANGED <<observer, pending, waiting, recorded, jobs, attempted, refused,
                 stopping>>

PopEvents(k) ==
  /\ Advance(k, "entered", "popped")
  /\ waiting' = {}
  /\ UNCHANGED <<observer, pending, recorded, jobs, attempted, refused, stopping>>

(* pending.pop(path): whichever timer is there, its own or a newer one. *)
PopPending(k) ==
  /\ Advance(k, "popped", "calling")
  /\ pending' = 0
  /\ UNCHANGED <<observer, waiting, recorded, jobs, attempted, refused, stopping>>

(* main builds its MetadataStore and hands it to the JobManager, and nothing
   calls connect: store.conn raises. *)
Connected == FALSE

(* Events that the observer has begun to handle; the one whose schedule()
   raised was not recorded. *)
Arrived ==
  IF observer \in {"cancel", "append", "dead"} THEN recorded + 1 ELSE recorded

(* create_job; an exception is logged and nothing is tried again. *)
AsksForJob ==
  /\ attempted' = Arrived
  /\ jobs' = IF Connected THEN jobs + 1 ELSE jobs
  /\ refused' = IF Connected THEN refused ELSE refused + 1
  /\ UNCHANGED <<observer, pending, waiting, recorded, stopping>>

(* Variant: the timer goes on asking for jobs after it has asked for one. *)
TriggerIngestionAgain(k) == timer[k] = "calling" /\ AsksForJob /\ UNCHANGED timer

TriggerIngestion(k) == Advance(k, "calling", "done") /\ AsksForJob

Executes(k) ==
  Enter(k) \/ PopEvents(k) \/ PopPending(k) \/ TriggerIngestion(k)

(* stop(): cancel_all; a timer that has left pending is not reached. *)
StopWatcher ==
  /\ ~stopping
  /\ stopping' = TRUE
  /\ timer' = IF pending = 0 THEN timer ELSE Cancelled(pending)
  /\ pending' = 0
  /\ waiting' = {}
  /\ UNCHANGED <<observer, recorded, jobs, attempted, refused>>

WatcherNext ==
  \/ EventArrives \/ HandleDeletion \/ Schedule
  \/ \E k \in Timers : Executes(k)
  \/ StopWatcher

(* The threads run; nothing makes a file change, nor anybody stop the
   watcher. *)
WatcherFairness ==
  /\ WF_watcherVars(Schedule)
  /\ \A k \in Timers : WF_watcherVars(Executes(k))

WatcherSpec == WatcherInit /\ [][WatcherNext]_watcherVars /\ WatcherFairness

----------------------------------------------------------------------------
(* No event is forgotten: cancelling, popping and replacing timers in any
   order, schedule and _execute leave a timer that will ask for a job after the
   event, unless the watcher is stopped first.  That includes the event whose
   schedule() raises for want of the entry: the timer that took the entry has
   yet to ask.  Events after that one reach nobody, as the observer is gone. *)
EveryEventIsFollowedByAnAttempt ==
  \A k \in Timers : Arrived >= k ~> attempted >= k \/ stopping

(* What docs/AUTO_INGESTION.md:9 says of the service: it "automatically
   triggers ingestion jobs when files are created or modified". *)
ChangedFilesBecomeJobs == recorded >= 1 ~> jobs >= 1 \/ stopping
=============================================================================
