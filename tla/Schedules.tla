----------------------------- MODULE Schedules -----------------------------
(***************************************************************************)
(* Ingestion schedules: the table of cron expressions that the REST API    *)
(* edits (kb_server/schedules/router.py, ingest/core/metadata.py), the     *)
(* cron arithmetic (ingest/core/cron.py) and the loop that every MCP       *)
(* server, one per stdio client too, runs on the shared table              *)
(* (_schedule_scheduler_loop of kb_server/server.py).                      *)
(*                                                                         *)
(* The loop's body does not await, so one server is sequential; servers    *)
(* interleave between the query of the due rows, the creation of a job and *)
(* the update of the row, each its own transaction.  A time is a number of *)
(* minutes; a cron expression has two fields here, minute and hour.        *)
(***************************************************************************)
EXTENDS Naturals, Sequences, FiniteSets

CONSTANTS
  Schedules,    \* schedule ids, numbered in the order of created_at
  Nodes,        \* the servers that run the loop
  HourLength,   \* minutes in an hour
  HourCount,    \* hours explored: the clock stops at their end (a bound)
  Expressions,  \* cron expressions: pairs of patterns
  MaxFailures   \* bound: failed transactions and stopped servers

ASSUME SchedulesAssumption ==
  /\ Schedules \subseteq Nat /\ IsFiniteSet(Schedules)
  /\ IsFiniteSet(Nodes)
  /\ {HourLength, HourCount} \subseteq Nat \ {0}
  /\ MaxFailures \in Nat

VARIABLES
  minute,       \* the clock
  schedule,     \* schedule[s]: the row of table schedules
  iteration,    \* iteration[n]: where server n stands in its loop
  triggered,    \* triggered[s][t]: jobs created for s by iterations of minute
                \* t, not counted for irregular schedules
  irregular,    \* schedules whose expression croniter once rejected (history)
  failures      \* failed transactions and stopped servers so far

scheduleVars ==
  <<minute, schedule, iteration, triggered, irregular, failures>>

Never   == HourLength * HourCount    \* a time beyond the horizon
Unknown == Never + 1                 \* no time: next_run_at is NULL
Times   == 0..(Never - 1)

----------------------------------------------------------------------------
(* ingest/core/cron.py.  A pattern is one field of an expression, parsed. *)

Star         == [kind |-> "any"]
Every(n)    == [kind |-> "step", step |-> n]
Span(a, b)  == [kind |-> "range", from |-> a, to |-> b]
Exactly(v)  == [kind |-> "value", value |-> v]
OneOf(vs)   == [kind |-> "list", values |-> vs]

(* _cron_field_matches *)
FieldMatches(pattern, value) ==
  CASE pattern.kind = "any"   -> TRUE
    [] pattern.kind = "step"  -> pattern.step > 0 /\ value % pattern.step = 0
    [] pattern.kind = "range" -> value \in pattern.from..pattern.to
    [] pattern.kind = "list"  -> value \in pattern.values
    [] pattern.kind = "value" -> pattern.value = value

FieldValues(t) == <<t % HourLength, t \div HourLength>>

(* cron_matches *)
CronMatches(t, expression) ==
  \A i \in DOMAIN expression : FieldMatches(expression[i], FieldValues(t)[i])

(* validate_cron: single values are checked against 0-59, whatever the field;
   the bounds of a range are not checked at all. *)
CronValid(expression) ==
  \A i \in DOMAIN expression :
    LET p == expression[i] IN
    /\ p.kind = "step"  => p.step > 0
    /\ p.kind = "value" => p.value \in 0..59
    /\ p.kind = "list"  => p.values \subseteq 0..59

(* The library croniter rejects what lies outside the field. *)
CroniterAccepts(expression) ==
  \A i \in DOMAIN expression :
    LET p == expression[i]
        field == 0..((IF i = 1 THEN HourLength ELSE HourCount) - 1) IN
    /\ p.kind = "range" => {p.from, p.to} \subseteq field /\ p.from <= p.to
    /\ p.kind = "value" => p.value \in field
    /\ p.kind = "list"  => p.values \subseteq field

(* Variant: the minute at hand is a next one too. *)
NextCronTimeFromNow(t, expression) ==
  LET matching == {u \in Times : u >= t /\ CronMatches(u, expression)} IN
  IF ~CroniterAccepts(expression) THEN Unknown
  ELSE IF matching = {} THEN Never
  ELSE CHOOSE u \in matching : \A v \in matching : u <= v

(* next_cron_time: nothing when croniter rejects the expression. *)
NextCronTime(t, expression) ==
  LET later == {u \in Times : u > t /\ CronMatches(u, expression)} IN
  IF ~CroniterAccepts(expression) THEN Unknown
  ELSE IF later = {} THEN Never
  ELSE CHOOSE u \in later : \A v \in later : u <= v

----------------------------------------------------------------------------
NoExpression == <<>>

NoRow(state) == [state |-> state, expression |-> NoExpression, next |-> Unknown]

Idle == [pc |-> "asleep", now |-> 0, due |-> {}]

SchedulesTypeOK ==
  /\ minute \in Times
  /\ schedule \in [Schedules ->
                     [state : {"absent", "enabled", "disabled", "deleted"},
                      expression : Expressions \cup {NoExpression},
                      next : Times \cup {Never, Unknown}]]
  /\ \A n \in Nodes :
       /\ iteration[n].pc \in {"asleep", "scan", "update", "error"}
       /\ iteration[n].now \in Times
       /\ \A d \in iteration[n].due : d \in Schedules \X Expressions
  /\ triggered \in [Schedules -> [Times -> Nat]]
  /\ irregular \subseteq Schedules
  /\ failures \in 0..MaxFailures

SchedulesInit ==
  /\ minute = 0
  /\ schedule = [s \in Schedules |-> NoRow("absent")]
  /\ iteration = [n \in Nodes |-> Idle]
  /\ triggered = [s \in Schedules |-> [t \in Times |-> 0]]
  /\ irregular = {}
  /\ failures = 0

----------------------------------------------------------------------------
(* The REST API. *)

Edited(s, e) ==
  irregular' = IF CroniterAccepts(e) THEN irregular ELSE irregular \cup {s}

Exists(s) == schedule[s].state \in {"enabled", "disabled"}

(* MetadataStore.add_schedule: enabled, never run. *)
AddSchedule(s, e) ==
  /\ schedule[s].state = "absent"
  /\ \A r \in Schedules : r < s => schedule[r].state # "absent"
  /\ schedule' = [schedule EXCEPT
       ![s] = [state |-> "enabled", expression |-> e, next |-> Unknown]]
  /\ Edited(s, e)
  /\ UNCHANGED <<minute, iteration, triggered, failures>>

(* MetadataStore.update_schedule: the expression or the switch change, the
   time of the next run stays. *)
UpdateSchedule(s, e, state) ==
  /\ Exists(s)
  /\ schedule' = [schedule EXCEPT ![s].expression = e, ![s].state = state]
  /\ Edited(s, e)
  /\ UNCHANGED <<minute, iteration, triggered, failures>>

(* delete_schedule; the id is not used again. *)
DeleteSchedule(s) ==
  /\ Exists(s)
  /\ schedule' = [schedule EXCEPT ![s] = NoRow("deleted")]
  /\ UNCHANGED <<minute, iteration, triggered, irregular, failures>>

(* POST and PUT of the router validate the expression first. *)
PostSchedule(s, e)       == CronValid(e) /\ AddSchedule(s, e)
PutSchedule(s, e, state) == CronValid(e) /\ UpdateSchedule(s, e, state)

----------------------------------------------------------------------------
(* _schedule_scheduler_loop *)

(* get_enabled_schedules_due *)
Due == {s \in Schedules : /\ schedule[s].state = "enabled"
                          /\ schedule[s].next \in 0..minute \cup {Unknown}}

(* The sleep of 30 seconds ends: the time and the due rows are read. *)
Wake(n) ==
  /\ iteration[n].pc = "asleep"
  /\ Due # {}
  /\ iteration' = [iteration EXCEPT
       ![n] = [pc |-> "scan", now |-> minute,
               due |-> {<<s, schedule[s].expression>> : s \in Due}]]
  /\ UNCHANGED <<minute, schedule, triggered, irregular, failures>>

First(n) == CHOOSE d \in iteration[n].due :
              \A e \in iteration[n].due : d[1] <= e[1]

Sleeps(n) == iteration' = [iteration EXCEPT ![n] = Idle]

(* The row has been dealt with: the next one, or to sleep. *)
Advances(n) ==
  LET rest == iteration[n].due \ {First(n)} IN
  IF rest = {} THEN Sleeps(n)
  ELSE iteration' = [iteration EXCEPT ![n].pc = "scan", ![n].due = rest]

(* The next due row does not match the minute: continue. *)
Skip(n) ==
  /\ iteration[n].pc = "scan"
  /\ ~CronMatches(iteration[n].now, First(n)[2])
  /\ Advances(n)
  /\ UNCHANGED <<minute, schedule, triggered, irregular, failures>>

(* It matches: create_job commits, or raises. *)
Trigger(n) ==
  /\ iteration[n].pc = "scan"
  /\ CronMatches(iteration[n].now, First(n)[2])
  /\ \/ /\ triggered' = IF First(n)[1] \in irregular THEN triggered
                         ELSE [triggered EXCEPT
                                 ![First(n)[1]][iteration[n].now] = @ + 1]
        /\ iteration' = [iteration EXCEPT ![n].pc = "update"]
        /\ UNCHANGED failures
     \/ /\ failures < MaxFailures
        /\ failures' = failures + 1
        /\ iteration' = [iteration EXCEPT ![n].pc = "error"]
        /\ UNCHANGED triggered
  /\ UNCHANGED <<minute, schedule, irregular>>

(* update_schedule_run: without a next time the column keeps its value; a
   schedule deleted meanwhile stays deleted. *)
RunRecorded(n) ==
  LET s == First(n)[1]
      next == NextCronTime(iteration[n].now, First(n)[2]) IN
  schedule' = IF next # Unknown /\ Exists(s)
              THEN [schedule EXCEPT ![s].next = next]
              ELSE schedule

(* The same in the loop, after a job ("triggered") or after an exception
   ("error").  A failure after a job is handled as if there were none; a
   second failure ends the iteration, and with it the rows still due. *)
RecordRun(n) ==
  /\ iteration[n].pc \in {"update", "error"}
  /\ \/ /\ RunRecorded(n)
        /\ Advances(n)
        /\ UNCHANGED failures
     \/ /\ failures < MaxFailures
        /\ failures' = failures + 1
        /\ IF iteration[n].pc = "update"
           THEN iteration' = [iteration EXCEPT ![n].pc = "error"]
           ELSE Sleeps(n)
        /\ UNCHANGED schedule
  /\ UNCHANGED <<minute, triggered, irregular>>

(* A server is stopped, and started again. *)
StopNode(n) ==
  /\ failures < MaxFailures
  /\ iteration[n].pc # "asleep"
  /\ failures' = failures + 1
  /\ Sleeps(n)
  /\ UNCHANGED <<minute, schedule, triggered, irregular>>

Tick ==
  /\ minute + 1 \in Times
  /\ minute' = minute + 1
  /\ UNCHANGED <<schedule, iteration, triggered, irregular, failures>>

SchedulesNext ==
  \/ \E s \in Schedules, e \in Expressions :
       \/ PostSchedule(s, e)
       \/ \E state \in {"enabled", "disabled"} : PutSchedule(s, e, state)
  \/ \E s \in Schedules : DeleteSchedule(s)
  \/ \E n \in Nodes :
       \/ Wake(n)
       \/ Skip(n)
       \/ Trigger(n)
       \/ RecordRun(n)
       \/ StopNode(n)
  \/ Tick

SchedulesSpec == SchedulesInit /\ [][SchedulesNext]_scheduleVars

----------------------------------------------------------------------------
(* How often one matching minute triggers a schedule.  Each of the N servers
   may find it due before another has recorded the run.  A server still busy
   with an earlier minute can put the next run back to this minute, once each:
   the i servers that are no longer busy then may all find it due again, for
   i = 1 to N.  And a server stopped, or whose update fails, between the job
   and the record triggers again.  Expressions croniter rejects have no next
   run, and are triggered at every iteration. *)
TriggersPerMinuteBounded ==
  \A s \in Schedules \ irregular : \A t \in Times :
    2 * triggered[s][t] <= Cardinality(Nodes) * (Cardinality(Nodes) + 1) + 2 * failures
=============================================================================
