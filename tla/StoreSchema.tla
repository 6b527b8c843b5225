---------------------------- MODULE StoreSchema ----------------------------
(***************************************************************************)
(* The database of ingest/core/metadata.py: how processes that open it     *)
(* create and migrate its schema.                                          *)
(*                                                                         *)
(* SQLite commits every CREATE and ALTER outside a transaction at once, a  *)
(* script statement by statement; an INSERT, UPDATE or DELETE begins a     *)
(* transaction that the next commit ends.  A step here ends where the code *)
(* commits, so a crash leaves what the steps before it have done.          *)
(***************************************************************************)
EXTENDS Naturals, FiniteSets

CONSTANTS
  Openers,   \* processes that open the database
  MaxKills   \* bound: crashes

ASSUME StoreSchemaAssumption == MaxKills \in Nat

VARIABLES
  tables,     \* tables of the file; "base" are those of the first script
              \* that no later migration adds
  version,    \* the row of schema_version, 0 when there is none
  rows,       \* quota tables whose only row is there
  opener,     \* opener[o]: where the process stands, the tables it listed
  cut,        \* a creation ended between its two version writes (history)
  crashes

schemaVars == <<tables, version, rows, opener, cut, crashes>>

SCHEMA_VERSION == 6

(* The table that a migration adds, by the version it leads to; version 4 adds
   quota_usage as well, version 5 is a column and a table, which the script of
   a new file already has. *)
Added == [k \in 3..6 |->
  CASE k = 3 -> "connector_state" [] k = 4 -> "quota_config"
    [] k = 5 -> "tags" [] k = 6 -> "schedules"]
UpTo(k) == {"schema_version"} \cup {Added[j] : j \in 3..k}
             \cup (IF k >= 2 THEN {"base"} ELSE {})
             \cup (IF k >= 4 THEN {"quota_usage"} ELSE {})
AllTables == UpTo(SCHEMA_VERSION)

Closed == [pc |-> "closed", to |-> 0, listed |-> {}]

SchemaTypeOK ==
  /\ tables \subseteq AllTables
  /\ version \in 0..SCHEMA_VERSION
  /\ rows \subseteq {"quota_config", "quota_usage"} \cap tables
  /\ opener \in [Openers -> [pc : {"closed", "read", "create", "base", "early",
                                   "list", "add", "usage", "record", "open",
                                   "failed"},
                             to : 0..SCHEMA_VERSION, listed : SUBSET AllTables]]
  /\ cut \in BOOLEAN
  /\ crashes \in 0..MaxKills

(* No file yet, or one that an earlier release has left complete. *)
SchemaInit ==
  /\ \/ tables = {} /\ version = 0
     \/ \E k \in 1..SCHEMA_VERSION : tables = UpTo(k) /\ version = k
  /\ rows = {"quota_config", "quota_usage"} \cap tables
  /\ opener = [o \in Openers |-> Closed]
  /\ cut = FALSE
  /\ crashes = 0

----------------------------------------------------------------------------
(* connect *)

Goes(o, pc) == opener' = [opener EXCEPT ![o].pc = pc]

Open(o) ==
  /\ opener[o].pc = "closed"
  /\ Goes(o, "read")
  /\ UNCHANGED <<tables, version, rows, cut, crashes>>

(* _migrate: version 6 is up to date, and 0 is a new file.  Version 1 goes the
   way of 0: _migrate_v1_to_v2 begins with _create_schema_v2. *)
ReadVersion(o) ==
  /\ opener[o].pc = "read"
  /\ opener' = [opener EXCEPT ![o] =
       CASE version = SCHEMA_VERSION -> [Closed EXCEPT !.pc = "open"]
         [] version \in {0, 1}       -> [Closed EXCEPT !.pc = "create"]
         [] OTHER -> [Closed EXCEPT !.pc = "list", !.to = version + 1]]
  /\ UNCHANGED <<tables, version, rows, cut, crashes>>

(* CREATE TABLE of a table that exists raises, and connect with it. *)
CreateTables(o, S, next) ==
  /\ IF S \cap tables # {}
     THEN /\ Goes(o, "failed")
          /\ UNCHANGED tables
     ELSE /\ tables' = tables \cup S
          /\ Goes(o, next)
  /\ UNCHANGED <<version, rows, cut, crashes>>

CreateSchema(o) ==
  /\ opener[o].pc = "create"
  /\ CreateTables(o, {"schema_version"}, "base")

CreateBase(o) ==
  /\ opener[o].pc = "base"
  /\ CreateTables(o, {"base", "tags"}, "early")

(* Variant: a new file is left to the first script. *)
RecordEarlyOpens(o) ==
  /\ opener[o].pc = "early"
  /\ version' = SCHEMA_VERSION
  /\ Goes(o, "open")
  /\ UNCHANGED <<tables, rows, cut, crashes>>

(* _create_schema_v2 ends by recording the newest version; the migrations that
   follow lower it and raise it again. *)
RecordEarly(o) ==
  /\ opener[o].pc = "early"
  /\ version' = SCHEMA_VERSION
  /\ opener' = [opener EXCEPT ![o].pc = "list", ![o].to = 3]
  /\ UNCHANGED <<tables, rows, cut, crashes>>

(* What there is to do after it. *)
AfterList(o) ==
  IF Added[opener[o].to] \notin tables THEN "add"
  ELSE IF opener[o].to = 4 /\ "quota_usage" \notin tables THEN "usage"
  ELSE "record"

(* Variant: the version is recorded before its tables are there. *)
ListTablesRecording(o) ==
  /\ opener[o].pc = "list"
  /\ version' = opener[o].to
  /\ opener' = [opener EXCEPT ![o].listed = tables, ![o].pc = AfterList(o)]
  /\ UNCHANGED <<tables, rows, cut, crashes>>

(* Each migration lists the tables, ... *)
ListTables(o) ==
  /\ opener[o].pc = "list"
  /\ opener' = [opener EXCEPT ![o].listed = tables, ![o].pc = AfterList(o)]
  /\ UNCHANGED <<tables, version, rows, cut, crashes>>

(* ... creates the ones it has not seen, ... *)
AddTable(o) ==
  /\ opener[o].pc = "add"
  /\ CreateTables(o, {Added[opener[o].to]}, "record")

(* (quota_usage alone, when a crash has left quota_config without it) *)
AddUsage(o) ==
  /\ opener[o].pc = "usage"
  /\ CreateTables(o, {"quota_usage"}, "record")

(* The rows of the quota tables are inserted in the transaction of the version,
   and quota_usage is created in it when quota_config was created just before. *)
RowsAdded(o) ==
  IF opener[o].to # 4 THEN {}
  ELSE {"quota_config", "quota_usage"} \ opener[o].listed
UsageIsNew(o) ==
  "quota_config" \in RowsAdded(o) /\ "quota_usage" \in RowsAdded(o)

Migrated(o) ==
  opener' = [opener EXCEPT ![o] =
    IF opener[o].to = SCHEMA_VERSION THEN [Closed EXCEPT !.pc = "open"]
    ELSE [Closed EXCEPT !.pc = "list", !.to = opener[o].to + 1]]

(* ... and records its version: DELETE, INSERT, commit. *)
RecordVersion(o) ==
  /\ opener[o].pc = "record"
  /\ IF UsageIsNew(o) /\ "quota_usage" \in tables
     THEN /\ Goes(o, "failed")
          /\ UNCHANGED <<tables, version, rows>>
     ELSE /\ tables' = tables \cup (IF UsageIsNew(o) THEN {"quota_usage"} ELSE {})
          /\ rows' = rows \cup RowsAdded(o)
          /\ version' = opener[o].to
          /\ Migrated(o)
  /\ UNCHANGED <<cut, crashes>>

(* A process that is killed, at any point. *)
Creating(o) ==
  \/ opener[o].pc \in {"list", "add", "record"} /\ opener[o].to = 3
  \/ opener[o].pc = "early"
Crash(o) ==
  /\ opener[o].pc \notin {"closed", "failed"}
  /\ crashes < MaxKills
  /\ crashes' = crashes + 1
  /\ opener' = [opener EXCEPT ![o] = Closed]
  /\ cut' = (cut \/ (Creating(o) /\ version = SCHEMA_VERSION))
  /\ UNCHANGED <<tables, version, rows>>

(* close; a process whose connect raised ends as well. *)
Close(o) ==
  /\ opener[o].pc \in {"open", "failed"}
  /\ opener' = [opener EXCEPT ![o] = Closed]
  /\ UNCHANGED <<tables, version, rows, cut, crashes>>

SchemaNext == \E o \in Openers :
  \/ Open(o) \/ ReadVersion(o)
  \/ CreateSchema(o) \/ CreateBase(o) \/ RecordEarly(o)
  \/ ListTables(o) \/ AddTable(o) \/ AddUsage(o) \/ RecordVersion(o)
  \/ Crash(o) \/ Close(o)

SchemaSpec == SchemaInit /\ [][SchemaNext]_schemaVars

----------------------------------------------------------------------------
(* _migrate: the recorded version never promises a table that is missing,
   whatever is killed and however many processes migrate at once, except that
   a new file has the newest version from the end of _create_schema_v2 to the
   first migration: it stays so for good if the process is killed there. *)
VersionTellsTables ==
  \/ version = 0
  \/ UpTo(version) \subseteq tables
  \/ version = SCHEMA_VERSION /\ (cut \/ \E o \in Openers : Creating(o))

(* connect: a process that raises has lost a race that another wins.  When
   everybody has stopped, and nobody was killed, the file is complete and of the
   newest version whoever created, raised or recorded an older version last;
   quota_config may be without its row (see RowsAdded).  A file of version 1 is
   never opened: its migration creates schema_version again. *)
Resting(o) == opener[o].pc \in {"closed", "open", "failed"}

RacesAreWon ==
  /\ crashes = 0 /\ version # 1
  /\ \A o \in Openers : Resting(o)
  /\ \E o \in Openers : opener[o].pc # "closed"
  => version = SCHEMA_VERSION /\ AllTables \subseteq tables /\ "quota_usage" \in rows
=============================================================================
