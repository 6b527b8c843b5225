--------------------------- MODULE Reclassification ---------------------------
(***************************************************************************)
(* Reclassification of ingested documents (ingest/reclassify_engine.py,    *)
(* ingest/cli/reclassify.py): a command detects the documents whose        *)
(* payload differs from what classify() says today, saves the old values   *)
(* in table reclassify_backups, updates the payloads one document at a     *)
(* time, and logs the changes; a rollback writes saved values back.  The   *)
(* commands are processes: they interleave, crash, wait for a confirmation *)
(* between reading and writing, and share only the two databases.          *)
(*                                                                         *)
(* A value is the generation of the classification rules that produced it; *)
(* 0 is the empty value.  All chunks of a document change in one call of   *)
(* set_payload, so a document has one payload.                             *)
(***************************************************************************)
EXTENDS Naturals, FiniteSets

CONSTANTS
  Documents,   \* source files in the collections
  Collections, \* collections of the vector store
  Default,     \* QDRANT_COLLECTION, the one that a rollback writes to
  Fields,      \* classification fields that are compared
  Unread,      \* those among them whose current value detection does not read
  Operators,   \* processes that run the commands
  MaxRules,    \* bound: generations of the classification rules
  MaxTime,     \* bound: seconds in which sessions start
  MaxCrashes   \* bound: commands that stop half-way

ASSUME ReclassificationAssumption ==
  /\ Default \in Collections
  /\ Unread \subseteq Fields
  /\ MaxRules \in Nat \ {0} /\ MaxTime \in Nat \ {0} /\ MaxCrashes \in Nat

VARIABLES
  rules,    \* the generation of the rules of classify()
  payload,  \* payload[c][d][f]
  ingested, \* ingested[d]: generation of the rules, and number, of the last
            \* ingestion of d
  backups,  \* reclassify_backups: rows of session, doc, field and old value
  second,   \* the time in seconds: a session's name
  command,  \* command[o]: what operator o is doing
  overtaken,\* documents that a command has written with values read before
            \* their last ingestion, or in another collection (history)
  stopped   \* commands that stopped half-way

reclassVars ==
  <<rules, payload, ingested, backups, second, command, overtaken, stopped>>

Seconds == 1..MaxTime
Values  == 0..MaxRules

(* A change of one field; `ingestion' is the number of the ingestion whose
   values were read, 0 in another collection than the default one (history:
   the table of backups names no collection). *)
Changes == [doc : Documents, field : Fields, old : Values, new : Values,
            ingestion : Nat]
Rows    == [session : Seconds, doc : Documents, field : Fields, old : Values,
            ingestion : Nat]

Idle == [pc |-> "idle", collection |-> Default, changes |-> {}]

ReclassTypeOK ==
  /\ rules \in 1..MaxRules
  /\ payload \in [Collections -> [Documents -> [Fields -> Values]]]
  /\ \A d \in Documents : ingested[d] \in [rules : Values, number : Nat]
  /\ \A row \in backups : row \in Rows
  /\ second \in Seconds
  /\ \A o \in Operators :
       /\ command[o].pc \in {"idle", "detected", "updating", "logging",
                             "restoring", "restored"}
       /\ command[o].collection \in Collections
       /\ \A change \in command[o].changes : change \in Changes
  /\ overtaken \subseteq Documents
  /\ stopped \in 0..MaxCrashes

Classified == [f \in Fields |-> rules]

ReclassInit ==
  /\ rules = 1
  /\ payload = [c \in Collections |->
                  [d \in Documents |-> [f \in Fields |-> 1]]]
  /\ ingested = [d \in Documents |-> [rules |-> 1, number |-> 1]]
  /\ backups = {}
  /\ second = 1
  /\ command = [o \in Operators |-> Idle]
  /\ overtaken = {}
  /\ stopped = 0

----------------------------------------------------------------------------
(* Somebody edits the rules of the classifier; the clock ticks. *)
EditRules ==
  /\ rules < MaxRules
  /\ rules' = rules + 1
  /\ UNCHANGED <<payload, ingested, backups, second, command, overtaken, stopped>>

NextSecond ==
  /\ second < MaxTime
  /\ second' = second + 1
  /\ UNCHANGED <<rules, payload, ingested, backups, command, overtaken, stopped>>

(* Ingestion writes the document again, with the rules of the moment. *)
Ingest(d) ==
  /\ ingested[d].rules # rules
  /\ payload' = [payload EXCEPT ![Default][d] = Classified]
  /\ ingested' = [ingested EXCEPT ![d] = [rules |-> rules, number |-> @.number + 1]]
  /\ overtaken' = overtaken \ {d}
  /\ UNCHANGED <<rules, backups, second, command, stopped>>

----------------------------------------------------------------------------
(* detect_changed_classifications, for the documents S that the pattern and
   the filter select and that exist on disk; the current value of a field in
   Unread is not collected from the payload, and counts as empty. *)
Detected(c, S) ==
  LET current(d, f) == IF f \in Unread THEN 0 ELSE payload[c][d][f]
      differ == {p \in S \X Fields : current(p[1], p[2]) # rules} IN
  {[doc |-> p[1], field |-> p[2], old |-> current(p[1], p[2]), new |-> rules,
    ingestion |-> IF c = Default THEN ingested[p[1]].number ELSE 0] : p \in differ}

(* reclassify run: detection and preview. *)
StartRun(o, c, S) ==
  /\ command[o].pc = "idle"
  /\ Detected(c, S) # {}
  /\ command' = [command EXCEPT
       ![o] = [pc |-> "detected", collection |-> c, changes |-> Detected(c, S)]]
  /\ UNCHANGED <<rules, payload, ingested, backups, second, overtaken, stopped>>

(* Primary key of reclassify_backups: a session of the same second that has
   already saved one of the fields makes the INSERT, and the command, fail. *)
Conflict(session, changes) ==
  \E row \in backups, change \in changes :
    row.session = session /\ row.doc = change.doc /\ row.field = change.field

(* Variant: the payloads are rewritten without a backup. *)
BackupNotCommitted(o) ==
  /\ command[o].pc = "detected"
  /\ command' = [command EXCEPT ![o].pc = "updating"]
  /\ UNCHANGED <<rules, payload, ingested, backups, second, overtaken, stopped>>

(* The user has confirmed: backup_metadata, one transaction. *)
Backup(o) ==
  /\ command[o].pc = "detected"
  /\ \/ /\ Conflict(second, command[o].changes)
        /\ command' = [command EXCEPT ![o] = Idle]
        /\ UNCHANGED backups
     \/ /\ ~Conflict(second, command[o].changes)
        /\ backups' = backups \cup
             {[session |-> second, doc |-> change.doc, field |-> change.field,
               old |-> change.old, ingestion |-> change.ingestion] :
                change \in command[o].changes}
        /\ command' = [command EXCEPT ![o].pc = "updating"]
  /\ UNCHANGED <<rules, payload, ingested, second, overtaken, stopped>>

(* update_chunk_metadata for one document of the command. *)
WritesDocument(o, d) ==
  LET c == command[o].collection
      mine == {change \in command[o].changes : change.doc = d}
      written == [f \in Fields |->
        IF \E change \in mine : change.field = f
        THEN (CHOOSE change \in mine : change.field = f).new
        ELSE payload[c][d][f]] IN
  /\ mine # {}
  /\ payload' = [payload EXCEPT ![c][d] = written]
  /\ overtaken' = overtaken \cup
       {e \in {d} : /\ c = Default
                    /\ \E change \in mine : change.ingestion # ingested[e].number}
  /\ command' = [command EXCEPT ![o].changes = @ \ mine]

UpdateDocument(o) ==
  /\ command[o].pc = "updating"
  /\ \E d \in Documents : WritesDocument(o, d)
  /\ UNCHANGED <<rules, ingested, backups, second, stopped>>

(* log_changes.  The foreign key of reclassify_history names a column that is
   no key of reclassify_backups: with foreign_keys on, SQLite refuses every
   INSERT, so the command ends with an exception after the updates, and the
   clean-up of old sessions is not reached. *)
LogChanges(o) ==
  /\ command[o].pc = "updating"
  /\ command[o].changes = {}
  /\ command' = [command EXCEPT ![o] = Idle]
  /\ UNCHANGED <<rules, payload, ingested, backups, second, overtaken, stopped>>

----------------------------------------------------------------------------
(* Rollback. *)

(* The rows that by_file keeps: the last one of each field, in the order of
   the primary key. *)
Latest(rows) ==
  {row \in rows : \A other \in rows :
     other.doc = row.doc /\ other.field = row.field => other.session <= row.session}

Restores(o, rows) ==
  /\ command[o].pc = "idle"
  /\ rows # {}
  /\ command' = [command EXCEPT
       ![o] = [pc |-> "restoring", collection |-> Default,
               changes |-> {[doc |-> row.doc, field |-> row.field,
                             old |-> 0, new |-> row.old,
                             ingestion |-> row.ingestion] : row \in Latest(rows)}]]
  /\ UNCHANGED <<rules, payload, ingested, backups, second, overtaken, stopped>>

(* rollback --session *)
RollbackSession(o, session) ==
  Restores(o, {row \in backups : row.session = session})

(* rollback <pattern> --before: the sessions earlier than that time. *)
RollbackBefore(o, S, until) ==
  Restores(o, {row \in backups : row.session < until /\ row.doc \in S})

RestoreDocument(o) ==
  /\ command[o].pc = "restoring"
  /\ \E d \in Documents : WritesDocument(o, d)
  /\ UNCHANGED <<rules, ingested, backups, second, stopped>>

(* The rows for the audit history are refused as in log_changes. *)
LogRollback(o) ==
  /\ command[o].pc = "restoring"
  /\ command[o].changes = {}
  /\ command' = [command EXCEPT ![o] = Idle]
  /\ UNCHANGED <<rules, payload, ingested, backups, second, overtaken, stopped>>

(* The user declines, a write fails, or the process stops: the rest of the
   command is not done. *)
StopCommand(o) ==
  /\ command[o].pc # "idle"
  /\ stopped < MaxCrashes
  /\ stopped' = stopped + 1
  /\ command' = [command EXCEPT ![o] = Idle]
  /\ UNCHANGED <<rules, payload, ingested, backups, second, overtaken>>

ReclassNext ==
  \/ EditRules \/ NextSecond
  \/ \E d \in Documents : Ingest(d)
  \/ \E o \in Operators :
       \/ \E S \in SUBSET Documents :
            \/ \E c \in Collections : StartRun(o, c, S)
            \/ \E until \in Seconds : RollbackBefore(o, S, until)
       \/ \E session \in Seconds : RollbackSession(o, session)
       \/ Backup(o)
       \/ UpdateDocument(o)
       \/ LogChanges(o)
       \/ RestoreDocument(o)
       \/ LogRollback(o)
       \/ StopCommand(o)

ReclassSpec == ReclassInit /\ [][ReclassNext]_reclassVars

----------------------------------------------------------------------------
(* What ingestion wrote can be had back, whatever was run, stopped half-way
   and rolled back since: a field that detection reads has its ingested value,
   or a backup row holds that value -- unless a command wrote to the document
   what it, or the session it restores, had read before the last ingestion or
   in another collection. *)
IngestedValueIsSaved ==
  \A d \in Documents \ overtaken, f \in Fields \ Unread :
    \/ payload[Default][d][f] = ingested[d].rules
    \/ \E row \in backups : /\ row.doc = d /\ row.field = f
                            /\ row.old = ingested[d].rules

=============================================================================
