---------------------------- MODULE ConfigStore ----------------------------
(***************************************************************************)
(* The configuration table and its loaders (kb_server/config): a table of  *)
(* keys in SQLite with a version number, and one ConfigLoader per process, *)
(* which caches the whole table and reads it again when it finds another   *)
(* version.  A key without a row has the value of the environment.         *)
(*                                                                         *)
(* The health server writes through its API; the MCP server only reads.    *)
(* Both use kb_metadata.db; the loader of the web UI has a file of its     *)
(* own and shares nothing with them.                                       *)
(***************************************************************************)
EXTENDS Naturals

CONSTANTS
  Loaders,         \* processes with a loader of this table
  Writer,          \* the loader behind the API
  Keys,            \* configuration keys
  Seeded,          \* the keys that load_from_env copies from the environment
  Settings,        \* values
  Unset,           \* no value: no row, no variable
  MaxWrites,       \* bound: writes of the table
  MaxRestarts,     \* bound: restarts of processes, edits of .env
  MaxReadErrors    \* bound: refreshes that fail

ASSUME ConfigAssumption ==
  /\ Writer \in Loaders
  /\ Seeded \subseteq Keys
  /\ Unset \notin Settings
  /\ MaxWrites \in Nat /\ MaxRestarts \in Nat /\ MaxReadErrors \in Nat

VARIABLES
  table,        \* table[k]: value of the row, Unset without a row
  tableVersion, \* the row of config_version
  dotenv,       \* dotenv[k]: value in the .env file
  loader,       \* loader[l]: cache, its version, environment, TTL, refresh
  writes, restarts, readErrors

configVars == <<table, tableVersion, dotenv, loader, writes, restarts, readErrors>>

NoRows  == [k \in Keys |-> Unset]
MaxVersion == 1 + MaxWrites + MaxRestarts

(* A new process: the cache is empty at version 0, which no table has. *)
Fresh(environment) ==
  [cache |-> NoRows, version |-> 0, env |-> environment, due |-> TRUE, seen |-> 0]

ConfigTypeOK ==
  /\ table \in [Keys -> Settings \cup {Unset}]
  /\ dotenv \in [Keys -> Settings \cup {Unset}]
  /\ tableVersion \in 1..(MaxVersion + 1)
  /\ loader \in [Loaders ->
       [cache : [Keys -> Settings \cup {Unset}], env : [Keys -> Settings \cup {Unset}],
        version : 0..(MaxVersion + 1), due : BOOLEAN, seen : 0..(MaxVersion + 1)]]
  /\ writes \in 0..MaxWrites /\ restarts \in 0..MaxRestarts
  /\ readErrors \in 0..MaxReadErrors

ConfigInit ==
  /\ table = NoRows
  /\ tableVersion = 1
  /\ dotenv = NoRows
  /\ loader = [l \in Loaders |-> Fresh(NoRows)]
  /\ writes = 0 /\ restarts = 0 /\ readErrors = 0

----------------------------------------------------------------------------
(* Processes and their environment. *)

EditEnvironment(k, v) ==
  /\ restarts < MaxRestarts
  /\ dotenv[k] # v
  /\ dotenv' = [dotenv EXCEPT ![k] = v]
  /\ restarts' = restarts + 1
  /\ UNCHANGED <<table, tableVersion, loader, writes, readErrors>>

(* The constructor, load_from_env: keys without a row are copied, a row that
   an earlier start copied keeps its value; one transaction, new version. *)
StartProcess(l) ==
  /\ restarts < MaxRestarts
  /\ restarts' = restarts + 1
  /\ table' = [k \in Keys |->
       IF k \in Seeded /\ table[k] = Unset THEN dotenv[k] ELSE table[k]]
  /\ tableVersion' = tableVersion + 1
  /\ loader' = [loader EXCEPT ![l] = Fresh(dotenv)]
  /\ UNCHANGED <<dotenv, writes, readErrors>>

----------------------------------------------------------------------------
(* The API of the health server; every write is one transaction. *)

(* After its own write a loader reads the table at its next use. *)
Expired(l) == [loader EXCEPT ![l].version = 0, ![l].due = TRUE]

NotReading(l) == loader[l].seen = 0

WriteTable(rows) ==
  /\ writes < MaxWrites
  /\ writes' = writes + 1
  /\ table' = rows
  /\ tableVersion' = tableVersion + 1
  /\ NotReading(Writer)
  /\ loader' = Expired(Writer)
  /\ UNCHANGED <<dotenv, restarts, readErrors>>

SetKey(k, v) == WriteTable([table EXCEPT ![k] = v])

(* Variant: the row goes without a new version. *)
DeleteKeyQuietly(k) ==
  /\ table[k] # Unset
  /\ writes < MaxWrites
  /\ writes' = writes + 1
  /\ table' = [table EXCEPT ![k] = Unset]
  /\ NotReading(Writer)
  /\ loader' = Expired(Writer)
  /\ UNCHANGED <<tableVersion, dotenv, restarts, readErrors>>

(* 404, and no new version, when there is no such row. *)
DeleteKey(k) ==
  /\ table[k] # Unset
  /\ WriteTable([table EXCEPT ![k] = Unset])

ResetKeys == WriteTable(NoRows)

PutConfig(k, v) == SetKey(k, v)
DeleteConfig(k) == DeleteKey(k)
ResetConfig     == ResetKeys

----------------------------------------------------------------------------
(* _refresh_cache: get, get_item, get_all and the reload loop begin with it. *)

TtlEnds(l) ==
  /\ ~ loader[l].due
  /\ NotReading(l)
  /\ loader' = [loader EXCEPT ![l].due = TRUE]
  /\ UNCHANGED <<table, tableVersion, dotenv, writes, restarts, readErrors>>

(* The version and the rows are read by two statements, each in a transaction
   of its own: another process may write in between. *)
ReadTableVersion(l) ==
  /\ loader[l].due /\ NotReading(l)
  /\ loader' = [loader EXCEPT ![l].due = FALSE, ![l].seen =
       IF tableVersion = loader[l].version THEN 0 ELSE tableVersion]
  /\ UNCHANGED <<table, tableVersion, dotenv, writes, restarts, readErrors>>

ReadRows(l) ==
  /\ ~ NotReading(l)
  /\ loader' = [loader EXCEPT
       ![l].cache = table, ![l].version = loader[l].seen, ![l].seen = 0]
  /\ UNCHANGED <<table, tableVersion, dotenv, writes, restarts, readErrors>>

(* The stale cache stays for another TTL. *)
ReadFails(l) ==
  /\ ~ NotReading(l)
  /\ readErrors < MaxReadErrors
  /\ readErrors' = readErrors + 1
  /\ loader' = [loader EXCEPT ![l].seen = 0]
  /\ UNCHANGED <<table, tableVersion, dotenv, writes, restarts>>

(* get: the row's value, or the environment of the process. *)
Get(l, k) ==
  IF loader[l].cache[k] # Unset THEN loader[l].cache[k] ELSE loader[l].env[k]

Use(l) == TtlEnds(l) \/ ReadTableVersion(l) \/ ReadRows(l)

ConfigNext ==
  \/ \E k \in Keys, v \in Settings \cup {Unset} : EditEnvironment(k, v)
  \/ \E k \in Keys, v \in Settings : PutConfig(k, v)
  \/ \E k \in Keys : DeleteConfig(k)
  \/ ResetConfig
  \/ \E l \in Loaders :
       StartProcess(l) \/ TtlEnds(l) \/ ReadTableVersion(l) \/ ReadRows(l)
         \/ ReadFails(l)

(* Processes read configuration again and again, and time passes. *)
ConfigFairness == \A l \in Loaders : WF_configVars(Use(l))

ConfigSpec == ConfigInit /\ [][ConfigNext]_configVars /\ ConfigFairness

----------------------------------------------------------------------------
(* _refresh_cache: every process comes to serve what the table holds, after the
   last write, restart and failed refresh, although it looks at the version
   first and the rows later and skips the rows when the version is known. *)
ServesTable ==
  \A l \in Loaders, k \in Keys :
    Get(l, k) = IF table[k] # Unset THEN table[k] ELSE loader[l].env[k]

ChangesReachEveryProcess == <>[]ServesTable
=============================================================================
