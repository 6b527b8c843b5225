----------------------------- MODULE FilterTerms -----------------------------
(***************************************************************************)
(* The filter terms that the MCP server advertises                         *)
(* (kb_server/filter_terms_cache.py): a table of the distinct values of    *)
(* each payload field, scanned again when the marker file, which ingestion *)
(* and reclassification runs write at their end, has a newer time.         *)
(*                                                                         *)
(* The payloads of the collection are a generation number, one more after  *)
(* each run; a field of the table is the generation its scan has seen, 0   *)
(* when the table has no values for it.  The coroutines of the server      *)
(* interleave where reindex awaits: for its lock, and once per field.      *)
(***************************************************************************)
EXTENDS Naturals

CONSTANTS
  Readers,       \* requests: list_tools and list_filter_options
  Startup,       \* the reindex of the server's start, before any request
  Fields,        \* ADVERTISED_FIELDS
  MaxRuns,       \* bound: runs that change payloads
  MaxScanErrors  \* bound: scans of a field that fail

ASSUME FilterTermsAssumption ==
  /\ Startup \notin Readers
  /\ MaxRuns \in Nat /\ MaxScanErrors \in Nat

VARIABLES
  generation,  \* generation of the payloads in the collection
  run,         \* the run: "none", or "marking" after its writes
  marker,      \* time of the marker file: how often it was written
  terms,       \* the table
  recordedAt,    \* last_scan_mtime
  scanner,     \* scanner.by holds the lock and has scanner.left to scan
  reader,      \* reader[r]: state of the request and what it has read
  promised,    \* generation of the last marker written outside scans (history)
  scanErrors   \* scans of a field that failed

termsVars == <<generation, run, marker, terms, recordedAt, scanner, reader,
               promised, scanErrors>>

NoOne      == [by |-> Startup, left |-> {}]
EmptyTable == [f \in Fields |-> 0]
Unused     == [pc |-> "idle", due |-> 0, table |-> EmptyTable]
Scanning   == scanner.left # {}

TermsTypeOK ==
  /\ {generation, marker, promised, recordedAt} \subseteq 0..(MaxRuns + 1)
  /\ run \in {"none", "marking"}
  /\ terms \in [Fields -> 0..(MaxRuns + 1)]
  /\ scanner \in [by : Readers \cup {Startup}, left : SUBSET Fields]
  /\ reader \in [Readers -> [pc : {"idle", "lock", "scanning", "done"},
                             due : 0..(MaxRuns + 1),
                             table : [Fields -> 0..(MaxRuns + 1)]]]
  /\ scanErrors \in 0..MaxScanErrors

(* An empty collection's first run has ended; the server starts. *)
TermsInit ==
  /\ generation = 1 /\ run = "none" /\ marker = 1
  /\ terms = EmptyTable /\ recordedAt = 0
  /\ scanner = [by |-> Startup, left |-> Fields]
  /\ reader = [r \in Readers |-> Unused]
  /\ promised = 1
  /\ scanErrors = 0

----------------------------------------------------------------------------
(* A run of ingestion or reclassification, a process of its own. *)

RunWrites ==
  /\ run = "none"
  /\ generation <= MaxRuns
  /\ generation' = generation + 1
  /\ run' = "marking"
  /\ UNCHANGED <<marker, terms, recordedAt, scanner, reader, promised, scanErrors>>

(* write_filter_cache_bust; a run that raised before it, or whose write of the
   marker failed, leaves none. *)
RunEnds ==
  /\ run = "marking"
  /\ run' = "none"
  /\ \/ /\ marker' = marker + 1
        /\ promised' = IF Scanning THEN promised ELSE generation
     \/ UNCHANGED <<marker, promised>>
  /\ UNCHANGED <<generation, terms, recordedAt, scanner, reader, scanErrors>>

----------------------------------------------------------------------------
(* The server. *)

NeedsRefresh == marker > recordedAt

(* Variant: the marker is taken for seen when the scan begins, and the
   table of before stays. *)
BeginScanKeepingTable(r) ==
  /\ scanner' = [by |-> r, left |-> Fields]
  /\ recordedAt' = marker
  /\ UNCHANGED terms

(* reindex has the lock. *)
BeginScan(r) ==
  /\ scanner' = [by |-> r, left |-> Fields]
  /\ terms' = EmptyTable
  /\ UNCHANGED recordedAt

(* refresh_if_needed: without a newer marker the request reads the table as it
   is, also while another one is filling it. *)
Refresh(r) ==
  /\ reader[r].pc = "idle"
  /\ scanner.by # Startup \/ ~Scanning
  /\ \/ /\ ~NeedsRefresh
        /\ reader' = [reader EXCEPT
             ![r] = [pc |-> "done", due |-> promised, table |-> terms]]
     \/ /\ NeedsRefresh
        /\ reader' = [reader EXCEPT ![r].pc = "lock", ![r].due = promised]
  /\ UNCHANGED <<generation, run, marker, terms, recordedAt, scanner, promised,
                 scanErrors>>

TakeLock(r) ==
  /\ reader[r].pc = "lock"
  /\ ~Scanning
  /\ BeginScan(r)
  /\ reader' = [reader EXCEPT ![r].pc = "scanning"]
  /\ UNCHANGED <<generation, run, marker, promised, scanErrors>>

(* get_distinct_values of the next field, [] after an error.  After the last
   field the marker's time is recorded, and the request goes on to read the
   table without another await. *)
ScanField ==
  /\ Scanning
  /\ \E f \in scanner.left :
       /\ \/ terms' = [terms EXCEPT ![f] = generation] /\ UNCHANGED scanErrors
          \/ /\ scanErrors < MaxScanErrors
             /\ scanErrors' = scanErrors + 1
             /\ UNCHANGED terms
       /\ scanner' = [scanner EXCEPT !.left = @ \ {f}]
       /\ IF scanner.left # {f} THEN UNCHANGED <<recordedAt, reader>>
          ELSE /\ recordedAt' = marker
               /\ reader' = IF scanner.by = Startup THEN reader
                            ELSE [reader EXCEPT ![scanner.by].pc = "done",
                                                ![scanner.by].table = terms']
  /\ UNCHANGED <<generation, run, marker, promised>>

(* The answer is sent; the next request. *)
Answer(r) ==
  /\ reader[r].pc = "done"
  /\ reader' = [reader EXCEPT ![r] = Unused]
  /\ UNCHANGED <<generation, run, marker, terms, recordedAt, scanner, promised,
                 scanErrors>>

TermsNext ==
  \/ RunWrites \/ RunEnds
  \/ \E r \in Readers : Refresh(r) \/ TakeLock(r) \/ Answer(r)
  \/ ScanField

TermsSpec == TermsInit /\ [][TermsNext]_termsVars

----------------------------------------------------------------------------
(* What a request finds in the table is never older than the last run whose
   marker was written, before the request, outside of a scan.  (A marker
   written during a scan is recorded with it and brings no new one; a field
   whose scan failed, or has not been reached, has no values.) *)
TermsNotStale ==
  \A r \in Readers : reader[r].pc = "done" =>
    \A f \in Fields : \/ reader[r].table[f] = 0
                      \/ reader[r].table[f] >= reader[r].due
=============================================================================
