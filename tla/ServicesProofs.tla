---------------------------- MODULE ServicesProofs ----------------------------
(***************************************************************************)
(* Proofs about the components that MCServices composes: FilterTerms,      *)
(* ConfigStore, Watcher, Waiting, Schedules and Retrieval, each for any    *)
(* number of servers, readers, processes, tasks, schedules, failures,      *)
(* chunks and collections.                                                 *)
(*                                                                         *)
(* Each part gives the inductive invariant of its component, the lemmas on *)
(* what the component's steps keep of it, and last its theorems.           *)
(***************************************************************************)
EXTENDS MCServices, FiniteSetTheorems, SequenceTheorems, WellFoundedInduction, TLAPS

(***************************************************************************)
(* The filter terms.  Once the time of a marker is recorded, and while a   *)
(* scan fills the table, each field of the table is empty or as new as the *)
(* last promise; a promise never is newer than the payloads; and a request *)
(* was promised no more than its server has been.                          *)
(***************************************************************************)
Generations == 0..(MaxRuns + 1)
ReaderStates ==
  [pc : {"idle", "lock", "scanning", "done"}, due : Generations,
   table : [Fields -> Generations]]

Fresher(values, least) == \A f \in Fields : values[f] = 0 \/ values[f] >= least

(* One marker for a run at most, and none before the run has written. *)
MarkersFollowRuns ==
  /\ generation \in 1..(MaxRuns + 1)
  /\ marker \in Nat /\ recordedAt \in Nat /\ recordedAt <= marker
  /\ marker <= generation /\ (run = "marking" => marker < generation)
  /\ promised \in Nat /\ promised <= generation

TableKeepsPromise == marker = recordedAt \/ Scanning => Fresher(terms, promised)

ReaderKeepsPromise(r) ==
  /\ reader[r].due <= promised
  /\ reader[r].pc = "done" => Fresher(reader[r].table, reader[r].due)

TermsInv ==
  /\ TermsTypeOK
  /\ MarkersFollowRuns
  /\ TableKeepsPromise
  /\ \A r \in Readers : ReaderKeepsPromise(r)

(* The invariant holds at first.                                           *)
LEMMA TermsInitInv == TermsInit => TermsInv
<1> SUFFICES ASSUME TermsInit PROVE TermsInv
  OBVIOUS
<1>1. MaxRuns \in Nat /\ MaxScanErrors \in Nat
  BY FilterTermsAssumption
<1>2. EmptyTable \in [Fields -> Generations] /\ Fresher(EmptyTable, 1)
  BY <1>1 DEF EmptyTable, Generations, Fresher
<1>3. Unused \in ReaderStates /\ Unused.due = 0 /\ Unused.pc = "idle"
  BY <1>1, <1>2 DEF Unused, ReaderStates, Generations
<1>4. TermsTypeOK
  <2>1. scanner \in [by : Readers \cup {Startup}, left : SUBSET Fields]
    BY DEF TermsInit
  <2>2. reader \in [Readers -> ReaderStates]
    BY <1>3 DEF TermsInit
  <2> QED
    BY <1>1, <1>2, <2>1, <2>2 DEF TermsInit, TermsTypeOK, ReaderStates, Generations
<1>5. MarkersFollowRuns
  BY <1>1 DEF TermsInit, MarkersFollowRuns
<1>6. TableKeepsPromise
  BY <1>2 DEF TermsInit, TableKeepsPromise
<1>7. \A r \in Readers : ReaderKeepsPromise(r)
  BY <1>3 DEF TermsInit, ReaderKeepsPromise
<1> QED
  BY <1>4, <1>5, <1>6, <1>7 DEF TermsInv

(* A run writes, and leaves a marker or none. *)
LEMMA RunKeepsTerms == TermsInv /\ (RunWrites \/ RunEnds) => TermsInv'
<1> SUFFICES ASSUME TermsInv, RunWrites \/ RunEnds PROVE TermsInv'
  OBVIOUS
<1>1. MaxRuns \in Nat
  BY FilterTermsAssumption
<1>2. UNCHANGED <<terms, recordedAt, scanner, reader, scanErrors>>
  BY DEF RunWrites, RunEnds
<1>3. MarkersFollowRuns'
  <2>1. CASE RunWrites
    BY <1>1, <2>1 DEF RunWrites, TermsInv, MarkersFollowRuns
  <2>2. CASE RunEnds
    BY <1>1, <2>2 DEF RunEnds, TermsInv, MarkersFollowRuns
  <2> QED
    BY <2>1, <2>2
<1>4. TermsTypeOK'
  <2>1. {generation', marker', promised', recordedAt'} \subseteq Generations
    BY <1>1, <1>3 DEF MarkersFollowRuns, Generations
  <2>2. run' \in {"none", "marking"}
    BY DEF RunWrites, RunEnds
  <2> QED
    BY <1>2, <2>1, <2>2 DEF TermsInv, TermsTypeOK, Generations
<1>5. promised' >= promised /\ (Scanning => promised' = promised)
      /\ (marker' = recordedAt => marker' = marker /\ promised' = promised)
  BY DEF RunWrites, RunEnds, TermsInv, MarkersFollowRuns
<1>6. TableKeepsPromise'
  BY <1>2, <1>5 DEF TermsInv, TableKeepsPromise, Scanning
<1>7. ASSUME NEW r \in Readers PROVE ReaderKeepsPromise(r)'
  <2>1. reader[r].due \in Nat /\ promised \in Nat /\ promised' \in Nat
    BY <1>1, <1>3 DEF TermsInv, TermsTypeOK, MarkersFollowRuns
  <2> QED
    BY <1>2, <1>5, <2>1 DEF TermsInv, ReaderKeepsPromise
<1> QED
  BY <1>3, <1>4, <1>6, <1>7 DEF TermsInv

(* A request that only moves, or reads a table that keeps its promise. *)
LEMMA ReaderMoves ==
  ASSUME TermsInv, NEW r \in Readers, NEW new \in ReaderStates,
         reader' = [reader EXCEPT ![r] = new],
         new.due <= promised, new.pc = "done" => Fresher(new.table, new.due),
         UNCHANGED <<generation, run, marker, promised, scanErrors>>,
         scanner' \in [by : Readers \cup {Startup}, left : SUBSET Fields],
         terms' \in [Fields -> Generations], recordedAt' \in {recordedAt, marker},
         TableKeepsPromise'
  PROVE  TermsInv'
<1>1. MaxRuns \in Nat
  BY FilterTermsAssumption
<1>2. reader \in [Readers -> ReaderStates]
  BY DEF TermsInv, TermsTypeOK, ReaderStates, Generations
<1>3. reader' \in [Readers -> ReaderStates]
  BY <1>2
<1>4. MarkersFollowRuns'
  BY DEF TermsInv, MarkersFollowRuns
<1>5. TermsTypeOK'
  <2>1. {generation', marker', promised', recordedAt'} \subseteq Generations
    BY <1>1, <1>4 DEF MarkersFollowRuns, Generations
  <2> QED
    BY <1>3, <2>1 DEF TermsInv, TermsTypeOK, ReaderStates, Generations
<1>6. ASSUME NEW q \in Readers PROVE ReaderKeepsPromise(q)'
  <2>1. CASE q = r
    BY <1>2, <2>1 DEF ReaderKeepsPromise
  <2>2. CASE q # r
    <3>1. reader'[q] = reader[q] /\ ReaderKeepsPromise(q)
      BY <1>2, <2>2 DEF TermsInv
    <3> QED
      BY <3>1 DEF ReaderKeepsPromise
  <2> QED
    BY <2>1, <2>2
<1> QED
  BY <1>4, <1>5, <1>6 DEF TermsInv

(* A request looks at the marker, waits for the lock, and reads the table. *)
LEMMA RequestKeepsTerms ==
  ASSUME TermsInv, NEW r \in Readers, Refresh(r) \/ TakeLock(r) \/ Answer(r)
  PROVE  TermsInv'
<1>1. MaxRuns \in Nat
  BY FilterTermsAssumption
<1>2. /\ reader \in [Readers -> ReaderStates] /\ terms \in [Fields -> Generations]
      /\ scanner \in [by : Readers \cup {Startup}, left : SUBSET Fields]
  BY DEF TermsInv, TermsTypeOK, ReaderStates, Generations
<1>3. promised \in Generations /\ 0 \in Generations /\ promised >= 0
      /\ marker \in Nat /\ recordedAt \in Nat /\ recordedAt <= marker
  BY <1>1 DEF TermsInv, MarkersFollowRuns, Generations
<1>4. EmptyTable \in [Fields -> Generations] /\ Fresher(EmptyTable, promised)
  BY <1>3 DEF EmptyTable, Fresher
<1>5. reader[r] \in ReaderStates /\ ReaderKeepsPromise(r)
  BY <1>2 DEF TermsInv
<1>6. CASE Refresh(r) /\ ~NeedsRefresh
  <2>1. PICK new : new = [pc |-> "done", due |-> promised, table |-> terms]
    OBVIOUS
  <2>2. new \in ReaderStates /\ new.due <= promised /\ new.table = terms /\ new.due = promised
    BY <1>2, <1>3, <2>1 DEF ReaderStates, Generations
  <2>3. marker = recordedAt
    BY <1>3, <1>6 DEF NeedsRefresh
  <2>4. reader' = [reader EXCEPT ![r] = new]
        /\ UNCHANGED <<generation, run, marker, promised, scanErrors, scanner, terms, recordedAt>>
    BY <1>6, <2>1 DEF Refresh
  <2>5. Fresher(terms, promised) /\ TableKeepsPromise'
    BY <2>3, <2>4 DEF TermsInv, TableKeepsPromise, Scanning
  <2> QED
    BY <1>2, <2>2, <2>4, <2>5, ReaderMoves
<1>7. CASE Refresh(r) /\ NeedsRefresh
  <2>1. PICK new : new = [[reader[r] EXCEPT !.pc = "lock"] EXCEPT !.due = promised]
    OBVIOUS
  <2>2. new \in ReaderStates /\ new.due = promised /\ new.pc = "lock"
    BY <1>3, <1>5, <2>1 DEF ReaderStates
  <2>3. reader' = [reader EXCEPT ![r].pc = "lock", ![r].due = promised]
        /\ UNCHANGED <<generation, run, marker, promised, scanErrors, scanner, terms, recordedAt>>
    BY <1>7 DEF Refresh
  <2>4. reader' = [reader EXCEPT ![r] = new]
    BY <1>2, <2>1, <2>3
  <2>5. TableKeepsPromise' /\ new.due <= promised
    BY <1>3, <2>2, <2>3 DEF TermsInv, TableKeepsPromise, Scanning, Generations
  <2> QED
    BY <1>2, <2>2, <2>3, <2>4, <2>5, ReaderMoves
<1>8. CASE TakeLock(r)
  <2>1. PICK new : new = [reader[r] EXCEPT !.pc = "scanning"]
    OBVIOUS
  <2>2. new \in ReaderStates /\ new.due = reader[r].due /\ new.pc = "scanning"
    BY <1>5, <2>1 DEF ReaderStates
  <2>3. /\ reader' = [reader EXCEPT ![r].pc = "scanning"]
        /\ UNCHANGED <<generation, run, marker, promised, scanErrors, recordedAt>>
        /\ terms' = EmptyTable /\ scanner' = [by |-> r, left |-> Fields]
    BY <1>8 DEF TakeLock, BeginScan
  <2>4. reader' = [reader EXCEPT ![r] = new]
    BY <1>2, <2>1, <2>3
  <2>5. TableKeepsPromise' /\ new.due <= promised
    BY <1>4, <1>5, <2>2, <2>3 DEF TableKeepsPromise, ReaderKeepsPromise
  <2>6. scanner' \in [by : Readers \cup {Startup}, left : SUBSET Fields]
    BY <2>3
  <2> QED
    BY <1>2, <1>4, <2>2, <2>3, <2>4, <2>5, <2>6, ReaderMoves
<1>9. CASE Answer(r)
  <2>1. Unused \in ReaderStates /\ Unused.due = 0 /\ Unused.pc = "idle"
    BY <1>3, <1>4 DEF Unused, ReaderStates
  <2>2. /\ reader' = [reader EXCEPT ![r] = Unused]
        /\ UNCHANGED <<generation, run, marker, promised, scanErrors, recordedAt, terms, scanner>>
    BY <1>9 DEF Answer
  <2>3. TableKeepsPromise'
    BY <2>2 DEF TermsInv, TableKeepsPromise, Scanning
  <2> QED
    BY <1>2, <1>3, <2>1, <2>2, <2>3, ReaderMoves
<1> QED
  BY <1>6, <1>7, <1>8, <1>9

(* A scan takes one field after the other from payloads that are as new as *)
(* the marker it has seen.                                                 *)
LEMMA ScanKeepsTerms == TermsInv /\ ScanField => TermsInv'
<1> SUFFICES ASSUME TermsInv, ScanField PROVE TermsInv'
  OBVIOUS
<1>1. MaxRuns \in Nat /\ MaxScanErrors \in Nat
  BY FilterTermsAssumption
<1>2. /\ reader \in [Readers -> ReaderStates] /\ terms \in [Fields -> Generations]
      /\ scanner \in [by : Readers \cup {Startup}, left : SUBSET Fields]
      /\ scanErrors \in 0..MaxScanErrors
  BY DEF TermsInv, TermsTypeOK, ReaderStates, Generations
<1>3. /\ generation \in Nat /\ promised \in Nat /\ promised <= generation
      /\ generation \in Generations /\ Scanning
  BY <1>1 DEF TermsInv, MarkersFollowRuns, ScanField, Generations
<1>4. Fresher(terms, promised)
  BY <1>3 DEF TermsInv, TableKeepsPromise
<1>5. PICK f \in scanner.left :
        /\ \/ terms' = [terms EXCEPT ![f] = generation] /\ UNCHANGED scanErrors
           \/ /\ scanErrors < MaxScanErrors
              /\ scanErrors' = scanErrors + 1
              /\ UNCHANGED terms
        /\ scanner' = [scanner EXCEPT !.left = @ \ {f}]
        /\ IF scanner.left # {f} THEN UNCHANGED <<recordedAt, reader>>
           ELSE /\ recordedAt' = marker
                /\ reader' = IF scanner.by = Startup THEN reader
                             ELSE [reader EXCEPT ![scanner.by].pc = "done",
                                                 ![scanner.by].table = terms']
  BY DEF ScanField
<1>6. UNCHANGED <<generation, run, marker, promised>>
  BY DEF ScanField
<1>7. f \in Fields /\ terms' \in [Fields -> Generations] /\ Fresher(terms', promised)
  <2>1. f \in Fields
    BY <1>2, <1>5
  <2>2. CASE terms' = [terms EXCEPT ![f] = generation]
    <3>1. \A g \in Fields : terms'[g] = generation \/ terms'[g] = terms[g]
      BY <1>2, <2>2
    <3> QED
      BY <1>2, <1>3, <1>4, <2>1, <2>2, <3>1 DEF Fresher
  <2>3. CASE terms' = terms
    BY <1>2, <1>4, <2>1, <2>3
  <2> QED
    BY <1>5, <2>1, <2>2, <2>3
<1>8. scanner' \in [by : Readers \cup {Startup}, left : SUBSET Fields]
      /\ scanErrors' \in 0..MaxScanErrors /\ recordedAt' \in {recordedAt, marker}
  BY <1>1, <1>2, <1>5
<1>9. MarkersFollowRuns'
  BY <1>6, <1>8 DEF TermsInv, MarkersFollowRuns
<1>10. TableKeepsPromise'
  BY <1>6, <1>7 DEF TableKeepsPromise
<1>11. \A r \in Readers : reader'[r] \in ReaderStates /\ ReaderKeepsPromise(r)'
  <2> TAKE r \in Readers
  <2>1. reader[r] \in ReaderStates /\ ReaderKeepsPromise(r)
    BY <1>2 DEF TermsInv
  <2>2. CASE reader' = reader
    BY <1>6, <2>1, <2>2 DEF ReaderKeepsPromise
  <2>3. CASE scanner.by \in Readers /\ reader' = [reader EXCEPT ![scanner.by].pc = "done",
                                                               ![scanner.by].table = terms']
    <3>1. CASE r # scanner.by
      <4>1. reader'[r] = reader[r]
        BY <1>2, <2>3, <3>1
      <4> QED
        BY <1>6, <2>1, <4>1 DEF ReaderKeepsPromise
    <3>2. CASE r = scanner.by
      <4>1. reader'[r] = [[reader[r] EXCEPT !.pc = "done"] EXCEPT !.table = terms']
        BY <1>2, <2>3, <3>2
      <4>2. reader'[r] \in ReaderStates /\ reader'[r].due = reader[r].due
            /\ reader'[r].table = terms'
        BY <1>7, <2>1, <4>1 DEF ReaderStates
      <4>3. reader[r].due <= promised /\ reader[r].due \in Nat
        BY <1>1, <2>1 DEF ReaderKeepsPromise, ReaderStates, Generations
      <4>4. Fresher(terms', reader[r].due)
        BY <1>1, <1>3, <1>7, <4>3 DEF Fresher, Generations
      <4> QED
        BY <1>6, <4>2, <4>3, <4>4 DEF ReaderKeepsPromise
    <3> QED
      BY <3>1, <3>2
  <2> QED
    BY <1>2, <1>5, <2>2, <2>3
<1>12. reader' \in [Readers -> ReaderStates]
  <2>1. reader' = [r \in Readers |-> reader'[r]]
    BY <1>2, <1>5
  <2> QED
    BY <1>11, <2>1
<1>13. TermsTypeOK'
  <2>1. {generation', marker', promised', recordedAt'} \subseteq Generations
    BY <1>1, <1>9 DEF MarkersFollowRuns, Generations
  <2>2. run' \in {"none", "marking"}
    BY <1>6 DEF TermsInv, TermsTypeOK
  <2> QED
    BY <1>7, <1>8, <1>12, <2>1, <2>2 DEF TermsTypeOK, ReaderStates, Generations
<1> QED
  BY <1>9, <1>10, <1>11, <1>13 DEF TermsInv

(* What is said above holds in every state: of the marker and the runs, of *)
(* the table and the recorded marker, and of every request in flight.      *)
THEOREM TermsInvariant == TermsSpec => []TermsInv
<1>1. TermsInv /\ [TermsNext]_termsVars => TermsInv'
  <2>1. TermsInv /\ UNCHANGED termsVars => TermsInv'
    BY DEF TermsInv, TermsTypeOK, MarkersFollowRuns, TableKeepsPromise, ReaderKeepsPromise,
      Fresher, Scanning, termsVars
  <2> QED
    BY <2>1, RunKeepsTerms, RequestKeepsTerms, ScanKeepsTerms DEF TermsNext
<1> QED
  BY <1>1, TermsInitInv, PTL DEF TermsSpec

(* What a request reads is no older than the last promise it came after,   *)
(* for any number of requests, fields, runs and failed scans.              *)
THEOREM RequestsReadNoOldTerms == TermsSpec => []TermsNotStale
<1>1. TermsInv => TermsNotStale
  BY DEF TermsInv, ReaderKeepsPromise, Fresher, TermsNotStale
<1> QED
  BY <1>1, TermsInvariant, PTL

-----------------------------------------------------------------------------
(***************************************************************************)
(* The configuration.  Each new version of the table is a write or a       *)
(* start of a process.                                                     *)
(***************************************************************************)
Values == [Keys -> Settings \cup {Unset}]
Versions == 0..(MaxVersion + 1)
LoaderStates ==
  [cache : Values, env : Values, version : Versions, due : BOOLEAN, seen : Versions]

ConfigInv ==
  /\ table \in Values /\ dotenv \in Values
  /\ loader \in [Loaders -> LoaderStates]
  /\ writes \in 0..MaxWrites /\ restarts \in 0..MaxRestarts /\ readErrors \in 0..MaxReadErrors
  /\ tableVersion \in 1..(1 + writes + restarts)

(* The version is counted by writes and restarts, and so is within its     *)
(* type.                                                                   *)
LEMMA VersionsBounded ==
  ASSUME NEW v, NEW m \in 0..MaxWrites, NEW n \in 0..MaxRestarts, v \in 1..(1 + m + n)
  PROVE  v \in Versions /\ v \in 1..(MaxVersion + 1) /\ 0 \in Versions /\ v + 1 \in Versions
BY ConfigAssumption DEF Versions, MaxVersion

(* The invariant implies the types.                                        *)
LEMMA ConfigTypes == ConfigInv => ConfigTypeOK
<1> SUFFICES ASSUME ConfigInv PROVE ConfigTypeOK
  OBVIOUS
<1>1. tableVersion \in 1..(MaxVersion + 1)
  BY VersionsBounded DEF ConfigInv
<1> QED
  BY <1>1 DEF ConfigInv, ConfigTypeOK, Values, Versions, LoaderStates

(* The loader of a process that starts.                                    *)
LEMMA FreshTyped == ASSUME NEW e \in Values PROVE Fresh(e) \in LoaderStates
<1>1. NoRows \in Values
  BY DEF NoRows, Values
<1>2. 0 \in Versions
  BY ConfigAssumption DEF Versions, MaxVersion
<1> QED
  BY <1>1, <1>2 DEF Fresh, LoaderStates

(* The invariant holds at first.                                           *)
LEMMA ConfigInitInv == ConfigInit => ConfigInv
<1> SUFFICES ASSUME ConfigInit PROVE ConfigInv
  OBVIOUS
<1>1. NoRows \in Values
  BY DEF NoRows, Values
<1>2. loader \in [Loaders -> LoaderStates]
  BY <1>1, FreshTyped DEF ConfigInit
<1> QED
  BY <1>1, <1>2, ConfigAssumption DEF ConfigInit, ConfigInv

(* One loader in another state. *)
LEMMA LoaderMoves ==
  ASSUME ConfigInv, NEW l \in Loaders, NEW new \in LoaderStates,
         loader' = [loader EXCEPT ![l] = new]
  PROVE  loader' \in [Loaders -> LoaderStates]
BY DEF ConfigInv

(* A write of rows counts the version up.                                  *)
LEMMA WriteKeepsConfig ==
  ASSUME ConfigInv, NEW rows \in Values, WriteTable(rows)
  PROVE  ConfigInv'
<1>1. Writer \in Loaders /\ loader[Writer] \in LoaderStates
  BY ConfigAssumption DEF ConfigInv
<1>2. PICK new : new = [[loader[Writer] EXCEPT !.version = 0] EXCEPT !.due = TRUE]
  OBVIOUS
<1>3. new \in LoaderStates
  <2>1. 0 \in Versions
    BY VersionsBounded DEF ConfigInv
  <2> QED
    BY <1>1, <1>2, <2>1 DEF LoaderStates
<1>4. loader' = [loader EXCEPT ![Writer] = new]
  BY <1>1, <1>2 DEF WriteTable, Expired, ConfigInv
<1>5. loader' \in [Loaders -> LoaderStates]
  BY <1>1, <1>3, <1>4, LoaderMoves
<1>6. /\ table' = rows /\ dotenv' = dotenv /\ restarts' = restarts /\ readErrors' = readErrors
      /\ writes < MaxWrites /\ writes' = writes + 1 /\ tableVersion' = tableVersion + 1
  BY DEF WriteTable
<1>7. writes' \in 0..MaxWrites /\ tableVersion' \in 1..(1 + writes' + restarts')
  BY <1>6, ConfigAssumption DEF ConfigInv
<1> QED
  BY <1>5, <1>6, <1>7 DEF ConfigInv

(* The steps of a loader: its time is over, it reads the version, then the *)
(* rows, or fails.                                                         *)
LEMMA LoaderKeepsConfig ==
  ASSUME ConfigInv, NEW l \in Loaders,
         TtlEnds(l) \/ ReadTableVersion(l) \/ ReadRows(l) \/ ReadFails(l)
  PROVE  ConfigInv'
<1>1. loader[l] \in LoaderStates /\ tableVersion \in Versions /\ 0 \in Versions
      /\ loader[l].seen \in Versions /\ loader[l].version \in Versions /\ table \in Values
  BY VersionsBounded DEF ConfigInv, LoaderStates
<1>2. \E new \in LoaderStates : loader' = [loader EXCEPT ![l] = new]
  <2>1. CASE TtlEnds(l)
    <3>1. [loader[l] EXCEPT !.due = TRUE] \in LoaderStates
      BY <1>1 DEF LoaderStates
    <3> QED
      BY <2>1, <3>1 DEF TtlEnds
  <2>2. CASE ReadTableVersion(l)
    <3>1. PICK v \in Versions : loader' = [loader EXCEPT ![l].due = FALSE, ![l].seen = v]
      BY <1>1, <2>2 DEF ReadTableVersion
    <3>2. [[loader[l] EXCEPT !.due = FALSE] EXCEPT !.seen = v] \in LoaderStates
      BY <1>1 DEF LoaderStates
    <3> QED
      BY <3>1, <3>2 DEF ConfigInv
  <2>3. CASE ReadRows(l)
    <3>1. loader' = [loader EXCEPT ![l].cache = table, ![l].version = loader[l].seen, ![l].seen = 0]
      BY <2>3 DEF ReadRows
    <3>2. PICK a : a = [loader[l] EXCEPT !.cache = table]
      OBVIOUS
    <3>3. a \in LoaderStates
      BY <1>1, <3>2 DEF LoaderStates
    <3>4. PICK b : b = [a EXCEPT !.version = loader[l].seen]
      OBVIOUS
    <3>5. b \in LoaderStates
      BY <1>1, <3>3, <3>4 DEF LoaderStates
    <3>6. [b EXCEPT !.seen = 0] \in LoaderStates
      BY <1>1, <3>5 DEF LoaderStates
    <3> QED
      BY <3>1, <3>2, <3>4, <3>6 DEF ConfigInv
  <2>4. CASE ReadFails(l)
    <3>1. [loader[l] EXCEPT !.seen = 0] \in LoaderStates
      BY <1>1 DEF LoaderStates
    <3> QED
      BY <2>4, <3>1 DEF ReadFails
  <2> QED
    BY <2>1, <2>2, <2>3, <2>4
<1>3. loader' \in [Loaders -> LoaderStates]
  BY <1>2, LoaderMoves
<1>4. UNCHANGED <<table, tableVersion, dotenv, writes, restarts>>
      /\ readErrors' \in 0..MaxReadErrors
  <2>1. CASE ReadFails(l)
    BY <2>1, ConfigAssumption DEF ReadFails, ConfigInv
  <2>2. CASE TtlEnds(l) \/ ReadTableVersion(l) \/ ReadRows(l)
    BY <2>2 DEF TtlEnds, ReadTableVersion, ReadRows, ConfigInv
  <2> QED
    BY <2>1, <2>2
<1> QED
  BY <1>3, <1>4 DEF ConfigInv

(* The environment is edited, and a process starts with it.                *)
LEMMA EnvironmentKeepsConfig ==
  ASSUME ConfigInv,
         \/ \E k \in Keys, v \in Settings \cup {Unset} : EditEnvironment(k, v)
         \/ \E l \in Loaders : StartProcess(l)
  PROVE  ConfigInv'
<1>1. ASSUME NEW k \in Keys, NEW v \in Settings \cup {Unset}, EditEnvironment(k, v)
      PROVE ConfigInv'
  <2>1. dotenv' \in Values
    BY <1>1 DEF EditEnvironment, ConfigInv, Values
  <2>2. /\ restarts < MaxRestarts /\ restarts' = restarts + 1
        /\ UNCHANGED <<table, tableVersion, loader, writes, readErrors>>
    BY <1>1 DEF EditEnvironment
  <2>3. restarts' \in 0..MaxRestarts /\ tableVersion' \in 1..(1 + writes' + restarts')
    BY <2>2, ConfigAssumption DEF ConfigInv
  <2> QED
    BY <2>1, <2>2, <2>3 DEF ConfigInv
<1>2. ASSUME NEW l \in Loaders, StartProcess(l) PROVE ConfigInv'
  <2>1. table' \in Values
    BY <1>2 DEF StartProcess, ConfigInv, Values
  <2>2. /\ restarts < MaxRestarts /\ restarts' = restarts + 1 /\ tableVersion' = tableVersion + 1
        /\ UNCHANGED <<dotenv, writes, readErrors>>
        /\ loader' = [loader EXCEPT ![l] = Fresh(dotenv)]
    BY <1>2 DEF StartProcess
  <2>3. loader' \in [Loaders -> LoaderStates]
    <3>1. Fresh(dotenv) \in LoaderStates
      BY FreshTyped DEF ConfigInv
    <3> QED
      BY <2>2, <3>1, LoaderMoves
  <2>4. restarts' \in 0..MaxRestarts /\ tableVersion' \in 1..(1 + writes' + restarts')
    BY <2>2, ConfigAssumption DEF ConfigInv
  <2> QED
    BY <2>1, <2>2, <2>3, <2>4 DEF ConfigInv
<1> QED
  BY <1>1, <1>2

(* Every step keeps the invariant.                                         *)
LEMMA ConfigStepInv == ConfigInv /\ [ConfigNext]_configVars => ConfigInv'
<1> SUFFICES ASSUME ConfigInv, ConfigNext \/ UNCHANGED configVars PROVE ConfigInv'
  OBVIOUS
<1>1. ASSUME NEW k \in Keys, NEW v \in Settings, PutConfig(k, v) PROVE ConfigInv'
  <2>1. [table EXCEPT ![k] = v] \in Values
    BY DEF ConfigInv, Values
  <2> QED
    BY <1>1, <2>1, WriteKeepsConfig DEF PutConfig, SetKey
<1>2. ASSUME NEW k \in Keys, DeleteConfig(k) PROVE ConfigInv'
  <2>1. [table EXCEPT ![k] = Unset] \in Values
    BY DEF ConfigInv, Values
  <2> QED
    BY <1>2, <2>1, WriteKeepsConfig DEF DeleteConfig, DeleteKey
<1>3. ResetConfig => ConfigInv'
  <2>1. NoRows \in Values
    BY DEF NoRows, Values
  <2> QED
    BY <2>1, WriteKeepsConfig DEF ResetConfig, ResetKeys
<1>4. UNCHANGED configVars => ConfigInv'
  BY DEF configVars, ConfigInv
<1> QED
  BY <1>1, <1>2, <1>3, <1>4, LoaderKeepsConfig, EnvironmentKeepsConfig DEF ConfigNext

-----------------------------------------------------------------------------
(***************************************************************************)
(* The watcher.  A timer is started for each event, and asks for one job;  *)
(* between the test of the bound and the append no other event is          *)
(* recorded.                                                               *)
(***************************************************************************)
TimerStates == {"none", "waiting", "entered", "popped", "calling", "done", "cancelled"}

(* No schedule call has started this timer. *)
NotStarted(k) == k > recorded \/ (k = recorded /\ observer = "start")

WatcherInv ==
  /\ observer \in {"idle", "cancel", "append", "start", "store", "delete", "dead"}
  /\ timer \in [Timers -> TimerStates]
  /\ pending \in Timers \cup {0} /\ waiting \subseteq Timers
  /\ recorded \in 0..MaxEvents /\ attempted \in 0..MaxEvents /\ jobs = 0
  /\ refused \in Nat /\ stopping \in BOOLEAN
  /\ observer \in {"cancel", "append", "dead"} => recorded < MaxEvents
  /\ observer \in {"start", "store"} => recorded > 0
  /\ refused <= Cardinality({k \in Timers : timer[k] = "done"})
  /\ \A k \in Timers : NotStarted(k) => timer[k] = "none"

(* There are as many timers as events.                                     *)
LEMMA TimersFinite ==
  /\ IsFiniteSet(Timers) /\ Cardinality(Timers) = MaxEvents /\ MaxEvents \in Nat
  /\ \A S \in SUBSET Timers : /\ IsFiniteSet(S) /\ Cardinality(S) \in Nat
                              /\ Cardinality(S) <= MaxEvents
<1>1. MaxEvents \in Nat
  BY WatcherAssumption
<1>2. IsFiniteSet(Timers) /\ Cardinality(Timers) = MaxEvents
  BY <1>1, FS_Interval DEF Timers
<1> QED
  BY <1>1, <1>2, FS_Subset, FS_CardinalityType

(* The invariant implies the types.                                        *)
LEMMA WatcherTypes == WatcherInv => WatcherTypeOK
<1> SUFFICES ASSUME WatcherInv PROVE WatcherTypeOK
  OBVIOUS
<1>1. Cardinality({k \in Timers : timer[k] = "done"}) \in Nat
      /\ Cardinality({k \in Timers : timer[k] = "done"}) <= MaxEvents
  BY TimersFinite
<1>2. refused \in 0..MaxEvents
  BY <1>1, TimersFinite DEF WatcherInv
<1>3. MaxEvents \in Nat \ {0}
  BY WatcherAssumption
<1>4. {recorded, attempted, jobs, refused} \subseteq 0..MaxEvents
  BY <1>2, <1>3 DEF WatcherInv
<1> QED
  BY <1>4 DEF WatcherInv, WatcherTypeOK, TimerStates

(* The invariant holds at first.                                           *)
LEMMA WatcherInitInv == WatcherInit => WatcherInv
<1> SUFFICES ASSUME WatcherInit PROVE WatcherInv
  OBVIOUS
<1>1. Cardinality({k \in Timers : timer[k] = "done"}) >= 0
  BY TimersFinite
<1> QED
  <2>1. refused = 0 /\ \A k \in Timers : timer[k] = "none"
    BY DEF WatcherInit
  <2>2. refused <= Cardinality({k \in Timers : timer[k] = "done"}) /\ refused \in Nat
    BY <1>1, <2>1
  <2>3. timer \in [Timers -> TimerStates]
    BY DEF WatcherInit, TimerStates
  <2>4. stopping \in BOOLEAN
    BY DEF WatcherInit
  <2> QED
    BY <2>1, <2>2, <2>3, <2>4, WatcherAssumption DEF WatcherInit, WatcherInv

(* Steps that start no timer and undo nothing that is done. *)
LEMMA TimersStay ==
  ASSUME WatcherInv, timer' \in [Timers -> TimerStates],
         \A k \in Timers : /\ timer[k] = "done" => timer'[k] = "done"
                           /\ timer[k] = "none" => timer'[k] = "none"
  PROVE  /\ refused <= Cardinality({k \in Timers : timer'[k] = "done"})
         /\ \A k \in Timers : NotStarted(k) => timer'[k] = "none"
<1>1. Cardinality({k \in Timers : timer[k] = "done"})
        <= Cardinality({k \in Timers : timer'[k] = "done"})
  <2>1. {k \in Timers : timer[k] = "done"} \subseteq {k \in Timers : timer'[k] = "done"}
    OBVIOUS
  <2> QED
    BY <2>1, TimersFinite, FS_Subset
<1>2. refused <= Cardinality({k \in Timers : timer'[k] = "done"})
  BY <1>1, TimersFinite DEF WatcherInv
<1> QED
  BY <1>2 DEF WatcherInv

(* Cancelling a timer makes none of them done, and starts none.            *)
LEMMA CancelledStays ==
  ASSUME WatcherInv, NEW k \in Timers, timer' = Cancelled(k)
  PROVE  /\ timer' \in [Timers -> TimerStates]
         /\ refused <= Cardinality({j \in Timers : timer'[j] = "done"})
         /\ \A j \in Timers : NotStarted(j) => timer'[j] = "none"
<1>1. /\ timer' \in [Timers -> TimerStates]
      /\ \A j \in Timers : /\ timer[j] = "done" => timer'[j] = "done"
                           /\ timer[j] = "none" => timer'[j] = "none"
  BY DEF Cancelled, WatcherInv, TimerStates
<1> QED
  BY <1>1, TimersStay

(* The observer records an event or a deletion, and schedules a timer.     *)
LEMMA ObserverKeeps ==
  ASSUME WatcherInv, EventArrives \/ HandleDeletion \/ Schedule
  PROVE  WatcherInv'
<1>m. MaxEvents \in Nat \ {0} /\ recorded \in Nat
  BY WatcherAssumption DEF WatcherInv
<1>1. CASE EventArrives
  BY <1>1, <1>m DEF EventArrives, Observes, WatcherInv, NotStarted
<1>2. CASE HandleDeletion
  BY <1>2, <1>m DEF HandleDeletion, Observes, WatcherInv, NotStarted
<1>3. CASE CancelPending
  <2>1. CASE pending = 0 /\ Observes("cancel", "dead") /\ UNCHANGED timer
    BY <1>3, <1>m, <2>1 DEF CancelPending, Observes, WatcherInv, NotStarted
  <2>2. CASE pending # 0 /\ Observes("cancel", "append") /\ timer' = Cancelled(pending)
    <3>1. pending \in Timers
      BY <2>2 DEF WatcherInv
    <3>2. /\ timer' \in [Timers -> TimerStates]
          /\ refused <= Cardinality({j \in Timers : timer'[j] = "done"})
          /\ \A j \in Timers : NotStarted(j) => timer'[j] = "none"
      BY <2>2, <3>1, CancelledStays
    <3>3. UNCHANGED <<pending, waiting, recorded, jobs, attempted, refused, stopping>>
          /\ observer = "cancel" /\ observer' = "append"
      BY <1>3, <2>2 DEF CancelPending, Observes
    <3>4. \A j \in Timers : NotStarted(j)' => NotStarted(j)
      BY <3>3 DEF NotStarted
    <3> QED
      BY <1>m, <3>2, <3>3, <3>4 DEF WatcherInv
  <2> QED
    BY <1>3, <2>1, <2>2 DEF CancelPending
<1>4. CASE AppendEvent
  <2>1. observer = "append" /\ observer' = "start" /\ recorded < MaxEvents
        /\ recorded' = recorded + 1 /\ waiting' = waiting \cup {recorded + 1}
        /\ UNCHANGED <<timer, pending, jobs, attempted, refused, stopping>>
    BY <1>4 DEF AppendEvent, Observes, WatcherInv
  <2>2. recorded' \in 0..MaxEvents /\ recorded' > 0 /\ waiting' \subseteq Timers
    BY <1>m, <2>1 DEF WatcherInv, Timers
  <2>3. \A j \in Timers : NotStarted(j)' => NotStarted(j)
    BY <1>m, <2>1 DEF NotStarted, Timers
  <2> QED
    BY <1>m, <2>1, <2>2, <2>3 DEF WatcherInv
<1>5. CASE StartTimer
  <2>1. observer = "start" /\ observer' = "store"
        /\ timer' = [timer EXCEPT ![recorded] = "waiting"]
        /\ UNCHANGED <<pending, waiting, recorded, jobs, attempted, refused, stopping>>
    BY <1>5 DEF StartTimer, Observes
  <2>2. recorded \in Timers /\ recorded > 0 /\ timer[recorded] = "none"
    BY <1>m, <2>1 DEF WatcherInv, Timers, NotStarted
  <2>3. timer' \in [Timers -> TimerStates]
    BY <2>1 DEF WatcherInv, TimerStates
  <2>4. \A j \in Timers \ {recorded} : timer'[j] = timer[j]
    BY <2>1 DEF WatcherInv
  <2>5. timer'[recorded] = "waiting"
    BY <2>1, <2>2 DEF WatcherInv
  <2>6. {k \in Timers : timer'[k] = "done"} = {k \in Timers : timer[k] = "done"}
    BY <2>2, <2>4, <2>5
  <2>7. \A j \in Timers : NotStarted(j)' => NotStarted(j) /\ j # recorded
    BY <1>m, <2>1 DEF NotStarted, Timers
  <2>8. \A j \in Timers : NotStarted(j)' => timer'[j] = "none"
    BY <2>4, <2>7 DEF WatcherInv
  <2> QED
    BY <1>m, <2>1, <2>2, <2>3, <2>6, <2>8 DEF WatcherInv
<1>6. CASE StoreTimer
  <2>1. observer = "store" /\ observer' = "idle" /\ pending' = recorded
        /\ UNCHANGED <<timer, waiting, recorded, jobs, attempted, refused, stopping>>
    BY <1>6 DEF StoreTimer, Observes
  <2>2. pending' \in Timers
    BY <1>m, <2>1 DEF WatcherInv, Timers
  <2>3. \A j \in Timers : NotStarted(j)' => NotStarted(j)
    BY <2>1 DEF NotStarted
  <2> QED
    BY <1>m, <2>1, <2>2, <2>3 DEF WatcherInv
<1> QED
  BY <1>1, <1>2, <1>3, <1>4, <1>5, <1>6 DEF Schedule

(* A timer runs: there are no more refusals than timers that are done.     *)
LEMMA TimerKeeps ==
  ASSUME WatcherInv, NEW k \in Timers, Executes(k)
  PROVE  WatcherInv'
<1>m. MaxEvents \in Nat \ {0} /\ recorded \in 0..MaxEvents
  BY WatcherAssumption DEF WatcherInv
<1>1. \A j \in Timers : NotStarted(j)' <=> NotStarted(j)
  BY DEF Executes, Enter, PopEvents, PopPending, TriggerIngestion, AsksForJob, NotStarted
<1>2. ASSUME NEW from \in TimerStates \ {"none", "done"}, NEW to \in TimerStates,
             Advance(k, from, to)
      PROVE  /\ timer' \in [Timers -> TimerStates] /\ timer'[k] = to
             /\ \A j \in Timers \ {k} : timer'[j] = timer[j]
             /\ refused <= Cardinality({j \in Timers : timer'[j] = "done"})
             /\ \A j \in Timers : NotStarted(j) => timer'[j] = "none"
  <2>1. timer' \in [Timers -> TimerStates] /\ timer'[k] = to /\ timer[k] = from
        /\ \A j \in Timers \ {k} : timer'[j] = timer[j]
    BY <1>2 DEF Advance, WatcherInv
  <2>2. \A j \in Timers : /\ timer[j] = "done" => timer'[j] = "done"
                          /\ timer[j] = "none" => timer'[j] = "none"
    BY <1>2, <2>1
  <2> QED
    BY <2>1, <2>2, TimersStay
<1>3. CASE Enter(k)
  <2>1. Advance(k, "waiting", "entered")
        /\ UNCHANGED <<observer, pending, waiting, recorded, jobs, attempted, refused, stopping>>
    BY <1>3 DEF Enter
  <2>2. /\ timer' \in [Timers -> TimerStates]
        /\ refused <= Cardinality({j \in Timers : timer'[j] = "done"})
        /\ \A j \in Timers : NotStarted(j) => timer'[j] = "none"
    BY <1>2, <2>1 DEF TimerStates
  <2> QED
    BY <1>1, <2>1, <2>2 DEF WatcherInv
<1>4. CASE PopEvents(k)
  <2>1. Advance(k, "entered", "popped") /\ waiting' = {}
        /\ UNCHANGED <<observer, pending, recorded, jobs, attempted, refused, stopping>>
    BY <1>4 DEF PopEvents
  <2>2. /\ timer' \in [Timers -> TimerStates]
        /\ refused <= Cardinality({j \in Timers : timer'[j] = "done"})
        /\ \A j \in Timers : NotStarted(j) => timer'[j] = "none"
    BY <1>2, <2>1 DEF TimerStates
  <2> QED
    BY <1>1, <2>1, <2>2 DEF WatcherInv
<1>5. CASE PopPending(k)
  <2>1. Advance(k, "popped", "calling") /\ pending' = 0
        /\ UNCHANGED <<observer, waiting, recorded, jobs, attempted, refused, stopping>>
    BY <1>5 DEF PopPending
  <2>2. /\ timer' \in [Timers -> TimerStates]
        /\ refused <= Cardinality({j \in Timers : timer'[j] = "done"})
        /\ \A j \in Timers : NotStarted(j) => timer'[j] = "none"
    BY <1>2, <2>1 DEF TimerStates
  <2> QED
    BY <1>1, <2>1, <2>2 DEF WatcherInv
<1>6. CASE TriggerIngestion(k)
  <2>1. Advance(k, "calling", "done") /\ attempted' = Arrived
        /\ UNCHANGED <<observer, pending, waiting, recorded, stopping, jobs>>
        /\ refused' = refused + 1
    BY <1>6 DEF TriggerIngestion, AsksForJob, Connected
  <2>2. /\ timer' \in [Timers -> TimerStates] /\ timer'[k] = "done"
        /\ \A j \in Timers \ {k} : timer'[j] = timer[j]
        /\ \A j \in Timers : NotStarted(j) => timer'[j] = "none"
    BY <1>2, <2>1 DEF TimerStates
  <2>3. timer[k] = "calling"
    BY <2>1 DEF Advance
  <2>4. PICK done : done = {j \in Timers : timer[j] = "done"}
    OBVIOUS
  <2>5. {j \in Timers : timer'[j] = "done"} = done \cup {k} /\ k \notin done
    BY <2>2, <2>3, <2>4
  <2>6. IsFiniteSet(done) /\ Cardinality(done) \in Nat
    BY <2>4, TimersFinite
  <2>7. Cardinality(done \cup {k}) = Cardinality(done) + 1
    BY <2>5, <2>6, FS_AddElement
  <2>8. refused <= Cardinality(done) /\ refused \in Nat
    BY <2>4 DEF WatcherInv
  <2>9. refused' <= Cardinality({j \in Timers : timer'[j] = "done"}) /\ refused' \in Nat
    BY <2>1, <2>5, <2>6, <2>7, <2>8
  <2>10. attempted' \in 0..MaxEvents
    BY <1>m, <2>1 DEF WatcherInv, Arrived
  <2> QED
    BY <1>1, <2>1, <2>2, <2>9, <2>10 DEF WatcherInv
<1> QED
  BY <1>3, <1>4, <1>5, <1>6 DEF Executes

(* The watcher is stopped.                                                 *)
LEMMA StopKeepsWatcher == ASSUME WatcherInv, StopWatcher PROVE WatcherInv'
<1>1. /\ stopping' = TRUE /\ pending' = 0 /\ waiting' = {}
      /\ UNCHANGED <<observer, recorded, jobs, attempted, refused>>
  BY DEF StopWatcher
<1>2. /\ timer' \in [Timers -> TimerStates]
      /\ refused <= Cardinality({j \in Timers : timer'[j] = "done"})
      /\ \A j \in Timers : NotStarted(j) => timer'[j] = "none"
  <2>1. CASE pending = 0
    BY <2>1 DEF StopWatcher, WatcherInv
  <2>2. CASE pending # 0
    BY <2>2, CancelledStays DEF StopWatcher, WatcherInv
  <2> QED
    BY <2>1, <2>2
<1>3. \A j \in Timers : NotStarted(j)' <=> NotStarted(j)
  BY <1>1 DEF NotStarted
<1> QED
  BY <1>1, <1>2, <1>3 DEF WatcherInv

(* Every step keeps the invariant.                                         *)
LEMMA WatcherStepInv == WatcherInv /\ [WatcherNext]_watcherVars => WatcherInv'
<1>1. WatcherInv /\ UNCHANGED watcherVars => WatcherInv'
  BY DEF watcherVars, WatcherInv, NotStarted
<1> QED
  BY <1>1, ObserverKeeps, TimerKeeps, StopKeepsWatcher DEF WatcherNext

-----------------------------------------------------------------------------
(***************************************************************************)
(* The waiting limiter.  No task asks for more than a bucket holds, so no  *)
(* sleep is longer than filling an empty bucket takes.                     *)
(***************************************************************************)
Units == 0..(Capacity * Token)
BucketStates == [units : Units, last : 0..LongAgo]
Steps == [pc : {"acquire", "asleep"}, path : Seq(Limiters) \ {<<>>}, tokens : Demands,
          sleep : 0..LongAgo]
TaskStates == Steps \cup {AtRest}

WaitingInv ==
  /\ bucket \in [Limiters -> BucketStates]
  /\ task \in [Tasks -> TaskStates]
  /\ requested \in 0..MaxCalls

(* What the assumption says of rates and demands, in units.                *)
LEMMA UnitsAreNumbers ==
  /\ RequestsPerMinute \in Nat \ {0} /\ Capacity \in Nat /\ Capacity * Token \in Nat
  /\ MaxCalls \in Nat
  /\ \A n \in Demands : n * Token \in Units /\ n * Token > 0
<1>1. RequestsPerMinute \in Nat \ {0} /\ MaxCalls \in Nat
  BY BucketAssumption, WaitingAssumption
<1>2. Capacity \in Nat
  BY <1>1 DEF Capacity
<1>3. Capacity * Token \in Nat
  BY <1>2 DEF Token
<1>4. \A n \in Demands : n \in 1..Capacity
  BY WaitingAssumption
<1>5. \A n \in 1..Capacity : n * Token \in Units /\ n * Token > 0
  BY <1>2 DEF Units, Token
<1> QED
  BY <1>1, <1>2, <1>3, <1>4, <1>5

(* More units take no less time. *)
LEMMA Quotients ==
  ASSUME NEW m \in Nat, NEW n \in Nat, m <= n, NEW r \in Nat \ {0}
  PROVE  m \div r \in Nat /\ m \div r <= n \div r
<1>1. PICK p : p = m \div r
  OBVIOUS
<1>2. PICK q : q = n \div r
  OBVIOUS
<1>3. p \in Nat /\ p * r <= m
  BY <1>1
<1>4. q \in Nat /\ n < (q + 1) * r
  BY <1>2
<1>5. p * r < (q + 1) * r
  BY <1>3, <1>4
<1>6. p < q + 1
  BY <1>3, <1>4, <1>5
<1> QED
  BY <1>1, <1>2, <1>3, <1>4, <1>6

(* The seconds that a number of units takes are bounded by those that a    *)
(* whole bucket takes.                                                     *)
LEMMA SecondsBounded ==
  /\ LongAgo \in Nat
  /\ \A u \in Units : SecondsFor(u) \in 0..LongAgo
<1>1. ASSUME NEW u \in Nat, NEW n \in Nat, u <= n PROVE SecondsFor(u) \in Nat /\ SecondsFor(u) <= SecondsFor(n)
  <2>1. RequestsPerMinute \in Nat \ {0}
    BY UnitsAreNumbers
  <2>2. u + RequestsPerMinute - 1 \in Nat /\ n + RequestsPerMinute - 1 \in Nat
        /\ u + RequestsPerMinute - 1 <= n + RequestsPerMinute - 1
    BY <1>1, <2>1
  <2> QED
    BY <2>1, <2>2, Quotients DEF SecondsFor
<1>2. SecondsFor(Capacity * Token) \in Nat
  BY <1>1, UnitsAreNumbers
<1>3. \A u \in Units : SecondsFor(u) \in Nat /\ SecondsFor(u) <= SecondsFor(Capacity * Token)
  BY <1>1, UnitsAreNumbers DEF Units
<1> QED
  BY <1>2, <1>3 DEF LongAgo

(* What is left of a path. *)
LEMMA RestOfPath ==
  ASSUME NEW S, NEW p \in Seq(S), p # <<>>, Len(p) # 1
  PROVE  Tail(p) \in Seq(S) \ {<<>>}
<1>1. Len(p) \in Nat /\ Len(p) # 0
  BY EmptySeq
<1>2. Tail(p) \in Seq(S) /\ Len(Tail(p)) = Len(p) - 1
  BY HeadTailProperties
<1>3. Len(Tail(p)) # 0
  BY <1>1, <1>2
<1> QED
  BY <1>2, <1>3, EmptySeq

(* A bucket that is refilled is a bucket.                                  *)
LEMMA RefilledNowTyped ==
  ASSUME NEW b \in BucketStates
  PROVE  RefilledNow(b) \in BucketStates /\ RefilledNow(b).units \in Units
<1>1. b.units \in Nat /\ b.last \in Nat /\ RequestsPerMinute \in Nat /\ Capacity * Token \in Nat
  BY UnitsAreNumbers, SecondsBounded DEF BucketStates, Units
<1>2. PICK u : u = Lesser(Capacity * Token, b.units + (b.last - 0) * RequestsPerMinute)
  OBVIOUS
<1>3. b.units + (b.last - 0) * RequestsPerMinute \in Nat
  BY <1>1
<1>4. u \in Units
  BY <1>1, <1>2, <1>3 DEF Lesser, Units
<1>5. [b EXCEPT !.last = 0].last = 0 /\ [b EXCEPT !.last = 0].units = b.units
  BY DEF BucketStates
<1>6. RefilledNow(b) = [units |-> u, last |-> 0]
  BY <1>2, <1>5 DEF RefilledNow, Refilled
<1>7. 0 \in 0..LongAgo
  BY SecondsBounded
<1> QED
  BY <1>4, <1>6, <1>7 DEF BucketStates

(* The invariant implies the types.                                        *)
LEMMA WaitingTypes == WaitingInv => WaitingTypeOK
<1> SUFFICES ASSUME WaitingInv PROVE WaitingTypeOK
  OBVIOUS
<1>1. \A l \in Limiters : bucket[l] \in [units : 0..(Capacity * Token), last : 0..LongAgo]
  BY DEF WaitingInv, BucketStates, Units
<1>2. \A t \in Tasks : /\ task[t].pc \in {"idle", "acquire", "asleep"}
                       /\ task[t].sleep \in 0..LongAgo
                       /\ task[t].pc = "idle" <=> task[t].path = <<>>
  <2> TAKE t \in Tasks
  <2>1. CASE task[t] = AtRest
    BY <2>1, SecondsBounded DEF AtRest
  <2>2. CASE task[t] \in Steps
    BY <2>2 DEF Steps
  <2> QED
    BY <2>1, <2>2 DEF WaitingInv, TaskStates
<1> QED
  BY <1>1, <1>2 DEF WaitingInv, WaitingTypeOK

(* The invariant holds at first.                                           *)
LEMMA WaitingInitInv == WaitingInit => WaitingInv
<1> SUFFICES ASSUME WaitingInit PROVE WaitingInv
  OBVIOUS
<1>1. FullBucket(0) \in BucketStates
  BY UnitsAreNumbers, SecondsBounded DEF FullBucket, BucketStates, Units
<1> QED
  BY <1>1, UnitsAreNumbers DEF WaitingInit, WaitingInv, TaskStates

(* A task takes its tokens, or sleeps for what is missing.                 *)
LEMMA AcquireKeeps ==
  ASSUME WaitingInv, NEW t \in Tasks, NEW l \in Limiters, Acquire(t, l)
  PROVE  WaitingInv'
<1>1. PICK b : b = RefilledNow(bucket[l])
  OBVIOUS
<1>2. b \in BucketStates /\ b.units \in Units
  BY <1>1, RefilledNowTyped DEF WaitingInv
<1>3. task[t] \in Steps
  BY DEF Acquire, TakeOrSleep, WaitingInv, TaskStates, AtRest
<1>4. PICK missing : missing = task[t].tokens * Token - b.units
  OBVIOUS
<1>5. /\ l = Head(task[t].path) /\ requested' = requested
      /\ IF missing <= 0
         THEN /\ bucket' = [bucket EXCEPT ![l] = [b EXCEPT !.units = -missing]]
              /\ IF Len(task[t].path) = 1 THEN task' = [task EXCEPT ![t] = AtRest]
                                          ELSE task' = [task EXCEPT ![t].path = Tail(@)]
         ELSE /\ bucket' = [bucket EXCEPT ![l] = [b EXCEPT !.units = b.units]]
              /\ task' = [task EXCEPT ![t].pc = "asleep", ![t].sleep = SecondsFor(missing)]
  BY <1>1, <1>4 DEF Acquire, TakeOrSleep
<1>6. missing \in Int /\ (missing <= 0 => -missing \in Units) /\ (missing > 0 => missing \in Units)
  <2>1. task[t].tokens * Token \in Nat /\ b.units \in Nat /\ Capacity * Token \in Nat
        /\ task[t].tokens * Token <= Capacity * Token /\ b.units <= Capacity * Token
    BY <1>2, <1>3, UnitsAreNumbers DEF Steps, Units
  <2> QED
    BY <1>4, <2>1 DEF Units
<1>7. bucket' \in [Limiters -> BucketStates]
  <2>1. \A u \in Units : [b EXCEPT !.units = u] \in BucketStates
    BY <1>2 DEF BucketStates
  <2> QED
    BY <1>2, <1>5, <1>6, <2>1 DEF WaitingInv
<1>8. task' \in [Tasks -> TaskStates]
  <2>1. CASE missing <= 0 /\ Len(task[t].path) = 1
    BY <1>5, <2>1 DEF WaitingInv, TaskStates
  <2>2. CASE missing <= 0 /\ Len(task[t].path) # 1
    <3>1. task[t].path \in Seq(Limiters) /\ task[t].path # <<>>
      BY <1>3 DEF Steps
    <3>3. Tail(task[t].path) \in Seq(Limiters) \ {<<>>}
      BY <2>2, <3>1, RestOfPath
    <3>4. PICK p \in Seq(Limiters) \ {<<>>} : p = Tail(task[t].path)
      BY <3>3
    <3>5. [task[t] EXCEPT !.path = p] \in Steps
      BY <1>3 DEF Steps
    <3>6. task' = [task EXCEPT ![t].path = p]
      BY <1>5, <2>2, <3>4
    <3> QED
      BY <3>5, <3>6 DEF WaitingInv, TaskStates
  <2>3. CASE missing > 0
    <3>1. SecondsFor(missing) \in 0..LongAgo
      BY <1>6, <2>3, SecondsBounded
    <3>2. PICK s \in 0..LongAgo : s = SecondsFor(missing)
      BY <3>1
    <3>3. PICK a : a = [task[t] EXCEPT !.pc = "asleep"]
      OBVIOUS
    <3>4. a \in Steps
      BY <1>3, <3>3 DEF Steps
    <3>5. [a EXCEPT !.sleep = s] \in Steps
      BY <3>4 DEF Steps
    <3>6. task' = [task EXCEPT ![t].pc = "asleep", ![t].sleep = SecondsFor(missing)]
      <4>1. ~(missing <= 0)
        BY <1>6, <2>3
      <4> QED
        BY <1>5, <4>1
    <3>7. task' = [task EXCEPT ![t] = [a EXCEPT !.sleep = s]]
      BY <3>2, <3>3, <3>6 DEF WaitingInv
    <3> QED
      BY <3>5, <3>7 DEF WaitingInv, TaskStates
  <2> QED
    BY <1>6, <2>1, <2>2, <2>3
<1> QED
  BY <1>5, <1>7, <1>8 DEF WaitingInv

(* A second passes, for buckets and sleepers.                              *)
LEMMA SecondKeeps == WaitingInv /\ Second => WaitingInv'
<1> SUFFICES ASSUME WaitingInv, Second PROVE WaitingInv'
  OBVIOUS
<1>1. bucket' = [l \in Limiters |-> [bucket[l] EXCEPT !.last = Lesser(LongAgo, @ + 1)]]
      /\ task' = [t \in Tasks |-> [task[t] EXCEPT !.sleep = IF @ = 0 THEN 0 ELSE @ - 1]]
      /\ requested' = requested
  BY DEF Second
<1>2. ASSUME NEW l \in Limiters
      PROVE [bucket[l] EXCEPT !.last = Lesser(LongAgo, @ + 1)] \in BucketStates
  <2>1. PICK b \in BucketStates : b = bucket[l]
    BY DEF WaitingInv
  <2>2. Lesser(LongAgo, b.last + 1) \in 0..LongAgo
    BY SecondsBounded DEF BucketStates, Lesser
  <2>3. PICK n \in 0..LongAgo : n = Lesser(LongAgo, b.last + 1)
    BY <2>2
  <2>4. [b EXCEPT !.last = n] \in BucketStates
    BY DEF BucketStates
  <2> QED
    BY <2>1, <2>3, <2>4
<1>3. ASSUME NEW t \in Tasks
      PROVE [task[t] EXCEPT !.sleep = IF @ = 0 THEN 0 ELSE @ - 1] \in TaskStates
  <2>1. PICK a \in TaskStates : a = task[t]
    BY DEF WaitingInv
  <2>2. PICK n : n = IF a.sleep = 0 THEN 0 ELSE a.sleep - 1
    OBVIOUS
  <2>3. CASE a = AtRest
    <3>1. n = 0 /\ a.sleep = 0
      BY <2>2, <2>3 DEF AtRest
    <3>2. [a EXCEPT !.sleep = 0] = a
      BY <2>3 DEF AtRest
    <3> QED
      BY <2>1, <2>2, <3>1, <3>2
  <2>4. CASE a \in Steps
    <3>1. n \in 0..LongAgo
      BY <2>2, <2>4, SecondsBounded DEF Steps
    <3>2. [a EXCEPT !.sleep = n] \in Steps
      BY <2>4, <3>1 DEF Steps
    <3> QED
      BY <2>1, <2>2, <3>2 DEF TaskStates
  <2> QED
    BY <2>3, <2>4 DEF TaskStates
<1> QED
  BY <1>1, <1>2, <1>3 DEF WaitingInv

(* Every step keeps the invariant.                                         *)
LEMMA WaitingStepInv == WaitingInv /\ [WaitingNext]_waitingVars => WaitingInv'
<1> SUFFICES ASSUME WaitingInv, WaitingNext \/ UNCHANGED waitingVars PROVE WaitingInv'
  OBVIOUS
<1>1. ASSUME NEW t \in Tasks, NEW path \in Paths, NEW tokens \in Demands,
             AcquireAll(t, path, tokens)
      PROVE WaitingInv'
  <2>1. PICK new : new = [pc |-> "acquire", path |-> path, tokens |-> tokens, sleep |-> 0]
    OBVIOUS
  <2>2. path \in Seq(Limiters) \ {<<>>} /\ 0 \in 0..LongAgo
    BY WaitingAssumption, SecondsBounded
  <2>3. new \in TaskStates
    BY <2>1, <2>2 DEF TaskStates, Steps
  <2>4. task' = [task EXCEPT ![t] = new] /\ bucket' = bucket
        /\ requested < MaxCalls /\ requested' = requested + 1
    BY <1>1, <2>1 DEF AcquireAll
  <2>5. requested' \in 0..MaxCalls
    BY <2>4, UnitsAreNumbers DEF WaitingInv
  <2> QED
    BY <2>3, <2>4, <2>5 DEF WaitingInv
<1>2. ASSUME NEW t \in Tasks, WakeUp(t) PROVE WaitingInv'
  <2>1. task[t] \in Steps
    BY <1>2 DEF WakeUp, WaitingInv, TaskStates, AtRest
  <2>2. [task[t] EXCEPT !.pc = "acquire"] \in Steps
    BY <2>1 DEF Steps
  <2>3. task' = [task EXCEPT ![t] = [task[t] EXCEPT !.pc = "acquire"]]
        /\ UNCHANGED <<bucket, requested>>
    BY <1>2 DEF WakeUp
  <2> QED
    BY <2>2, <2>3 DEF WaitingInv, TaskStates
<1>3. ASSUME NEW t \in Tasks, CancelTask(t) PROVE WaitingInv'
  BY <1>3 DEF CancelTask, WaitingInv, TaskStates
<1>4. UNCHANGED waitingVars => WaitingInv'
  BY DEF waitingVars, WaitingInv
<1> QED
  BY <1>1, <1>2, <1>3, <1>4, AcquireKeeps, SecondKeeps DEF WaitingNext

-----------------------------------------------------------------------------
(***************************************************************************)
(* The schedules.  A server has each due row once, by an expression that   *)
(* croniter accepts unless the schedule is irregular.                      *)
(***************************************************************************)
Dues == Schedules \X Expressions
RowStates ==
  [state : {"absent", "enabled", "disabled", "deleted"},
   expression : Expressions \cup {NoExpression}, next : Times \cup {Never, Unknown}]
IterationStates ==
  [pc : {"asleep", "scan", "update", "error"}, now : Times, due : SUBSET Dues]

SchedulesTyped ==
  /\ minute \in Times
  /\ schedule \in [Schedules -> RowStates]
  /\ iteration \in [Nodes -> IterationStates]
  /\ triggered \in [Schedules -> [Times -> Nat]]
  /\ irregular \subseteq Schedules
  /\ failures \in 0..MaxFailures

RowFollowsApi(s) ==
  /\ schedule[s].state = "absent" => schedule[s].next = Unknown
  /\ Exists(s) => schedule[s].expression \in Expressions
  /\ Exists(s) /\ s \notin irregular => CroniterAccepts(schedule[s].expression)

EachOnce(due) == \A d, e \in due : d[1] = e[1] => d = e

HasRead(n) ==
  /\ iteration[n].pc # "asleep" => iteration[n].due # {}
  /\ iteration[n].now <= minute
  /\ EachOnce(iteration[n].due)
  /\ \A d \in iteration[n].due :
       /\ schedule[d[1]].state # "absent"
       /\ d[1] \notin irregular => CroniterAccepts(d[2])

(***************************************************************************)
(* How often a minute t triggers a schedule s.  A server that still has s  *)
(* of an earlier minute is behind; the others are caught up, once t has    *)
(* come.  Of those, ready are the ones that may create one more job before *)
(* a server that is behind makes s due again: whoever is not between its   *)
(* job and the record while s is due, and whoever has s still before it    *)
(* when s is not.  A server that catches up may make all that are caught   *)
(* up ready; a job takes the server out of them; a failure puts it back.   *)
(***************************************************************************)
Has(n, s) == \E d \in iteration[n].due : d[1] = s
Behind(n, s, t) == iteration[n].pc # "asleep" /\ iteration[n].now < t /\ Has(n, s)
CaughtUp(s, t) == {n \in Nodes : t <= minute /\ ~Behind(n, s, t)}

AtRow(n, s) == iteration[n].pc \in {"update", "error"} /\ First(n)[1] = s
HasCreated(n, s, t) == iteration[n].now = t /\ AtRow(n, s)
WillCreate(n, s, t) ==
  iteration[n].pc # "asleep" /\ iteration[n].now = t /\ Has(n, s) /\ ~AtRow(n, s)

DueAt(s, t) == schedule[s].state # "deleted" /\ schedule[s].next \in 0..t \cup {Unknown}
Ready(s, t) ==
  {n \in CaughtUp(s, t) : IF DueAt(s, t) THEN ~HasCreated(n, s, t) ELSE WillCreate(n, s, t)}

Tally(s, t) ==
  LET servers == Cardinality(CaughtUp(s, t)) IN
  2 * triggered[s][t] + 2 * Cardinality(Ready(s, t)) <= servers * (servers + 1) + 2 * failures

SchedulesInv ==
  /\ SchedulesTyped
  /\ \A s \in Schedules : RowFollowsApi(s)
  /\ \A n \in Nodes : HasRead(n)
  /\ \A s \in Schedules \ irregular : \A t \in Times : Tally(s, t)

(* A set of numbers that is not empty has a least one.                     *)
LEMMA LowestNumber ==
  ASSUME NEW S \in SUBSET Nat, S # {} PROVE \E m \in S : \A o \in S : m <= o
<1>1. IsWellFoundedOn(OpToRel(<, Nat), Nat)
  BY NatLessThanWellFounded
<1>2. PICK m \in S : \A o \in S : ~(<<o, m>> \in OpToRel(<, Nat))
  BY <1>1, WFMin, Zenon
<1>3. \A o \in S : ~(o < m)
  BY <1>2 DEF OpToRel
<1> QED
  BY <1>3

(* What the assumption says of the times.                                  *)
LEMMA TimeBounds ==
  /\ Never \in Nat \ {0} /\ Unknown = Never + 1 /\ Times = 0..(Never - 1)
  /\ MaxFailures \in Nat /\ Schedules \subseteq Nat /\ IsFiniteSet(Nodes)
  /\ Times \subseteq Nat /\ 0 \in Times /\ Unknown \notin Times /\ Never \notin Times
<1>1. HourLength \in Nat \ {0} /\ HourCount \in Nat \ {0}
  BY SchedulesAssumption
<1>2. \A m, n \in Nat \ {0} : m * n \in Nat \ {0}
  OBVIOUS
<1>3. Never \in Nat \ {0}
  BY <1>1, <1>2 DEF Never
<1> QED
  BY <1>3, SchedulesAssumption DEF Times, Unknown

(* The next run is later, and known where croniter accepts the expression. *)
LEMMA NextRun ==
  ASSUME NEW t \in Times, NEW e
  PROVE  /\ NextCronTime(t, e) \in Times \cup {Never, Unknown}
         /\ CroniterAccepts(e) => NextCronTime(t, e) # Unknown /\ NextCronTime(t, e) > t
<1>1. PICK later : later = {u \in Times : u > t /\ CronMatches(u, e)}
  OBVIOUS
<1>2. NextCronTime(t, e) = IF ~CroniterAccepts(e) THEN Unknown
                           ELSE IF later = {} THEN Never
                           ELSE CHOOSE u \in later : \A v \in later : u <= v
  BY <1>1 DEF NextCronTime
<1>3. CASE ~CroniterAccepts(e)
  BY <1>2, <1>3
<1>4. CASE CroniterAccepts(e) /\ later = {}
  BY <1>2, <1>4, TimeBounds
<1>5. CASE CroniterAccepts(e) /\ later # {}
  <2>1. later \in SUBSET Nat
    BY <1>1, TimeBounds
  <2>2. \E u \in later : \A v \in later : u <= v
    BY <1>5, <2>1, LowestNumber
  <2>3. NextCronTime(t, e) \in later
    BY <1>2, <1>5, <2>2
  <2> QED
    BY <1>1, <2>3, TimeBounds
<1> QED
  BY <1>3, <1>4, <1>5

(* The row that a server is at. *)
LEMMA FirstDue ==
  ASSUME NEW n, iteration[n].due \in SUBSET Dues, iteration[n].due # {}
  PROVE  First(n) \in iteration[n].due /\ First(n)[1] \in Schedules /\ First(n)[2] \in Expressions
<1>1. PICK due \in SUBSET Dues : due = iteration[n].due
  OBVIOUS
<1>2. PICK ids : ids = {d[1] : d \in due}
  OBVIOUS
<1>3. ids \in SUBSET Nat /\ ids # {}
  BY <1>1, <1>2, TimeBounds DEF Dues
<1>4. PICK m \in ids : \A o \in ids : m <= o
  BY <1>3, LowestNumber
<1>5. \E d \in due : \A e \in due : d[1] <= e[1]
  BY <1>2, <1>4
<1>6. First(n) \in due
  BY <1>1, <1>5 DEF First
<1> QED
  BY <1>1, <1>6 DEF Dues

(* The invariant implies the types.                                        *)
LEMMA SchedulesTypes == SchedulesInv => SchedulesTypeOK
<1> SUFFICES ASSUME SchedulesInv PROVE SchedulesTypeOK
  OBVIOUS
<1>1. \A n \in Nodes : /\ iteration[n].pc \in {"asleep", "scan", "update", "error"}
                       /\ iteration[n].now \in Times
                       /\ \A d \in iteration[n].due : d \in Schedules \X Expressions
  <2> TAKE n \in Nodes
  <2>1. iteration[n] \in IterationStates
    BY DEF SchedulesInv, SchedulesTyped
  <2> QED
    BY <2>1 DEF IterationStates, Dues
<1> QED
  BY <1>1 DEF SchedulesInv, SchedulesTyped, SchedulesTypeOK, RowStates

-----------------------------------------------------------------------------
(* Counting. *)

(* Sets of servers are finite, and larger sets have more of them.          *)
LEMMA SetsOfServers ==
  /\ \A S \in SUBSET Nodes : IsFiniteSet(S) /\ Cardinality(S) \in Nat
  /\ \A R, S \in SUBSET Nodes : R \subseteq S => Cardinality(R) <= Cardinality(S)
  /\ \A R, S \in SUBSET Nodes : R \subseteq S /\ R # S => Cardinality(R) < Cardinality(S)
  /\ \A S \in SUBSET Nodes, n \in Nodes :
       Cardinality(S \cup {n}) <= Cardinality(S) + 1
<1>1. \A S \in SUBSET Nodes : IsFiniteSet(S) /\ Cardinality(S) \in Nat
  BY TimeBounds, FS_Subset, FS_CardinalityType
<1>2. \A R, S \in SUBSET Nodes : R \subseteq S => Cardinality(R) <= Cardinality(S)
  BY <1>1, FS_Subset
<1>3. \A R, S \in SUBSET Nodes : R \subseteq S /\ R # S => Cardinality(R) < Cardinality(S)
  BY <1>1, FS_Subset
<1>4. ASSUME NEW S \in SUBSET Nodes, NEW n \in Nodes
      PROVE  Cardinality(S \cup {n}) <= Cardinality(S) + 1
  <2>1. CASE n \in S
    <3>1. S \cup {n} = S
      BY <2>1
    <3> QED
      BY <1>1, <3>1
  <2>2. CASE n \notin S
    BY <1>1, <2>2, FS_AddElement
  <2> QED
    BY <2>1, <2>2
<1> QED
  BY <1>1, <1>2, <1>3, <1>4

(* The step of the count: the servers that may still trigger are fewer,    *)
(* and what was triggered grew by no more than they were.                  *)
LEMMA Triangle ==
  ASSUME NEW c \in Nat, NEW d \in Nat, NEW q \in Nat, NEW r \in Nat, NEW s \in Nat,
         NEW m \in Nat, NEW o \in Nat,
         2 * q + 2 * r <= c * (c + 1) + 2 * m, c < d, s <= d, m <= o
  PROVE  2 * q + 2 * s <= d * (d + 1) + 2 * o
<1>1. PICK k \in Nat : d = c + 1 + k
  <2>1. d - c - 1 \in Nat /\ d = c + 1 + (d - c - 1)
    OBVIOUS
  <2> QED
    BY <2>1
<1>2. d * (d + 1) = (d - 1) * d + 2 * d
  OBVIOUS
<1>3. c * (c + 1) <= (d - 1) * d
  <2>1. (d - 1) * d = (c + k) * (c + 1 + k)
    BY <1>1
  <2>2. (c + k) * (c + 1 + k) = c * (c + 1) + k * (c + c + 1 + k)
    OBVIOUS
  <2>3. k * (c + c + 1 + k) \in Nat
    OBVIOUS
  <2> QED
    BY <2>1, <2>2, <2>3
<1>4. c * (c + 1) \in Nat /\ d * (d + 1) \in Nat /\ (d - 1) * d \in Int
  OBVIOUS
<1> QED
  BY <1>2, <1>3, <1>4

(* The bound grows with the number of servers.                             *)
LEMMA Grows ==
  ASSUME NEW c \in Nat, NEW d \in Nat, c <= d PROVE c * (c + 1) <= d * (d + 1)
<1>1. c * (c + 1) \in Nat /\ d * (d + 1) \in Nat
  OBVIOUS
<1>2. CASE c = d
  BY <1>1, <1>2
<1>3. CASE c < d
  <2>2. PICK k \in Nat : d = c + k
    <3>1. d - c \in Nat /\ d = c + (d - c)
      BY <1>3
    <3> QED
      BY <3>1
  <2>3. d * (d + 1) = c * (c + 1) + k * (c + c + 1 + k)
    BY <2>2
  <2>4. k * (c + c + 1 + k) \in Nat
    OBVIOUS
  <2> QED
    BY <1>1, <2>3, <2>4
<1> QED
  BY <1>2, <1>3

-----------------------------------------------------------------------------
(* Steps of one server. *)

(* What a server will do for a minute depends on its own iteration alone.  *)
LEMMA NodesUnmoved ==
  ASSUME NEW n, iteration'[n] = iteration[n], NEW s, NEW t
  PROVE  /\ Behind(n, s, t)' <=> Behind(n, s, t)
         /\ HasCreated(n, s, t)' <=> HasCreated(n, s, t)
         /\ WillCreate(n, s, t)' <=> WillCreate(n, s, t)
<1>1. First(n)' = First(n)
  BY DEF First
<1> QED
  BY <1>1 DEF Behind, HasCreated, WillCreate, AtRow, Has

(* The count after a step in which n at most moves: n catches up; or it is *)
(* ready afterwards only if it was, or a failure is counted; or it creates *)
(* a job, and is not ready any more.                                       *)
LEMMA TallyKept ==
  ASSUME SchedulesInv, SchedulesTyped', NEW n \in Nodes,
         NEW s \in Schedules \ irregular, NEW t \in Times,
         minute' = minute, failures' >= failures,
         \A q \in Nodes \ {n} : iteration'[q] = iteration[q],
         n \in CaughtUp(s, t) => n \in CaughtUp(s, t)',
         \/ /\ triggered'[s][t] = triggered[s][t]
            /\ \/ t > minute
               \/ n \notin CaughtUp(s, t) /\ n \in CaughtUp(s, t)'
               \/ /\ DueAt(s, t)' => DueAt(s, t)
                  /\ n \in Ready(s, t)' => n \in Ready(s, t) \/ failures' = failures + 1
         \/ /\ triggered'[s][t] = triggered[s][t] + 1
            /\ DueAt(s, t)' => DueAt(s, t)
            /\ n \in Ready(s, t) /\ n \notin Ready(s, t)'
  PROVE  Tally(s, t)'
<1>1. PICK old \in SUBSET Nodes : old = CaughtUp(s, t)
  BY DEF CaughtUp
<1>2. PICK new \in SUBSET Nodes : new = CaughtUp(s, t)'
  BY DEF CaughtUp
<1>3. PICK oldReady \in SUBSET old : oldReady = Ready(s, t)
  BY <1>1 DEF Ready
<1>4. PICK newReady \in SUBSET new : newReady = Ready(s, t)'
  BY <1>2 DEF Ready
<1>5. /\ Cardinality(old) \in Nat /\ Cardinality(new) \in Nat
      /\ Cardinality(oldReady) \in Nat /\ Cardinality(newReady) \in Nat
      /\ Cardinality(newReady) <= Cardinality(new)
  BY SetsOfServers
<1>6. /\ triggered[s][t] \in Nat /\ triggered'[s][t] \in Nat
      /\ failures \in Nat /\ failures' \in Nat /\ minute \in Nat /\ t \in Nat
  BY TimeBounds DEF SchedulesInv, SchedulesTyped
<1>7. 2 * triggered[s][t] + 2 * Cardinality(oldReady)
        <= Cardinality(old) * (Cardinality(old) + 1) + 2 * failures
  BY <1>1, <1>3 DEF SchedulesInv, Tally
<1>8. SUFFICES 2 * triggered'[s][t] + 2 * Cardinality(newReady)
                 <= Cardinality(new) * (Cardinality(new) + 1) + 2 * failures'
  BY <1>2, <1>4 DEF Tally
<1>9. \A q \in Nodes \ {n} : q \in old <=> q \in new
  BY <1>1, <1>2, NodesUnmoved DEF CaughtUp
<1>10. Cardinality(old) * (Cardinality(old) + 1) \in Nat
  BY <1>5
<1>11. CASE triggered'[s][t] = triggered[s][t] /\ t > minute
  <2>1. old = {} /\ new = {}
    BY <1>1, <1>2, <1>6, <1>11 DEF CaughtUp
  <2>2. oldReady = {} /\ newReady = {}
    BY <2>1
  <2>3. Cardinality(new) = Cardinality(old) /\ Cardinality(newReady) = Cardinality(oldReady)
    BY <2>1, <2>2
  <2> QED
    BY <1>5, <1>6, <1>7, <1>10, <1>11, <2>3
<1>12. CASE triggered'[s][t] = triggered[s][t]
            /\ n \notin CaughtUp(s, t) /\ n \in CaughtUp(s, t)'
  <2>1. old \subseteq new /\ old # new
    BY <1>1, <1>2, <1>9, <1>12
  <2>2. Cardinality(old) < Cardinality(new)
    BY <2>1, SetsOfServers
  <2> QED
    BY <1>5, <1>6, <1>7, <1>12, <2>2, Triangle
<1>13. ASSUME DueAt(s, t)' => DueAt(s, t)
       PROVE  newReady \subseteq oldReady \cup {n} /\ (n \in oldReady => newReady \subseteq oldReady)
  <2>1. ASSUME NEW q \in newReady, q # n PROVE q \in oldReady
    <3>1. q \in new /\ q \in old /\ q \in Nodes
      BY <1>9, <2>1
    <3>2. IF DueAt(s, t)' THEN ~HasCreated(q, s, t)' ELSE WillCreate(q, s, t)'
      BY <1>4 DEF Ready
    <3>3. iteration'[q] = iteration[q]
      BY <2>1, <3>1
    <3>4. IF DueAt(s, t)' THEN ~HasCreated(q, s, t) ELSE WillCreate(q, s, t)
      BY <3>2, <3>3, NodesUnmoved
    <3>5. IF DueAt(s, t) THEN ~HasCreated(q, s, t) ELSE WillCreate(q, s, t)
      BY <1>13, <3>4 DEF WillCreate, HasCreated
    <3> QED
      BY <1>1, <1>3, <3>1, <3>5 DEF Ready
  <2> QED
    BY <2>1
<1>14. CASE /\ triggered'[s][t] = triggered[s][t]
            /\ ~(n \notin CaughtUp(s, t) /\ n \in CaughtUp(s, t)')
            /\ DueAt(s, t)' => DueAt(s, t)
            /\ n \in Ready(s, t)' => n \in Ready(s, t) \/ failures' = failures + 1
  <2>1. new = old
    BY <1>1, <1>2, <1>9, <1>14
  <2>2. CASE newReady \subseteq oldReady
    <3>1. Cardinality(newReady) <= Cardinality(oldReady)
      BY <2>2, SetsOfServers
    <3> QED
      BY <1>5, <1>6, <1>7, <1>10, <1>14, <2>1, <3>1
  <2>3. CASE ~(newReady \subseteq oldReady)
    <3>1. n \in newReady /\ n \notin oldReady /\ newReady \subseteq oldReady \cup {n}
      BY <1>13, <1>14, <2>3
    <3>2. failures' = failures + 1
      BY <1>3, <1>4, <1>14, <3>1
    <3>3. Cardinality(newReady) <= Cardinality(oldReady \cup {n})
          /\ Cardinality(oldReady \cup {n}) <= Cardinality(oldReady) + 1
          /\ Cardinality(oldReady \cup {n}) \in Nat
      BY <3>1, SetsOfServers
    <3> QED
      BY <1>5, <1>6, <1>7, <1>10, <1>14, <2>1, <3>2, <3>3
  <2> QED
    BY <2>2, <2>3
<1>15. CASE /\ triggered'[s][t] = triggered[s][t] + 1
            /\ DueAt(s, t)' => DueAt(s, t)
            /\ n \in Ready(s, t) /\ n \notin Ready(s, t)'
  <2>1. n \in old /\ n \in new /\ n \in oldReady /\ n \notin newReady
    BY <1>1, <1>2, <1>3, <1>4, <1>15
  <2>2. new = old
    BY <1>9, <2>1
  <2>3. newReady \subseteq oldReady /\ newReady # oldReady
    BY <1>13, <1>15, <2>1
  <2>4. Cardinality(newReady) < Cardinality(oldReady)
    BY <2>3, SetsOfServers
  <2> QED
    BY <1>5, <1>6, <1>7, <1>10, <1>15, <2>2, <2>4
<1> QED
  BY <1>11, <1>12, <1>14, <1>15

(* What a server does with the rows it has read leaves it rows it has read. *)
LEMMA ReadsKept ==
  ASSUME SchedulesInv, NEW n \in Nodes, NEW new \in IterationStates,
         iteration' = [iteration EXCEPT ![n] = new],
         minute' = minute, irregular' = irregular,
         new.pc # "asleep" => new.due # {},
         new.now <= minute, EachOnce(new.due),
         \A d \in new.due : /\ schedule[d[1]].state # "absent"
                            /\ d[1] \notin irregular => CroniterAccepts(d[2]),
         \A r \in Schedules : schedule'[r].state = "absent" => schedule[r].state = "absent"
  PROVE  /\ iteration' \in [Nodes -> IterationStates]
         /\ iteration'[n] = new /\ \A q \in Nodes \ {n} : iteration'[q] = iteration[q]
         /\ \A q \in Nodes : HasRead(q)'
<1>1. iteration \in [Nodes -> IterationStates]
  BY DEF SchedulesInv, SchedulesTyped
<1>2. iteration' \in [Nodes -> IterationStates] /\ iteration'[n] = new
      /\ \A q \in Nodes \ {n} : iteration'[q] = iteration[q]
  BY <1>1
<1>3. ASSUME NEW q \in Nodes PROVE HasRead(q)'
  <2>1. PICK it \in IterationStates : it = iteration'[q]
    BY <1>2
  <2>2. /\ it.pc # "asleep" => it.due # {}
        /\ it.now <= minute
        /\ EachOnce(it.due)
        /\ \A d \in it.due : /\ schedule[d[1]].state # "absent"
                             /\ d[1] \notin irregular => CroniterAccepts(d[2])
    <3>1. CASE q = n
      BY <1>2, <2>1, <3>1
    <3>2. CASE q # n
      <4>1. HasRead(q) /\ it = iteration[q]
        BY <1>2, <2>1, <3>2 DEF SchedulesInv
      <4> QED
        BY <4>1 DEF HasRead
    <3> QED
      BY <3>1, <3>2
  <2>3. \A d \in it.due : d[1] \in Schedules
    BY DEF IterationStates, Dues
  <2>4. \A d \in it.due : schedule'[d[1]].state # "absent"
    BY <2>2, <2>3
  <2> QED
    BY <2>1, <2>2, <2>4 DEF HasRead
<1> QED
  BY <1>2, <1>3

(* To sleep. *)
LEMMA SleepMoves ==
  ASSUME SchedulesInv, NEW n \in Nodes, Sleeps(n),
         minute' = minute, irregular' = irregular,
         \A r \in Schedules : schedule'[r].state = "absent" => schedule[r].state = "absent"
  PROVE  /\ iteration' \in [Nodes -> IterationStates]
         /\ \A q \in Nodes \ {n} : iteration'[q] = iteration[q]
         /\ \A q \in Nodes : HasRead(q)'
         /\ iteration'[n].pc = "asleep" /\ iteration'[n].due = {}
<1>1. Idle \in IterationStates /\ Idle.due = {} /\ Idle.pc = "asleep" /\ Idle.now = 0
  BY TimeBounds DEF Idle, IterationStates
<1>2. 0 <= minute
  BY TimeBounds DEF SchedulesInv, SchedulesTyped
<1>3. PICK new \in IterationStates : new = Idle
  BY <1>1
<1>4. EachOnce(new.due) /\ iteration' = [iteration EXCEPT ![n] = new]
  BY <1>1, <1>3 DEF EachOnce, Sleeps
<1>5. /\ iteration' \in [Nodes -> IterationStates]
      /\ iteration'[n] = new /\ \A q \in Nodes \ {n} : iteration'[q] = iteration[q]
      /\ \A q \in Nodes : HasRead(q)'
  BY <1>1, <1>2, <1>3, <1>4, ReadsKept
<1> QED
  BY <1>1, <1>3, <1>5

(* To sleep, or on to the rows that are left. *)
LEMMA AdvanceMoves ==
  ASSUME SchedulesInv, NEW n \in Nodes, iteration[n].pc # "asleep", Advances(n),
         minute' = minute, irregular' = irregular,
         \A r \in Schedules : schedule'[r].state = "absent" => schedule[r].state = "absent"
  PROVE  /\ iteration' \in [Nodes -> IterationStates]
         /\ \A q \in Nodes \ {n} : iteration'[q] = iteration[q]
         /\ \A q \in Nodes : HasRead(q)'
         /\ iteration'[n].pc \in {"asleep", "scan"}
         /\ iteration'[n].pc # "asleep" => iteration'[n].now = iteration[n].now
         /\ iteration'[n].due \subseteq iteration[n].due \ {First(n)}
<1>1. PICK it \in IterationStates : it = iteration[n]
  BY DEF SchedulesInv, SchedulesTyped
<1>2. HasRead(n) /\ it.due \in SUBSET Dues /\ it.due # {}
  BY <1>1 DEF SchedulesInv, HasRead, IterationStates
<1>3. PICK d \in it.due : d = First(n)
  BY <1>1, <1>2, FirstDue
<1>4. PICK rest \in SUBSET Dues : rest = it.due \ {d}
  BY <1>2
<1>5. CASE rest = {}
  <2>1. Sleeps(n)
    BY <1>1, <1>3, <1>4, <1>5 DEF Advances
  <2> QED
    BY <2>1, SleepMoves
<1>6. CASE rest # {}
  <2>1. PICK new : new = [[it EXCEPT !.pc = "scan"] EXCEPT !.due = rest]
    OBVIOUS
  <2>2. new \in IterationStates /\ new.pc = "scan" /\ new.due = rest /\ new.now = it.now
    BY <2>1 DEF IterationStates
  <2>3. iteration' = [iteration EXCEPT ![n].pc = "scan", ![n].due = rest]
    BY <1>1, <1>3, <1>4, <1>6 DEF Advances
  <2>4. iteration' = [iteration EXCEPT ![n] = new]
    BY <1>1, <2>1, <2>3 DEF SchedulesInv, SchedulesTyped
  <2>5. EachOnce(new.due)
    BY <1>1, <1>2, <1>4, <2>2 DEF HasRead, EachOnce
  <2>6. \A e \in new.due : /\ schedule[e[1]].state # "absent"
                           /\ e[1] \notin irregular => CroniterAccepts(e[2])
    BY <1>1, <1>2, <1>4, <2>2 DEF HasRead
  <2>7. new.now <= minute
    BY <1>1, <1>2, <2>2 DEF HasRead
  <2>8. /\ iteration' \in [Nodes -> IterationStates]
        /\ iteration'[n] = new /\ \A q \in Nodes \ {n} : iteration'[q] = iteration[q]
        /\ \A q \in Nodes : HasRead(q)'
    BY <1>6, <2>2, <2>4, <2>5, <2>6, <2>7, ReadsKept
  <2> QED
    BY <1>1, <1>3, <1>4, <2>2, <2>8
<1> QED
  BY <1>5, <1>6

(* To another place with the same rows. *)
LEMMA PlaceMoves ==
  ASSUME SchedulesInv, NEW n \in Nodes, iteration[n].pc # "asleep",
         NEW pc \in {"update", "error"}, iteration' = [iteration EXCEPT ![n].pc = pc],
         minute' = minute, irregular' = irregular,
         \A r \in Schedules : schedule'[r].state = "absent" => schedule[r].state = "absent"
  PROVE  /\ iteration' \in [Nodes -> IterationStates]
         /\ \A q \in Nodes \ {n} : iteration'[q] = iteration[q]
         /\ \A q \in Nodes : HasRead(q)'
         /\ iteration'[n].pc = pc
         /\ iteration'[n].now = iteration[n].now /\ iteration'[n].due = iteration[n].due
         /\ First(n)' = First(n)
<1>1. PICK it \in IterationStates : it = iteration[n]
  BY DEF SchedulesInv, SchedulesTyped
<1>2. HasRead(n)
  BY DEF SchedulesInv
<1>3. PICK new : new = [it EXCEPT !.pc = pc]
  OBVIOUS
<1>4. new \in IterationStates /\ new.pc = pc /\ new.due = it.due /\ new.now = it.now
  BY <1>3 DEF IterationStates
<1>5. iteration' = [iteration EXCEPT ![n] = new]
  BY <1>1, <1>3
<1>6. /\ iteration' \in [Nodes -> IterationStates]
      /\ iteration'[n] = new /\ \A q \in Nodes \ {n} : iteration'[q] = iteration[q]
      /\ \A q \in Nodes : HasRead(q)'
  BY <1>1, <1>2, <1>4, <1>5, ReadsKept DEF HasRead
<1>7. First(n)' = First(n)
  BY <1>1, <1>4, <1>6 DEF First
<1> QED
  BY <1>1, <1>4, <1>6, <1>7

-----------------------------------------------------------------------------
(* The loop's steps. *)

(* A server wakes up and reads the enabled rows and the time.              *)
LEMMA WakeKeeps == ASSUME SchedulesInv, NEW n \in Nodes, Wake(n) PROVE SchedulesInv'
<1>1. PICK new : new = [pc |-> "scan", now |-> minute,
                        due |-> {<<r, schedule[r].expression>> : r \in Due}]
  OBVIOUS
<1>2. /\ iteration[n].pc = "asleep" /\ Due # {} /\ iteration' = [iteration EXCEPT ![n] = new]
      /\ UNCHANGED <<minute, schedule, triggered, irregular, failures>>
  BY <1>1 DEF Wake
<1>3. \A r \in Due : /\ r \in Schedules /\ schedule[r].state = "enabled"
                     /\ schedule[r].next \in 0..minute \cup {Unknown}
                     /\ schedule[r].expression \in Expressions
                     /\ r \notin irregular => CroniterAccepts(schedule[r].expression)
  BY DEF Due, SchedulesInv, RowFollowsApi, Exists
<1>4. PICK due : due = {<<r, schedule[r].expression>> : r \in Due}
  OBVIOUS
<1>5. due \in SUBSET Dues /\ due # {}
  <2>1. \A r \in Due : <<r, schedule[r].expression>> \in Dues
    BY <1>3 DEF Dues
  <2>2. due \in SUBSET Dues
    BY <1>4, <2>1
  <2>3. PICK r \in Due : TRUE
    BY <1>2
  <2>4. <<r, schedule[r].expression>> \in due
    BY <1>4, <2>3
  <2> QED
    BY <2>2, <2>4
<1>6. \A d \in due : d[1] \in Due /\ d[2] = schedule[d[1]].expression /\ d = <<d[1], d[2]>>
  BY <1>4
<1>7. new = [pc |-> "scan", now |-> minute, due |-> due]
  BY <1>1, <1>4
<1>8. new \in IterationStates /\ new.pc = "scan" /\ new.now = minute /\ new.due = due
  BY <1>5, <1>7 DEF SchedulesInv, SchedulesTyped, IterationStates
<1>9. EachOnce(new.due)
  BY <1>6, <1>8 DEF EachOnce
<1>10. \A d \in new.due : /\ schedule[d[1]].state # "absent"
                          /\ d[1] \notin irregular => CroniterAccepts(d[2])
  BY <1>3, <1>6, <1>8
<1>11. new.now <= minute
  BY <1>8, TimeBounds DEF SchedulesInv, SchedulesTyped
<1>12. /\ iteration' \in [Nodes -> IterationStates]
       /\ iteration'[n] = new /\ \A q \in Nodes \ {n} : iteration'[q] = iteration[q]
       /\ \A q \in Nodes : HasRead(q)'
  BY <1>2, <1>5, <1>8, <1>9, <1>10, <1>11, ReadsKept
<1>13. SchedulesTyped'
  BY <1>2, <1>12 DEF SchedulesInv, SchedulesTyped
<1>14. \A r \in Schedules : RowFollowsApi(r)'
  BY <1>2 DEF SchedulesInv, RowFollowsApi, Exists
<1>15. ASSUME NEW s \in Schedules \ irregular, NEW t \in Times PROVE Tally(s, t)'
  <2>1. minute \in Nat /\ t \in Nat /\ failures \in Nat
    BY TimeBounds DEF SchedulesInv, SchedulesTyped
  <2>2. triggered'[s][t] = triggered[s][t] /\ (DueAt(s, t)' <=> DueAt(s, t))
    BY <1>2 DEF DueAt
  <2>3. n \in CaughtUp(s, t) => n \in CaughtUp(s, t)'
    BY <1>2, <1>8, <1>12, <2>1 DEF CaughtUp, Behind
  <2>4. ASSUME t <= minute, n \in Ready(s, t)' PROVE n \in Ready(s, t)
    <3>1. n \in CaughtUp(s, t)
      BY <1>2, <2>4 DEF CaughtUp, Behind
    <3>2. CASE DueAt(s, t)
      BY <1>2, <3>1, <3>2 DEF Ready, HasCreated, AtRow
    <3>3. CASE ~DueAt(s, t)
      <4>1. WillCreate(n, s, t)'
        BY <2>2, <2>4, <3>3 DEF Ready
      <4>2. minute = t /\ \E d \in due : d[1] = s
        BY <1>8, <1>12, <4>1 DEF WillCreate, Has
      <4>3. s \in Due
        BY <1>6, <4>2
      <4>4. DueAt(s, t)
        BY <1>3, <4>2, <4>3 DEF DueAt
      <4> QED
        BY <3>3, <4>4
    <3> QED
      BY <3>2, <3>3
  <2>5. t > minute \/ t <= minute
    BY <2>1
  <2> QED
    BY <1>2, <1>12, <1>13, <2>1, <2>2, <2>3, <2>4, <2>5, TallyKept
<1> QED
  BY <1>2, <1>12, <1>13, <1>14, <1>15 DEF SchedulesInv

(* The row at hand is behind the server, whichever step this is. *)
LEMMA GoingOn ==
  ASSUME SchedulesInv, NEW n \in Nodes, NEW s, NEW t, t \in Nat, minute' = minute,
         iteration[n].pc # "asleep" \/ iteration'[n].pc = "asleep",
         iteration'[n].pc # "asleep" => iteration'[n].now = iteration[n].now,
         iteration'[n].due \subseteq iteration[n].due
  PROVE  n \in CaughtUp(s, t) => n \in CaughtUp(s, t)'
BY DEF CaughtUp, Behind, Has

(* It finds that a schedule does not match the minute.                     *)
LEMMA SkipKeeps == ASSUME SchedulesInv, NEW n \in Nodes, Skip(n) PROVE SchedulesInv'
<1>1. /\ iteration[n].pc = "scan" /\ Advances(n)
      /\ UNCHANGED <<minute, schedule, triggered, irregular, failures>>
  BY DEF Skip
<1>2. /\ iteration' \in [Nodes -> IterationStates]
      /\ \A q \in Nodes \ {n} : iteration'[q] = iteration[q]
      /\ \A q \in Nodes : HasRead(q)'
      /\ iteration'[n].pc \in {"asleep", "scan"}
      /\ iteration'[n].pc # "asleep" => iteration'[n].now = iteration[n].now
      /\ iteration'[n].due \subseteq iteration[n].due \ {First(n)}
  BY <1>1, AdvanceMoves
<1>3. SchedulesTyped'
  BY <1>1, <1>2 DEF SchedulesInv, SchedulesTyped
<1>4. \A r \in Schedules : RowFollowsApi(r)'
  BY <1>1 DEF SchedulesInv, RowFollowsApi, Exists
<1>5. ASSUME NEW s \in Schedules \ irregular, NEW t \in Times PROVE Tally(s, t)'
  <2>1. t \in Nat /\ failures \in Nat
    BY TimeBounds DEF SchedulesInv, SchedulesTyped
  <2>2. triggered'[s][t] = triggered[s][t] /\ (DueAt(s, t)' <=> DueAt(s, t)) /\ failures' >= failures
    BY <1>1, <2>1 DEF DueAt
  <2>3. n \in CaughtUp(s, t) => n \in CaughtUp(s, t)'
    BY <1>1, <1>2, <2>1, GoingOn
  <2>4. ASSUME n \in CaughtUp(s, t), n \in Ready(s, t)' PROVE n \in Ready(s, t)
    BY <1>1, <1>2, <2>2, <2>4 DEF Ready, HasCreated, WillCreate, AtRow, Has
  <2>5. n \in Ready(s, t)' => n \in CaughtUp(s, t)'
    BY DEF Ready
  <2> QED
    BY <1>1, <1>2, <1>3, <2>1, <2>2, <2>3, <2>4, <2>5, TallyKept
<1> QED
  BY <1>1, <1>2, <1>3, <1>4, <1>5 DEF SchedulesInv

(* A step that only counts a failure. *)
LEMMA FailureTallied ==
  ASSUME SchedulesInv, SchedulesTyped', NEW n \in Nodes,
         iteration[n].pc # "asleep",
         \A q \in Nodes \ {n} : iteration'[q] = iteration[q],
         iteration'[n].pc # "asleep" => iteration'[n].now = iteration[n].now,
         iteration'[n].due \subseteq iteration[n].due,
         UNCHANGED <<minute, schedule, triggered, irregular>>, failures' = failures + 1,
         NEW s \in Schedules \ irregular, NEW t \in Times
  PROVE  Tally(s, t)'
<1>1. t \in Nat /\ failures \in Nat
  BY TimeBounds DEF SchedulesInv, SchedulesTyped
<1>2. triggered'[s][t] = triggered[s][t] /\ (DueAt(s, t)' <=> DueAt(s, t)) /\ failures' >= failures
  BY <1>1 DEF DueAt
<1>3. n \in CaughtUp(s, t) => n \in CaughtUp(s, t)'
  BY <1>1, GoingOn
<1> QED
  BY <1>1, <1>2, <1>3, TallyKept

(* It finds that one does, and creates a job, or fails to.                 *)
LEMMA TriggerKeeps == ASSUME SchedulesInv, NEW n \in Nodes, Trigger(n) PROVE SchedulesInv'
<1>1. iteration[n].pc = "scan" /\ UNCHANGED <<minute, schedule, irregular>>
  BY DEF Trigger
<1>2. \A r \in Schedules : RowFollowsApi(r)'
  BY <1>1 DEF SchedulesInv, RowFollowsApi, Exists
<1>3. HasRead(n) /\ iteration[n] \in IterationStates
  BY DEF SchedulesInv, SchedulesTyped
<1>4. First(n) \in iteration[n].due /\ First(n)[1] \in Schedules /\ iteration[n].now \in Times
  BY <1>1, <1>3, FirstDue DEF HasRead, IterationStates
<1>5. CASE /\ failures < MaxFailures /\ failures' = failures + 1
           /\ iteration' = [iteration EXCEPT ![n].pc = "error"]
           /\ UNCHANGED triggered
  <2>1. /\ iteration' \in [Nodes -> IterationStates]
        /\ \A q \in Nodes \ {n} : iteration'[q] = iteration[q]
        /\ \A q \in Nodes : HasRead(q)'
        /\ iteration'[n].now = iteration[n].now /\ iteration'[n].due = iteration[n].due
    BY <1>1, <1>5, PlaceMoves
  <2>2. failures' \in 0..MaxFailures
    BY <1>5, TimeBounds DEF SchedulesInv, SchedulesTyped
  <2>3. SchedulesTyped'
    BY <1>1, <1>5, <2>1, <2>2 DEF SchedulesInv, SchedulesTyped
  <2>4. \A s \in Schedules \ irregular : \A t \in Times : Tally(s, t)'
    BY <1>1, <1>5, <2>1, <2>3, FailureTallied
  <2> QED
    BY <1>1, <1>2, <2>1, <2>3, <2>4 DEF SchedulesInv
<1>6. CASE /\ triggered' = IF First(n)[1] \in irregular THEN triggered
                           ELSE [triggered EXCEPT ![First(n)[1]][iteration[n].now] = @ + 1]
           /\ iteration' = [iteration EXCEPT ![n].pc = "update"]
           /\ UNCHANGED failures
  <2>1. /\ iteration' \in [Nodes -> IterationStates]
        /\ \A q \in Nodes \ {n} : iteration'[q] = iteration[q]
        /\ \A q \in Nodes : HasRead(q)'
        /\ iteration'[n].pc = "update"
        /\ iteration'[n].now = iteration[n].now /\ iteration'[n].due = iteration[n].due
        /\ First(n)' = First(n)
    BY <1>1, <1>6, PlaceMoves
  <2>2. triggered' \in [Schedules -> [Times -> Nat]]
    BY <1>4, <1>6 DEF SchedulesInv, SchedulesTyped
  <2>3. SchedulesTyped'
    BY <1>1, <1>6, <2>1, <2>2 DEF SchedulesInv, SchedulesTyped
  <2>4. ASSUME NEW s \in Schedules \ irregular, NEW t \in Times PROVE Tally(s, t)'
    <3>1. t \in Nat /\ failures \in Nat /\ failures' >= failures /\ minute \in Nat
      BY <1>6, TimeBounds DEF SchedulesInv, SchedulesTyped
    <3>2. DueAt(s, t)' <=> DueAt(s, t)
      BY <1>1 DEF DueAt
    <3>3. n \in CaughtUp(s, t) => n \in CaughtUp(s, t)'
      BY <1>1, <2>1, <3>1, GoingOn
    <3>4. n \in CaughtUp(s, t)' => n \in CaughtUp(s, t)
      BY <1>1, <2>1 DEF CaughtUp, Behind, Has
    <3>5. n \in Ready(s, t)' => n \in Ready(s, t)
      BY <1>1, <2>1, <3>2, <3>4 DEF Ready, HasCreated, WillCreate, AtRow, Has
    <3>6. CASE First(n)[1] = s /\ iteration[n].now = t
      <4>1. triggered'[s][t] = triggered[s][t] + 1
        BY <1>4, <1>6, <3>6 DEF SchedulesInv, SchedulesTyped
      <4>2. n \in CaughtUp(s, t)
        BY <1>3, <3>1, <3>6 DEF CaughtUp, Behind, HasRead
      <4>3. n \in Ready(s, t)
        BY <1>1, <1>4, <3>6, <4>2 DEF Ready, HasCreated, WillCreate, AtRow, Has
      <4>4. n \notin Ready(s, t)'
        BY <2>1, <3>6 DEF Ready, HasCreated, WillCreate, AtRow
      <4> QED
        BY <1>1, <2>1, <2>3, <3>1, <3>2, <3>3, <4>1, <4>3, <4>4, TallyKept
    <3>7. CASE ~(First(n)[1] = s /\ iteration[n].now = t)
      <4>1. triggered'[s][t] = triggered[s][t]
        BY <1>4, <1>6, <3>7 DEF SchedulesInv, SchedulesTyped
      <4> QED
        BY <1>1, <2>1, <2>3, <3>1, <3>2, <3>3, <3>5, <4>1, TallyKept
    <3> QED
      BY <3>6, <3>7
  <2> QED
    BY <1>1, <1>2, <2>1, <2>3, <2>4 DEF SchedulesInv
<1> QED
  BY <1>5, <1>6 DEF Trigger

(* It records the run, or fails to.                                        *)
LEMMA RecordKeeps == ASSUME SchedulesInv, NEW n \in Nodes, RecordRun(n) PROVE SchedulesInv'
<1>1. iteration[n].pc \in {"update", "error"} /\ UNCHANGED <<minute, triggered, irregular>>
  BY DEF RecordRun
<1>2. HasRead(n) /\ iteration[n] \in IterationStates
  BY DEF SchedulesInv, SchedulesTyped
<1>3. /\ First(n) \in iteration[n].due /\ First(n)[1] \in Schedules /\ iteration[n].now \in Times
      /\ iteration[n].now <= minute
  BY <1>1, <1>2, FirstDue DEF HasRead, IterationStates
<1>4. CASE RunRecorded(n) /\ Advances(n) /\ UNCHANGED failures
  <2>1. PICK row \in Schedules : row = First(n)[1]
    BY <1>3
  <2>2. PICK next \in Times \cup {Never, Unknown} : next = NextCronTime(iteration[n].now, First(n)[2])
    BY <1>3, NextRun
  <2>3. row \notin irregular => next # Unknown /\ next > iteration[n].now
    BY <1>2, <1>3, <2>1, <2>2, NextRun DEF HasRead
  <2>4. schedule' = IF next # Unknown /\ Exists(row)
                    THEN [schedule EXCEPT ![row].next = next] ELSE schedule
    BY <1>4, <2>1, <2>2 DEF RunRecorded
  <2>5. /\ schedule' \in [Schedules -> RowStates]
        /\ \A r \in Schedules : /\ schedule'[r].state = schedule[r].state
                                /\ schedule'[r].expression = schedule[r].expression
                                /\ r # row => schedule'[r] = schedule[r]
                                /\ schedule'[r].next # schedule[r].next => Exists(r)
        /\ next # Unknown /\ Exists(row) => schedule'[row].next = next
    <3>1. CASE next # Unknown /\ Exists(row)
      <4>1. PICK was \in RowStates : was = schedule[row]
        BY DEF SchedulesInv, SchedulesTyped
      <4>2. PICK is : is = [was EXCEPT !.next = next]
        OBVIOUS
      <4>3. is \in RowStates /\ is.state = was.state /\ is.expression = was.expression /\ is.next = next
        BY <4>2 DEF RowStates
      <4>4. schedule' = [schedule EXCEPT ![row] = is]
        BY <2>4, <3>1, <4>1, <4>2
      <4>5. schedule' \in [Schedules -> RowStates]
        BY <4>3, <4>4 DEF SchedulesInv, SchedulesTyped
      <4>6. schedule'[row] = is /\ \A r \in Schedules : r # row => schedule'[r] = schedule[r]
        BY <4>4 DEF SchedulesInv, SchedulesTyped
      <4> QED
        BY <3>1, <4>1, <4>3, <4>5, <4>6
    <3>2. CASE ~(next # Unknown /\ Exists(row))
      BY <2>4, <3>2 DEF SchedulesInv, SchedulesTyped
    <3> QED
      BY <3>1, <3>2
  <2>6. /\ iteration' \in [Nodes -> IterationStates]
        /\ \A q \in Nodes \ {n} : iteration'[q] = iteration[q]
        /\ \A q \in Nodes : HasRead(q)'
        /\ iteration'[n].pc \in {"asleep", "scan"}
        /\ iteration'[n].pc # "asleep" => iteration'[n].now = iteration[n].now
        /\ iteration'[n].due \subseteq iteration[n].due \ {First(n)}
    BY <1>1, <1>4, <2>5, AdvanceMoves
  <2>7. SchedulesTyped'
    BY <1>1, <1>4, <2>5, <2>6 DEF SchedulesInv, SchedulesTyped
  <2>8. \A r \in Schedules : RowFollowsApi(r)'
    <3> TAKE r \in Schedules
    <3>1. RowFollowsApi(r)
      BY DEF SchedulesInv
    <3> QED
      BY <1>1, <2>5, <3>1 DEF RowFollowsApi, Exists
  <2>9. ~Has(n, row)'
    BY <1>2, <1>3, <2>1, <2>6 DEF Has, HasRead, EachOnce
  <2>10. ASSUME NEW s \in Schedules \ irregular, NEW t \in Times PROVE Tally(s, t)'
    <3>1. t \in Nat /\ failures \in Nat /\ failures' >= failures /\ minute \in Nat
          /\ iteration[n].now \in Nat
      BY <1>3, <1>4, TimeBounds DEF SchedulesInv, SchedulesTyped
    <3>2. triggered'[s][t] = triggered[s][t]
      BY <1>1
    <3>3. n \in CaughtUp(s, t) => n \in CaughtUp(s, t)'
      BY <1>1, <2>6, <3>1, GoingOn
    <3>4. n \in Ready(s, t)' => n \in CaughtUp(s, t)'
      BY DEF Ready
    <3>5. CASE row # s
      <4>1. DueAt(s, t)' <=> DueAt(s, t)
        BY <2>5, <3>5 DEF DueAt
      <4>2. ASSUME n \in CaughtUp(s, t), n \in Ready(s, t)' PROVE n \in Ready(s, t)
        BY <1>1, <2>1, <2>6, <3>5, <4>1, <4>2 DEF Ready, HasCreated, WillCreate, AtRow, Has
      <4> QED
        BY <1>1, <2>6, <2>7, <3>1, <3>2, <3>3, <3>4, <4>1, <4>2, TallyKept
    <3>6. CASE row = s /\ iteration[n].now < t
      <4>1. t <= minute => n \notin CaughtUp(s, t) /\ n \in CaughtUp(s, t)'
        BY <1>1, <1>3, <2>1, <2>9, <3>1, <3>6 DEF CaughtUp, Behind, Has
      <4>2. t <= minute \/ t > minute
        BY <3>1
      <4> QED
        BY <1>1, <2>6, <2>7, <3>1, <3>2, <3>3, <4>1, <4>2, TallyKept
    <3>7. CASE row = s /\ ~(iteration[n].now < t)
      <4>1. next # Unknown /\ next > t
        BY <2>3, <3>1, <3>7, TimeBounds
      <4>2. schedule[s].state # "absent" /\ schedule[s] \in RowStates
        BY <1>2, <1>3, <2>1, <3>7 DEF HasRead, SchedulesInv, SchedulesTyped
      <4>3. ~DueAt(s, t)'
        <5>1. CASE Exists(s)
          BY <2>5, <3>1, <3>7, <4>1, <5>1, TimeBounds DEF DueAt
        <5>2. CASE ~Exists(s)
          BY <2>5, <4>2, <5>2 DEF DueAt, Exists, RowStates
        <5> QED
          BY <5>1, <5>2
      <4>4. n \notin Ready(s, t)'
        BY <2>9, <3>7, <4>3 DEF Ready, WillCreate, Has
      <4> QED
        BY <1>1, <2>6, <2>7, <3>1, <3>2, <3>3, <4>3, <4>4, TallyKept
    <3> QED
      BY <3>5, <3>6, <3>7
  <2> QED
    BY <1>1, <2>6, <2>7, <2>8, <2>10 DEF SchedulesInv
<1>5. CASE /\ failures < MaxFailures /\ failures' = failures + 1
           /\ IF iteration[n].pc = "update"
              THEN iteration' = [iteration EXCEPT ![n].pc = "error"] ELSE Sleeps(n)
           /\ UNCHANGED schedule
  <2>1. \A r \in Schedules : RowFollowsApi(r)'
    BY <1>1, <1>5 DEF SchedulesInv, RowFollowsApi, Exists
  <2>2. /\ iteration' \in [Nodes -> IterationStates]
        /\ \A q \in Nodes \ {n} : iteration'[q] = iteration[q]
        /\ \A q \in Nodes : HasRead(q)'
        /\ iteration'[n].pc # "asleep" => iteration'[n].now = iteration[n].now
        /\ iteration'[n].due \subseteq iteration[n].due
    <3>1. CASE iteration[n].pc = "update"
      <4>1. iteration' = [iteration EXCEPT ![n].pc = "error"]
        BY <1>5, <3>1
      <4> QED
        BY <1>1, <1>5, <4>1, PlaceMoves
    <3>2. CASE iteration[n].pc # "update"
      <4>1. Sleeps(n)
        BY <1>5, <3>2
      <4> QED
        BY <1>1, <1>5, <4>1, SleepMoves
    <3> QED
      BY <3>1, <3>2
  <2>3. failures' \in 0..MaxFailures
    BY <1>5, TimeBounds DEF SchedulesInv, SchedulesTyped
  <2>4. SchedulesTyped'
    BY <1>1, <1>5, <2>2, <2>3 DEF SchedulesInv, SchedulesTyped
  <2>5. \A s \in Schedules \ irregular : \A t \in Times : Tally(s, t)'
    BY <1>1, <1>5, <2>2, <2>4, FailureTallied
  <2> QED
    BY <1>1, <2>1, <2>2, <2>4, <2>5 DEF SchedulesInv
<1> QED
  BY <1>4, <1>5 DEF RecordRun

(* A server is stopped, and forgets what it was doing.                     *)
LEMMA StopKeeps == ASSUME SchedulesInv, NEW n \in Nodes, StopNode(n) PROVE SchedulesInv'
<1>1. /\ failures < MaxFailures /\ iteration[n].pc # "asleep" /\ failures' = failures + 1
      /\ Sleeps(n) /\ UNCHANGED <<minute, schedule, triggered, irregular>>
  BY DEF StopNode
<1>2. /\ iteration' \in [Nodes -> IterationStates]
      /\ \A q \in Nodes \ {n} : iteration'[q] = iteration[q]
      /\ \A q \in Nodes : HasRead(q)'
      /\ iteration'[n].pc = "asleep" /\ iteration'[n].due = {}
  BY <1>1, SleepMoves
<1>3. failures' \in 0..MaxFailures
  BY <1>1, TimeBounds DEF SchedulesInv, SchedulesTyped
<1>4. SchedulesTyped'
  BY <1>1, <1>2, <1>3 DEF SchedulesInv, SchedulesTyped
<1>5. \A r \in Schedules : RowFollowsApi(r)'
  BY <1>1 DEF SchedulesInv, RowFollowsApi, Exists
<1>6. \A s \in Schedules \ irregular : \A t \in Times : Tally(s, t)'
  BY <1>1, <1>2, <1>4, FailureTallied
<1> QED
  BY <1>1, <1>2, <1>4, <1>5, <1>6 DEF SchedulesInv

-----------------------------------------------------------------------------
(* The REST API and the clock. *)

(* A row is edited: it is due afterwards only if it was. *)
LEMMA EditKeeps ==
  ASSUME SchedulesInv, NEW s \in Schedules, NEW row \in RowStates,
         schedule' = [schedule EXCEPT ![s] = row],
         UNCHANGED <<minute, iteration, triggered, failures>>,
         irregular \subseteq irregular', irregular' \subseteq irregular \cup {s},
         row.state # "absent", schedule[s].state # "deleted",
         row.state # "deleted" =>
           /\ row.next = schedule[s].next /\ row.expression \in Expressions
           /\ s \notin irregular' => CroniterAccepts(row.expression)
  PROVE  SchedulesInv'
<1>1. schedule' \in [Schedules -> RowStates] /\ schedule'[s] = row
      /\ \A r \in Schedules : r # s => schedule'[r] = schedule[r]
  BY DEF SchedulesInv, SchedulesTyped
<1>2. SchedulesTyped'
  BY <1>1 DEF SchedulesInv, SchedulesTyped
<1>3. \A r \in Schedules : RowFollowsApi(r)'
  <2> TAKE r \in Schedules
  <2>1. RowFollowsApi(r)
    BY DEF SchedulesInv
  <2> QED
    BY <1>1, <2>1 DEF RowFollowsApi, Exists
<1>4. \A n \in Nodes : HasRead(n)'
  <2> TAKE n \in Nodes
  <2>1. HasRead(n) /\ iteration[n] \in IterationStates
    BY DEF SchedulesInv, SchedulesTyped
  <2>2. \A d \in iteration[n].due : d[1] \in Schedules
    BY <2>1 DEF IterationStates, Dues
  <2>3. \A d \in iteration[n].due : schedule'[d[1]].state # "absent"
    BY <1>1, <2>1, <2>2 DEF HasRead
  <2> QED
    BY <2>1, <2>3 DEF HasRead
<1>5. ASSUME NEW r \in Schedules \ irregular', NEW t \in Times PROVE Tally(r, t)'
  <2>1. DueAt(r, t)' => DueAt(r, t)
    BY <1>1 DEF DueAt
  <2>2. PICK servers \in SUBSET Nodes : servers = CaughtUp(r, t)
    BY DEF CaughtUp
  <2>3. CaughtUp(r, t)' = servers
    BY <2>2, NodesUnmoved DEF CaughtUp
  <2>4. PICK old \in SUBSET servers : old = Ready(r, t)
    BY <2>2 DEF Ready
  <2>5. PICK new \in SUBSET servers : new = Ready(r, t)'
    BY <2>3 DEF Ready
  <2>6. new \subseteq old
    <3> SUFFICES ASSUME NEW q \in new PROVE q \in old
      OBVIOUS
    <3>1. IF DueAt(r, t)' THEN ~HasCreated(q, r, t)' ELSE WillCreate(q, r, t)'
      BY <2>5 DEF Ready
    <3>2. IF DueAt(r, t)' THEN ~HasCreated(q, r, t) ELSE WillCreate(q, r, t)
      BY <3>1, NodesUnmoved
    <3>3. IF DueAt(r, t) THEN ~HasCreated(q, r, t) ELSE WillCreate(q, r, t)
      BY <2>1, <3>2 DEF WillCreate, HasCreated
    <3> QED
      BY <2>2, <2>4, <3>3 DEF Ready
  <2>7. /\ Cardinality(new) <= Cardinality(old) /\ Cardinality(new) \in Nat
        /\ Cardinality(old) \in Nat /\ Cardinality(servers) \in Nat
    BY <2>6, SetsOfServers
  <2>8. triggered[r][t] \in Nat /\ failures \in Nat
    BY TimeBounds DEF SchedulesInv, SchedulesTyped
  <2>9. 2 * triggered[r][t] + 2 * Cardinality(old)
          <= Cardinality(servers) * (Cardinality(servers) + 1) + 2 * failures
    BY <2>2, <2>4 DEF SchedulesInv, Tally
  <2>10. Cardinality(servers) * (Cardinality(servers) + 1) \in Nat
    BY <2>7
  <2>11. 2 * triggered[r][t] + 2 * Cardinality(new)
           <= Cardinality(servers) * (Cardinality(servers) + 1) + 2 * failures
    BY <2>7, <2>8, <2>9, <2>10
  <2> QED
    BY <2>3, <2>5, <2>11 DEF Tally
<1> QED
  BY <1>2, <1>3, <1>4, <1>5 DEF SchedulesInv

(* A schedule is created, changed or deleted.                              *)
LEMMA ApiKeeps ==
  ASSUME SchedulesInv, NEW s \in Schedules,
         \/ DeleteSchedule(s)
         \/ \E e \in Expressions :
              \/ PostSchedule(s, e)
              \/ \E state \in {"enabled", "disabled"} : PutSchedule(s, e, state)
  PROVE  SchedulesInv'
<1>1. PICK was \in RowStates : was = schedule[s]
  BY DEF SchedulesInv, SchedulesTyped
<1>2. RowFollowsApi(s)
  BY DEF SchedulesInv
<1>3. Unknown \in Times \cup {Never, Unknown}
  OBVIOUS
<1>4. CASE DeleteSchedule(s)
  <2>1. PICK row : row = NoRow("deleted")
    OBVIOUS
  <2>2. row \in RowStates /\ row.state = "deleted"
    BY <2>1 DEF NoRow, RowStates
  <2>3. schedule' = [schedule EXCEPT ![s] = row] /\ schedule[s].state # "deleted"
    BY <1>4, <2>1 DEF DeleteSchedule, Exists
  <2> QED
    BY <1>4, <2>2, <2>3, EditKeeps DEF DeleteSchedule
<1>5. ASSUME NEW e \in Expressions, Edited(s, e)
      PROVE  /\ irregular \subseteq irregular' /\ irregular' \subseteq irregular \cup {s}
             /\ s \notin irregular' => CroniterAccepts(e)
  BY <1>5 DEF Edited
<1>6. ASSUME NEW e \in Expressions, PostSchedule(s, e) PROVE SchedulesInv'
  <2>1. PICK row : row = [state |-> "enabled", expression |-> e, next |-> Unknown]
    OBVIOUS
  <2>2. row \in RowStates /\ row.state = "enabled" /\ row.expression = e /\ row.next = Unknown
    BY <2>1 DEF RowStates
  <2>3. schedule' = [schedule EXCEPT ![s] = row] /\ schedule[s].state = "absent"
        /\ Edited(s, e) /\ UNCHANGED <<minute, iteration, triggered, failures>>
    BY <1>6, <2>1 DEF PostSchedule, AddSchedule
  <2>4. schedule[s].next = Unknown
    BY <1>2, <2>3 DEF RowFollowsApi
  <2> QED
    BY <1>5, <2>2, <2>3, <2>4, EditKeeps
<1>7. ASSUME NEW e \in Expressions, NEW state \in {"enabled", "disabled"},
             PutSchedule(s, e, state)
      PROVE  SchedulesInv'
  <2>1. PICK row : row = [[was EXCEPT !.expression = e] EXCEPT !.state = state]
    OBVIOUS
  <2>2. row \in RowStates /\ row.state = state /\ row.expression = e /\ row.next = was.next
    BY <2>1 DEF RowStates
  <2>3. /\ schedule' = [schedule EXCEPT ![s].expression = e, ![s].state = state]
        /\ Exists(s) /\ Edited(s, e) /\ UNCHANGED <<minute, iteration, triggered, failures>>
    BY <1>7 DEF PutSchedule, UpdateSchedule
  <2>4. schedule' = [schedule EXCEPT ![s] = row]
    BY <1>1, <2>1, <2>3 DEF SchedulesInv, SchedulesTyped
  <2>5. schedule[s].state # "deleted"
    BY <2>3 DEF Exists
  <2> QED
    BY <1>1, <1>5, <2>2, <2>3, <2>4, <2>5, EditKeeps
<1> QED
  BY <1>4, <1>6, <1>7

(* The servers that are ready when the minute comes. *)
LEMMA TallyStarts ==
  ASSUME NEW c \in Nat, NEW r \in Nat, r <= c PROVE 2 * r <= c * (c + 1) /\ c * (c + 1) \in Nat
<1>1. c * (c + 1) \in Nat
  OBVIOUS
<1>2. CASE c = 0
  BY <1>1, <1>2
<1>3. CASE c # 0
  <2>1. PICK k \in Nat : c = k + 1
    <3>1. c - 1 \in Nat /\ c = (c - 1) + 1
      BY <1>3
    <3> QED
      BY <3>1
  <2>2. c * (c + 1) = 2 * c + k * (k + 1) /\ k * (k + 1) \in Nat
    BY <2>1
  <2> QED
    BY <1>1, <2>2
<1> QED
  BY <1>2, <1>3

(* A minute passes.                                                        *)
LEMMA TickKeeps == ASSUME SchedulesInv, Tick PROVE SchedulesInv'
<1>1. /\ minute + 1 \in Times /\ minute' = minute + 1 /\ minute \in Nat /\ failures \in Nat
      /\ UNCHANGED <<schedule, iteration, triggered, irregular, failures>>
  BY TimeBounds DEF Tick, SchedulesInv, SchedulesTyped
<1>2. SchedulesTyped'
  BY <1>1 DEF SchedulesInv, SchedulesTyped
<1>3. \A r \in Schedules : RowFollowsApi(r)'
  BY <1>1 DEF SchedulesInv, RowFollowsApi, Exists
<1>4. \A n \in Nodes : HasRead(n)'
  <2> TAKE n \in Nodes
  <2>1. HasRead(n) /\ iteration[n].now \in Nat
    BY TimeBounds DEF SchedulesInv, SchedulesTyped, IterationStates
  <2>2. iteration[n].now <= minute'
    BY <1>1, <2>1 DEF HasRead
  <2> QED
    BY <1>1, <2>1, <2>2 DEF HasRead
<1>5. ASSUME NEW s \in Schedules \ irregular, NEW t \in Times PROVE Tally(s, t)'
  <2>1. t \in Nat /\ triggered[s][t] \in Nat
    BY TimeBounds DEF SchedulesInv, SchedulesTyped
  <2>2. DueAt(s, t)' <=> DueAt(s, t)
    BY <1>1 DEF DueAt
  <2>3. \A n \in Nodes : /\ Behind(n, s, t)' <=> Behind(n, s, t)
                         /\ HasCreated(n, s, t)' <=> HasCreated(n, s, t)
                         /\ WillCreate(n, s, t)' <=> WillCreate(n, s, t)
    BY <1>1, NodesUnmoved
  <2>4. Tally(s, t)
    BY DEF SchedulesInv
  <2>5. CASE (t <= minute) <=> (t <= minute')
    <3>1. CaughtUp(s, t)' = CaughtUp(s, t)
      BY <2>3, <2>5 DEF CaughtUp
    <3>2. Ready(s, t)' = Ready(s, t)
      BY <2>2, <2>3, <3>1 DEF Ready, CaughtUp
    <3> QED
      BY <1>1, <2>4, <3>1, <3>2 DEF Tally
  <2>6. CASE t > minute /\ t <= minute'
    <3>1. CaughtUp(s, t) = {} /\ Ready(s, t) = {}
      BY <1>1, <2>1, <2>6 DEF CaughtUp, Ready
    <3>2. 2 * triggered[s][t] <= 2 * failures
      BY <1>1, <2>1, <2>4, <3>1, FS_EmptySet DEF Tally
    <3>3. PICK new \in SUBSET Nodes : new = CaughtUp(s, t)'
      BY DEF CaughtUp
    <3>4. PICK ready \in SUBSET new : ready = Ready(s, t)'
      BY <3>3 DEF Ready
    <3>5. /\ Cardinality(new) \in Nat /\ Cardinality(ready) \in Nat
          /\ Cardinality(ready) <= Cardinality(new)
      BY SetsOfServers
    <3>6. /\ 2 * Cardinality(ready) <= Cardinality(new) * (Cardinality(new) + 1)
          /\ Cardinality(new) * (Cardinality(new) + 1) \in Nat
      BY <3>5, TallyStarts
    <3>7. 2 * triggered[s][t] + 2 * Cardinality(ready)
            <= Cardinality(new) * (Cardinality(new) + 1) + 2 * failures
      BY <1>1, <2>1, <3>2, <3>5, <3>6
    <3> QED
      BY <1>1, <3>3, <3>4, <3>7 DEF Tally
  <2>7. ((t <= minute) <=> (t <= minute')) \/ (t > minute /\ t <= minute')
    BY <1>1, <2>1
  <2> QED
    BY <2>5, <2>6, <2>7
<1> QED
  BY <1>1, <1>2, <1>3, <1>4, <1>5 DEF SchedulesInv

(* The invariant holds at first.                                           *)
LEMMA SchedulesInitInv == SchedulesInit => SchedulesInv
<1> SUFFICES ASSUME SchedulesInit PROVE SchedulesInv
  OBVIOUS
<1>1. Idle \in IterationStates /\ Idle.due = {} /\ Idle.pc = "asleep" /\ Idle.now = 0
  BY TimeBounds DEF Idle, IterationStates
<1>2. PICK row \in RowStates : row = NoRow("absent") /\ row.state = "absent" /\ row.next = Unknown
  <2>1. NoRow("absent") \in RowStates
    BY DEF NoRow, RowStates
  <2> QED
    BY <2>1 DEF NoRow
<1>3. /\ minute = 0 /\ schedule = [s \in Schedules |-> row]
      /\ iteration = [n \in Nodes |-> Idle] /\ irregular = {} /\ failures = 0
      /\ triggered = [s \in Schedules |-> [t \in Times |-> 0]]
  BY <1>2 DEF SchedulesInit
<1>4. SchedulesTyped
  BY <1>1, <1>3, TimeBounds DEF SchedulesTyped
<1>5. \A s \in Schedules : RowFollowsApi(s)
  BY <1>2, <1>3 DEF RowFollowsApi, Exists
<1>6. \A n \in Nodes : HasRead(n)
  BY <1>1, <1>3 DEF HasRead, EachOnce
<1>7. ASSUME NEW s \in Schedules \ irregular, NEW t \in Times PROVE Tally(s, t)
  <2>1. triggered[s][t] = 0
    BY <1>3
  <2>2. PICK servers \in SUBSET Nodes : servers = CaughtUp(s, t)
    BY DEF CaughtUp
  <2>3. PICK ready \in SUBSET servers : ready = Ready(s, t)
    BY <2>2 DEF Ready
  <2>4. /\ Cardinality(servers) \in Nat /\ Cardinality(ready) \in Nat
        /\ Cardinality(ready) <= Cardinality(servers)
    BY SetsOfServers
  <2>5. /\ 2 * Cardinality(ready) <= Cardinality(servers) * (Cardinality(servers) + 1)
        /\ Cardinality(servers) * (Cardinality(servers) + 1) \in Nat
    BY <2>4, TallyStarts
  <2>6. 2 * triggered[s][t] + 2 * Cardinality(ready)
          <= Cardinality(servers) * (Cardinality(servers) + 1) + 2 * failures
    BY <1>3, <2>1, <2>4, <2>5
  <2> QED
    BY <2>2, <2>3, <2>6 DEF Tally
<1> QED
  BY <1>4, <1>5, <1>6, <1>7 DEF SchedulesInv

(* Every step keeps the invariant.                                         *)
LEMMA SchedulesStepInv == SchedulesInv /\ [SchedulesNext]_scheduleVars => SchedulesInv'
<1> SUFFICES ASSUME SchedulesInv, [SchedulesNext]_scheduleVars PROVE SchedulesInv'
  OBVIOUS
<1>1. ASSUME NEW s \in Schedules,
             \/ DeleteSchedule(s)
             \/ \E e \in Expressions :
                  \/ PostSchedule(s, e)
                  \/ \E state \in {"enabled", "disabled"} : PutSchedule(s, e, state)
      PROVE  SchedulesInv'
  BY <1>1, ApiKeeps
<1>2. ASSUME NEW n \in Nodes, Wake(n) PROVE SchedulesInv'
  BY <1>2, WakeKeeps
<1>3. ASSUME NEW n \in Nodes, Skip(n) PROVE SchedulesInv'
  BY <1>3, SkipKeeps
<1>4. ASSUME NEW n \in Nodes, Trigger(n) PROVE SchedulesInv'
  BY <1>4, TriggerKeeps
<1>5. ASSUME NEW n \in Nodes, RecordRun(n) PROVE SchedulesInv'
  BY <1>5, RecordKeeps
<1>6. ASSUME NEW n \in Nodes, StopNode(n) PROVE SchedulesInv'
  BY <1>6, StopKeeps
<1>7. CASE Tick
  BY <1>7, TickKeeps
<1>8. CASE UNCHANGED scheduleVars
  <2>1. /\ minute' = minute /\ schedule' = schedule /\ iteration' = iteration
        /\ triggered' = triggered /\ irregular' = irregular /\ failures' = failures
    BY <1>8 DEF scheduleVars
  <2>2. SchedulesTyped'
    BY <2>1 DEF SchedulesInv, SchedulesTyped
  <2>3. \A s \in Schedules : RowFollowsApi(s)'
    BY <2>1 DEF SchedulesInv, RowFollowsApi, Exists
  <2>4. \A n \in Nodes : HasRead(n)'
    BY <2>1 DEF SchedulesInv, HasRead
  <2>5. ASSUME NEW s \in Schedules \ irregular, NEW t \in Times PROVE Tally(s, t)'
    <3>1. Tally(s, t)
      BY DEF SchedulesInv
    <3>2. /\ DueAt(s, t)' <=> DueAt(s, t)
          /\ \A n \in Nodes : /\ Behind(n, s, t)' <=> Behind(n, s, t)
                              /\ HasCreated(n, s, t)' <=> HasCreated(n, s, t)
                              /\ WillCreate(n, s, t)' <=> WillCreate(n, s, t)
      BY <2>1, NodesUnmoved DEF DueAt
    <3>3. CaughtUp(s, t)' = CaughtUp(s, t)
      BY <2>1, <3>2 DEF CaughtUp
    <3>4. Ready(s, t)' = Ready(s, t)
      BY <3>2, <3>3 DEF Ready, CaughtUp
    <3> QED
      BY <2>1, <3>1, <3>3, <3>4 DEF Tally
  <2> QED
    BY <2>1, <2>2, <2>3, <2>4, <2>5 DEF SchedulesInv
<1> QED
  BY <1>1, <1>2, <1>3, <1>4, <1>5, <1>6, <1>7, <1>8 DEF SchedulesNext

(* At any time, for any number of servers, schedules and failures: every    *)
(* iteration of _schedule_scheduler_loop works on rows that exist, each at  *)
(* most once, and the jobs of a minute are in step with who may create one. *)
THEOREM SchedulesInvariant == SchedulesSpec => [](SchedulesTypeOK /\ SchedulesInv)
<1>1. SchedulesInit => SchedulesInv
  BY SchedulesInitInv
<1>2. SchedulesInv /\ [SchedulesNext]_scheduleVars => SchedulesInv'
  BY SchedulesStepInv
<1>3. SchedulesInv => SchedulesTypeOK
  BY SchedulesTypes
<1> QED
  BY <1>1, <1>2, <1>3, PTL DEF SchedulesSpec

(* One matching minute of a schedule creates at most N(N+1)/2 jobs on N     *)
(* servers, and one more for each failure: the loop has no claim on a due   *)
(* row between get_enabled_schedules_due and update_schedule_run.           *)
THEOREM MinutesTriggerBounded == SchedulesSpec => []TriggersPerMinuteBounded
<1>1. SchedulesInv => TriggersPerMinuteBounded
  <2> SUFFICES ASSUME SchedulesInv, NEW s \in Schedules \ irregular, NEW t \in Times
               PROVE  2 * triggered[s][t]
                        <= Cardinality(Nodes) * (Cardinality(Nodes) + 1) + 2 * failures
    BY DEF TriggersPerMinuteBounded
  <2>1. triggered[s][t] \in Nat /\ failures \in Nat
    BY TimeBounds DEF SchedulesInv, SchedulesTyped
  <2>2. PICK servers \in SUBSET Nodes : servers = CaughtUp(s, t)
    BY DEF CaughtUp
  <2>3. PICK ready \in SUBSET servers : ready = Ready(s, t)
    BY <2>2 DEF Ready
  <2>4. 2 * triggered[s][t] + 2 * Cardinality(ready)
          <= Cardinality(servers) * (Cardinality(servers) + 1) + 2 * failures
    BY <2>2, <2>3 DEF SchedulesInv, Tally
  <2>5. /\ Cardinality(servers) \in Nat /\ Cardinality(Nodes) \in Nat
        /\ Cardinality(ready) \in Nat /\ Cardinality(servers) <= Cardinality(Nodes)
    BY SetsOfServers
  <2>6. Cardinality(servers) * (Cardinality(servers) + 1)
          <= Cardinality(Nodes) * (Cardinality(Nodes) + 1)
    BY <2>5, Grows
  <2>7. /\ Cardinality(servers) * (Cardinality(servers) + 1) \in Nat
        /\ Cardinality(Nodes) * (Cardinality(Nodes) + 1) \in Nat
    BY <2>5
  <2> QED
    BY <2>1, <2>4, <2>5, <2>6, <2>7
<1>2. SchedulesSpec => []SchedulesInv
  BY SchedulesInvariant, PTL
<1> QED
  BY <1>1, <1>2, PTL

-----------------------------------------------------------------------------
(***************************************************************************)
(* Retrieval.  First the ranked lists: sorting a finite set by a strict    *)
(* order that is total on it lists each member once, at the place that     *)
(* the order gives it, and a cut keeps the first places.                   *)
(***************************************************************************)
StrictlyOrders(R, S) ==
  /\ \A a \in S : <<a, a>> \notin R
  /\ \A a, b, c \in S : <<a, b>> \in R /\ <<b, c>> \in R => <<a, c>> \in R
  /\ \A a, b \in S : a = b \/ <<a, b>> \in R \/ <<b, a>> \in R

Once(list) == \A i, j \in DOMAIN list : list[i] = list[j] => i = j

(* The place of a member is a number below the size of the set; a member   *)
(* comes before another exactly when its place is lower; and every place   *)
(* is taken.                                                               *)
LEMMA PlacesFollowOrder ==
  ASSUME NEW S, IsFiniteSet(S), NEW R, StrictlyOrders(R, S)
  PROVE  /\ Cardinality(S) \in Nat
         /\ \A a \in S : Place(a, S, R) \in 0..(Cardinality(S) - 1)
         /\ \A a, b \in S : <<a, b>> \in R <=> Place(a, S, R) < Place(b, S, R)
         /\ \A a, b \in S : Place(a, S, R) = Place(b, S, R) => a = b
         /\ \A p \in 0..(Cardinality(S) - 1) : \E a \in S : Place(a, S, R) = p
<1> DEFINE Above(a) == {y \in S : <<y, a>> \in R}
           N == Cardinality(S)
           f == [a \in S |-> Place(a, S, R)]
<1>0. N \in Nat
  BY FS_CardinalityType
<1>1. ASSUME NEW a \in S
      PROVE  /\ IsFiniteSet(Above(a)) /\ Place(a, S, R) = Cardinality(Above(a))
             /\ Place(a, S, R) \in 0..(N - 1)
  <2>1. Above(a) \in SUBSET S /\ Above(a) # S
    BY DEF StrictlyOrders
  <2>2. IsFiniteSet(Above(a)) /\ Cardinality(Above(a)) <= N /\ Cardinality(Above(a)) # N
    BY <2>1, FS_Subset
  <2>3. Cardinality(Above(a)) \in Nat
    BY <2>2, FS_CardinalityType
  <2>4. Place(a, S, R) = Cardinality(Above(a))
    BY DEF Place
  <2> HIDE DEF Above, N
  <2> QED
    BY <1>0, <2>2, <2>3, <2>4
<1>2. ASSUME NEW a \in S, NEW b \in S, <<a, b>> \in R
      PROVE  Place(a, S, R) < Place(b, S, R)
  <2>1. Above(a) \in SUBSET Above(b) /\ b \in S /\ a \in Above(b) /\ a \notin Above(a)
    BY <1>2 DEF StrictlyOrders
  <2>2. /\ Cardinality(Above(a)) <= Cardinality(Above(b))
        /\ Cardinality(Above(a)) # Cardinality(Above(b))
    BY <1>1, <2>1, FS_Subset
  <2> HIDE DEF Above, N
  <2>3. Cardinality(Above(a)) \in Nat /\ Cardinality(Above(b)) \in Nat
    BY <1>1, FS_CardinalityType
  <2> QED
    BY <1>1, <2>2, <2>3
<1> HIDE DEF Above, N
<1>3. \A a, b \in S : <<a, b>> \in R <=> Place(a, S, R) < Place(b, S, R)
  <2> SUFFICES ASSUME NEW a \in S, NEW b \in S, Place(a, S, R) < Place(b, S, R)
               PROVE  <<a, b>> \in R
    BY <1>2
  <2>1. Place(a, S, R) \in Nat /\ Place(b, S, R) \in Nat
    BY <1>0, <1>1
  <2>2. a # b /\ <<b, a>> \notin R
    BY <1>2, <2>1
  <2> QED
    BY <2>2 DEF StrictlyOrders
<1>4. \A a, b \in S : Place(a, S, R) = Place(b, S, R) => a = b
  <2> SUFFICES ASSUME NEW a \in S, NEW b \in S, Place(a, S, R) = Place(b, S, R), a # b
               PROVE  FALSE
    OBVIOUS
  <2>1. <<a, b>> \in R \/ <<b, a>> \in R
    BY DEF StrictlyOrders
  <2>2. Place(a, S, R) \in Nat /\ Place(b, S, R) \in Nat
    BY <1>0, <1>1
  <2> QED
    BY <1>2, <2>1, <2>2
<1>5. f \in Injection(S, 0..(N - 1))
  BY <1>1, <1>4 DEF Injection, IsInjective
<1>6. IsFiniteSet(0..(N - 1)) /\ Cardinality(0..(N - 1)) = N
  BY <1>0, FS_Interval
<1>7. f \in Surjection(S, 0..(N - 1))
  BY <1>5, <1>6, FS_Injection DEF N
<1>8. \A p \in 0..(N - 1) : \E a \in S : Place(a, S, R) = p
  BY <1>7 DEF Surjection
<1> QED
  BY <1>0, <1>1, <1>3, <1>4, <1>8 DEF N

(* What a sorted list is. *)
LEMMA RankedLists ==
  ASSUME NEW S, IsFiniteSet(S), NEW R, StrictlyOrders(R, S)
  PROVE  /\ Ranked(S, R) \in Seq(S) /\ Len(Ranked(S, R)) = Cardinality(S)
         /\ Members(Ranked(S, R)) = S /\ Once(Ranked(S, R))
         /\ \A a \in S : RankIn(Ranked(S, R), a) = Place(a, S, R) + 1
<1> DEFINE N == Cardinality(S)
           L == Ranked(S, R)
<1>1. /\ N \in Nat
      /\ \A a \in S : Place(a, S, R) \in 0..(N - 1)
      /\ \A a, b \in S : Place(a, S, R) = Place(b, S, R) => a = b
      /\ \A p \in 0..(N - 1) : \E a \in S : Place(a, S, R) = p
  BY PlacesFollowOrder
<1>2. L = [i \in 1..N |-> CHOOSE a \in S : Place(a, S, R) = i - 1]
  BY DEF Ranked
<1> HIDE DEF N, L
<1>3. ASSUME NEW i \in 1..N PROVE L[i] \in S /\ Place(L[i], S, R) = i - 1
  <2>1. \E a \in S : Place(a, S, R) = i - 1
    BY <1>1
  <2> QED
    BY <1>2, <2>1
<1>4. L \in [1..N -> S] /\ DOMAIN L = 1..N
  BY <1>2, <1>3
<1>5. L \in Seq(S) /\ Len(L) = N
  BY <1>1, <1>4
<1>6. ASSUME NEW a \in S
      PROVE  Place(a, S, R) + 1 \in 1..N /\ L[Place(a, S, R) + 1] = a
  <2>1. Place(a, S, R) + 1 \in 1..N /\ (Place(a, S, R) + 1) - 1 = Place(a, S, R)
    BY <1>1
  <2> QED
    BY <1>1, <1>3, <2>1
<1>7. \A i, j \in 1..N : L[i] = L[j] => i = j
  <2> TAKE i, j \in 1..N
  <2>1. L[i] = L[j] => i - 1 = j - 1
    BY <1>3
  <2> QED
    BY <1>1, <2>1
<1>8. Members(L) = S
  BY <1>3, <1>4, <1>6 DEF Members
<1>9. ASSUME NEW a \in S PROVE RankIn(L, a) = Place(a, S, R) + 1
  <2>1. RankIn(L, a) = CHOOSE i \in 1..N : L[i] = a
    BY <1>4 DEF RankIn
  <2>2. RankIn(L, a) \in 1..N /\ L[RankIn(L, a)] = a
    BY <1>6, <2>1
  <2> QED
    BY <1>6, <1>7, <2>2
<1> QED
  BY <1>4, <1>5, <1>7, <1>8, <1>9 DEF N, L, Once

(* The members of a list in which nothing comes twice. *)
LEMMA OnceListed ==
  ASSUME NEW S, NEW list \in Seq(S), Once(list)
  PROVE  /\ Members(list) \in SUBSET S /\ IsFiniteSet(Members(list))
         /\ Cardinality(Members(list)) = Len(list) /\ Len(list) \in Nat
         /\ \A a \in Members(list) : /\ RankIn(list, a) \in 1..Len(list)
                                     /\ list[RankIn(list, a)] = a
         /\ \A i \in 1..Len(list) : /\ list[i] \in Members(list)
                                    /\ RankIn(list, list[i]) = i
<1>1. /\ Len(list) \in Nat /\ DOMAIN list = 1..Len(list)
      /\ \A i \in 1..Len(list) : list[i] \in S
  OBVIOUS
<1>2. list \in Bijection(1..Len(list), Members(list))
  BY <1>1 DEF Members, Once, Bijection, Injection, Surjection, IsInjective
<1>3. ExistsBijection(1..Len(list), Members(list))
  BY <1>2 DEF ExistsBijection
<1>4. IsFiniteSet(Members(list)) /\ Cardinality(Members(list)) = Len(list)
  BY <1>1, <1>3, FS_CountingElements, FS_NatBijection
<1>5. Members(list) \in SUBSET S
  BY <1>1 DEF Members
<1>6. ASSUME NEW a \in Members(list)
      PROVE  RankIn(list, a) \in 1..Len(list) /\ list[RankIn(list, a)] = a
  <2>1. \E i \in 1..Len(list) : list[i] = a
    BY <1>1 DEF Members
  <2> QED
    BY <1>1, <2>1 DEF RankIn
<1>7. ASSUME NEW i \in 1..Len(list)
      PROVE  list[i] \in Members(list) /\ RankIn(list, list[i]) = i
  <2>1. list[i] \in Members(list)
    BY <1>1 DEF Members
  <2> QED
    BY <1>1, <1>6, <2>1 DEF Once
<1> QED
  BY <1>1, <1>4, <1>5, <1>6, <1>7

(* A cut list: the members of the first ranks, at the ranks they had. *)
Cuts(cut, k, list, S) ==
  /\ cut \in Seq(S) /\ Once(cut) /\ Len(cut) = SmallestOf(k, Len(list))
  /\ Members(cut) = {a \in Members(list) : RankIn(list, a) <= k}
  /\ \A a \in Members(cut) : RankIn(cut, a) = RankIn(list, a)

(* Cutting a list in which nothing comes twice.                            *)
LEMMA CutLists ==
  ASSUME NEW S, NEW list \in Seq(S), Once(list), NEW k \in Nat
  PROVE  Cuts(AtMost(k, list), k, list, S)
<1> DEFINE M == AtMost(k, list)
           cut == IF k < Len(list) THEN k ELSE Len(list)
<1>1. Len(list) \in Nat
  OBVIOUS
<1>2. cut \in Nat /\ cut <= Len(list) /\ cut <= k
  BY <1>1
<1>3. M = SubSeq(list, 1, cut)
  BY DEF AtMost
<1>a. \A i \in Nat : i <= k /\ i <= Len(list) => i <= cut
  BY <1>1
<1> HIDE DEF cut, M
<1>4. /\ M \in Seq(S) /\ Len(M) = cut
      /\ \A i \in 1..cut : M[i] = list[i]
  <2>1. cut \in Int /\ \A i \in 1..cut : list[i] \in S
    BY <1>1, <1>2
  <2>2. /\ SubSeq(list, 1, cut) \in Seq(S)
        /\ Len(SubSeq(list, 1, cut)) = cut
        /\ \A i \in 1..cut : SubSeq(list, 1, cut)[i] = list[i]
    BY <1>1, <1>2, <2>1, SubSeqProperties
  <2> QED
    BY <1>3, <2>2
<1>5. Once(M)
  <2>1. DOMAIN M = 1..cut /\ DOMAIN list = 1..Len(list)
    BY <1>4
  <2>2. 1..cut \subseteq 1..Len(list)
    BY <1>1, <1>2
  <2> QED
    BY <1>4, <2>1, <2>2 DEF Once
<1>6. /\ \A a \in Members(list) : RankIn(list, a) \in 1..Len(list) /\ list[RankIn(list, a)] = a
      /\ \A i \in 1..Len(list) : list[i] \in Members(list) /\ RankIn(list, list[i]) = i
      /\ \A a \in Members(M) : RankIn(M, a) \in 1..cut /\ M[RankIn(M, a)] = a
      /\ \A i \in 1..cut : M[i] \in Members(M) /\ RankIn(M, M[i]) = i
  BY <1>4, <1>5, OnceListed
<1>7. ASSUME NEW a \in Members(M)
      PROVE  a \in Members(list) /\ RankIn(list, a) <= k /\ RankIn(M, a) = RankIn(list, a)
  <2> DEFINE r == RankIn(M, a)
  <2>1. r \in 1..cut /\ M[r] = a
    BY <1>6
  <2> HIDE DEF r
  <2>2. r \in 1..Len(list) /\ list[r] = a /\ r <= k
    BY <1>1, <1>2, <1>4, <2>1
  <2>3. a \in Members(list) /\ RankIn(list, a) = r
    BY <1>6, <2>2
  <2> QED
    BY <2>2, <2>3 DEF r
<1>8. ASSUME NEW a \in Members(list), RankIn(list, a) <= k PROVE a \in Members(M)
  <2> DEFINE r == RankIn(list, a)
  <2>1. r \in 1..Len(list) /\ list[r] = a /\ r <= k
    BY <1>6, <1>8
  <2> HIDE DEF r
  <2>2. r \in 1..cut
    BY <1>1, <1>a, <2>1
  <2> QED
    BY <1>4, <1>6, <2>1, <2>2
<1> QED
  BY <1>4, <1>5, <1>7, <1>8 DEF M, cut, SmallestOf, Cuts

(* A list that is cut twice. *)
LEMMA CutTwice ==
  ASSUME NEW S, NEW list \in Seq(S), NEW k \in Nat, NEW m \in Nat, k <= m
  PROVE  AtMost(k, AtMost(m, list)) = AtMost(k, list)
<1> DEFINE M == AtMost(m, list)
           j == IF m < Len(list) THEN m ELSE Len(list)
           i == IF k < Len(list) THEN k ELSE Len(list)
<1>1. Len(list) \in Nat /\ j \in 0..Len(list) /\ i \in 0..j
  OBVIOUS
<1>2. M = SubSeq(list, 1, j) /\ AtMost(k, list) = SubSeq(list, 1, i)
  BY DEF AtMost
<1> HIDE DEF j
<1>3. M \in Seq(S) /\ Len(M) = j /\ \A o \in 1..j : M[o] = list[o]
  BY <1>1, <1>2
<1>4. AtMost(k, M) = SubSeq(M, 1, i)
  <2>1. (IF k < Len(M) THEN k ELSE Len(M)) = i
    BY <1>1, <1>3 DEF j
  <2> QED
    BY <2>1 DEF AtMost
<1> HIDE DEF i, M
<1>5. SubSeq(M, 1, i) = SubSeq(list, 1, i)
  <2>1. /\ SubSeq(M, 1, i) \in Seq(S) /\ Len(SubSeq(M, 1, i)) = i
        /\ \A o \in 1..i : SubSeq(M, 1, i)[o] = M[o]
    BY <1>1, <1>3
  <2>2. /\ SubSeq(list, 1, i) \in Seq(S) /\ Len(SubSeq(list, 1, i)) = i
        /\ \A o \in 1..i : SubSeq(list, 1, i)[o] = list[o]
    BY <1>1
  <2>3. \A o \in 1..i : SubSeq(M, 1, i)[o] = SubSeq(list, 1, i)[o]
    BY <1>1, <1>3, <2>1, <2>2
  <2> HIDE DEF i
  <2> QED
    BY <2>1, <2>2, <2>3, SeqEqual
<1> QED
  BY <1>2, <1>4, <1>5 DEF M

(* The first places of a sorted set: their number, who has them, and that  *)
(* nothing comes before one of them that is not among them.                *)
Tops(list, k, S, R) ==
  /\ list \in Seq(S) /\ Once(list)
  /\ Cardinality(S) \in Nat /\ Len(list) = SmallestOf(k, Cardinality(S))
  /\ Members(list) = {a \in S : Place(a, S, R) < k}
  /\ \A a \in S : Place(a, S, R) \in 0..(Cardinality(S) - 1)
  /\ \A a \in Members(list) : RankIn(list, a) = Place(a, S, R) + 1
  /\ \A a \in S, b \in Members(list) :
       <<a, b>> \in R => a \in Members(list) /\ RankIn(list, a) < RankIn(list, b)
  /\ Cardinality(S) <= k => Members(list) = S

(* Sorting and cutting.                                                    *)
LEMMA TopLists ==
  ASSUME NEW S, IsFiniteSet(S), NEW R, StrictlyOrders(R, S), NEW k \in Nat,
         NEW list, list = AtMost(k, Ranked(S, R))
  PROVE  Tops(list, k, S, R)
<1> DEFINE L == Ranked(S, R)
           N == Cardinality(S)
           place(a) == Place(a, S, R)
<1>1. /\ N \in Nat
      /\ \A a \in S : place(a) \in 0..(N - 1)
      /\ \A a, b \in S : <<a, b>> \in R <=> place(a) < place(b)
  BY PlacesFollowOrder
<1>2. /\ L \in Seq(S) /\ Len(L) = N /\ Members(L) = S /\ Once(L)
      /\ \A a \in S : RankIn(L, a) = place(a) + 1
  BY RankedLists
<1> HIDE DEF L
<1>3. /\ list \in Seq(S) /\ Once(list) /\ Len(list) = SmallestOf(k, N)
      /\ Members(list) = {a \in S : RankIn(L, a) <= k}
      /\ \A a \in Members(list) : RankIn(list, a) = RankIn(L, a)
  <2>1. list = AtMost(k, L)
    BY DEF L
  <2>2. Cuts(AtMost(k, L), k, L, S)
    BY <1>2, CutLists
  <2> QED
    BY <1>2, <2>1, <2>2 DEF Cuts
<1> HIDE DEF N, place
<1>4. \A a \in S : RankIn(L, a) <= k <=> place(a) < k
  BY <1>1, <1>2
<1>5. Members(list) = {a \in S : place(a) < k}
  BY <1>3, <1>4
<1>6. \A a \in Members(list) : RankIn(list, a) = place(a) + 1
  BY <1>2, <1>3
<1>7. ASSUME NEW a \in S, NEW b \in Members(list), <<a, b>> \in R
      PROVE  a \in Members(list) /\ RankIn(list, a) < RankIn(list, b)
  <2>1. b \in S /\ place(a) < place(b) /\ place(b) < k
    BY <1>1, <1>5, <1>7
  <2>2. place(a) \in Nat /\ place(b) \in Nat
    BY <1>1, <2>1
  <2>3. a \in Members(list)
    BY <1>5, <2>1, <2>2
  <2> QED
    BY <1>6, <2>1, <2>2, <2>3
<1>8. N <= k => Members(list) = S
  BY <1>1, <1>5
<1> QED
  BY <1>1, <1>3, <1>5, <1>6, <1>7, <1>8 DEF N, place, Tops

(* The orders that are sorted by. *)
LEMMA NumbersOrder ==
  ASSUME NEW S \in SUBSET Chunks
  PROVE  StrictlyOrders(ByNumber, S) /\ IsFiniteSet(S)
<1>1. Chunks \subseteq Nat
  BY RetrievalAssumption
<1>2. \A a, b \in Chunks : <<a, b>> \in ByNumber <=> a < b
  BY DEF ByNumber
<1>3. StrictlyOrders(ByNumber, S)
  BY <1>1, <1>2 DEF StrictlyOrders
<1> QED
  BY <1>3, RetrievalAssumption, FS_Subset

(* The order of the positions in a document, and of the scroll for equal   *)
(* ones.                                                                   *)
LEMMA IndexesOrder ==
  ASSUME NEW S \in SUBSET Chunks
  PROVE  StrictlyOrders(ByIndex, S)
<1>1. Chunks \subseteq Nat /\ \A a \in Chunks : IndexOf[a] \in Nat
  BY RetrievalAssumption
<1>2. \A a, b \in Chunks :
        <<a, b>> \in ByIndex <=> \/ IndexOf[a] < IndexOf[b]
                                 \/ IndexOf[a] = IndexOf[b] /\ a < b
  BY DEF ByIndex
<1> QED
  BY <1>1, <1>2 DEF StrictlyOrders

(* The order in which a list has its members.                              *)
LEMMA ListsOrder ==
  ASSUME NEW T, NEW list \in Seq(T), Once(list), NEW S \in SUBSET Members(list)
  PROVE  /\ StrictlyOrders(Before(list), S) /\ IsFiniteSet(S)
         /\ \A a, b \in Members(list) :
              <<a, b>> \in Before(list) <=> RankIn(list, a) < RankIn(list, b)
<1>1. /\ Members(list) \in SUBSET T /\ IsFiniteSet(Members(list)) /\ Len(list) \in Nat
      /\ \A a \in Members(list) : /\ RankIn(list, a) \in 1..Len(list)
                                  /\ list[RankIn(list, a)] = a
  BY OnceListed
<1>2. \A a, b \in Members(list) :
        <<a, b>> \in Before(list) <=> RankIn(list, a) < RankIn(list, b)
  BY DEF Before
<1>3. \A a \in Members(list) : RankIn(list, a) \in Nat
  BY <1>1
<1>4. \A a, b \in Members(list) : RankIn(list, a) = RankIn(list, b) => a = b
  <2> TAKE a, b \in Members(list)
  <2> QED
    BY <1>1
<1>5. StrictlyOrders(Before(list), S)
  BY <1>2, <1>3, <1>4 DEF StrictlyOrders
<1> QED
  BY <1>1, <1>2, <1>5, FS_Subset

(* A ranking lists every chunk once.                                       *)
LEMMA OrdersListChunks ==
  ASSUME NEW order \in Orders
  PROVE  order \in Seq(Chunks) /\ Once(order) /\ Members(order) = Chunks
<1>1. /\ order \in Seq(Chunks)
      /\ \A a \in Chunks : \E i \in DOMAIN order : order[i] = a
      /\ \A i, j \in DOMAIN order : order[i] = order[j] => i = j
  BY RetrievalAssumption
<1>2. Members(order) = Chunks
  BY <1>1 DEF Members
<1> QED
  BY <1>1, <1>2 DEF Once

(* What a list keeps, and a search for the best of it. *)
LEMMA KeptLists ==
  ASSUME NEW T, NEW list \in Seq(T), Once(list), NEW S \in SUBSET Members(list)
  PROVE  Keeping(list, S) = Ranked(S, Before(list))
<1>1. Members(list) \cap S = S
  OBVIOUS
<1> QED
  BY <1>1 DEF Keeping

Finds(list, k, order, S) ==
  /\ list \in Seq(S) /\ Once(list) /\ IsFiniteSet(S)
  /\ Cardinality(S) \in Nat /\ Len(list) = SmallestOf(k, Cardinality(S))
  /\ Members(list) = {a \in S : Place(a, S, Before(order)) < k}
  /\ \A a \in Members(list) : RankIn(list, a) = Place(a, S, Before(order)) + 1
  /\ \A a \in S : Place(a, S, Before(order)) \in Nat
  /\ \A a \in S, b \in Members(list) :
       RankIn(order, a) < RankIn(order, b) =>
         a \in Members(list) /\ RankIn(list, a) < RankIn(list, b)
  /\ Cardinality(S) <= k => Members(list) = S

(* What a search returns, for the ranking its query induces.               *)
LEMMA SearchLists ==
  ASSUME NEW order \in Orders, NEW S \in SUBSET Chunks, NEW k \in Nat,
         NEW list, list = AtMost(k, Keeping(order, S))
  PROVE  Finds(list, k, order, S)
<1>1. order \in Seq(Chunks) /\ Once(order) /\ Members(order) = Chunks
  BY OrdersListChunks
<1>2. /\ StrictlyOrders(Before(order), S) /\ IsFiniteSet(S)
      /\ \A a, b \in Chunks : <<a, b>> \in Before(order) <=> RankIn(order, a) < RankIn(order, b)
  BY <1>1, ListsOrder
<1>3. Keeping(order, S) = Ranked(S, Before(order))
  BY <1>1, KeptLists
<1>4. /\ list \in Seq(S) /\ Once(list)
      /\ Cardinality(S) \in Nat /\ Len(list) = SmallestOf(k, Cardinality(S))
      /\ Members(list) = {a \in S : Place(a, S, Before(order)) < k}
      /\ \A a \in S : Place(a, S, Before(order)) \in 0..(Cardinality(S) - 1)
      /\ \A a \in Members(list) : RankIn(list, a) = Place(a, S, Before(order)) + 1
      /\ \A a \in S, b \in Members(list) :
           <<a, b>> \in Before(order) => /\ a \in Members(list)
                                         /\ RankIn(list, a) < RankIn(list, b)
      /\ Cardinality(S) <= k => Members(list) = S
  <2>1. list = AtMost(k, Ranked(S, Before(order)))
    BY <1>3
  <2>2. Tops(list, k, S, Before(order))
    BY <1>2, <2>1, TopLists
  <2> QED
    BY <2>2 DEF Tops
<1>5. Members(list) \subseteq Chunks
  BY <1>4
<1>6. \A a \in S : Place(a, S, Before(order)) \in Nat
  BY <1>4
<1>7. ASSUME NEW a \in S, NEW b \in Members(list), RankIn(order, a) < RankIn(order, b)
      PROVE  a \in Members(list) /\ RankIn(list, a) < RankIn(list, b)
  <2>1. <<a, b>> \in Before(order)
    BY <1>2, <1>5, <1>7
  <2> QED
    BY <1>4, <2>1
<1> QED
  BY <1>2, <1>4, <1>6, <1>7, Zenon DEF Finds

(* Products of numbers. *)
LEMMA Products ==
  ASSUME NEW i \in Nat, NEW j \in Nat, NEW c \in Nat
  PROVE  /\ i * c \in Nat
         /\ i <= j => i * c <= j * c
         /\ c > 0 /\ i * c <= j * c => i <= j
<1>1. i * c \in Nat
  OBVIOUS
<1>2. i <= j => i * c <= j * c
  <2> SUFFICES ASSUME i <= j PROVE i * c <= j * c
    OBVIOUS
  <2>1. PICK d \in Nat : j = i + d
    <3>1. j - i \in Nat /\ j = i + (j - i)
      OBVIOUS
    <3> QED
      BY <3>1
  <2>2. (i + d) * c = i * c + d * c /\ d * c \in Nat
    OBVIOUS
  <2> QED
    BY <1>1, <2>1, <2>2
<1>3. c > 0 /\ i * c <= j * c => i <= j
  <2> SUFFICES ASSUME c > 0, i * c <= j * c, j < i PROVE FALSE
    OBVIOUS
  <2>1. PICK d \in Nat : i = j + 1 + d
    <3>1. i - j - 1 \in Nat /\ i = j + 1 + (i - j - 1)
      OBVIOUS
    <3> QED
      BY <3>1
  <2>2. (j + 1 + d) * c = j * c + c + d * c /\ d * c \in Nat /\ j * c \in Nat
    OBVIOUS
  <2> QED
    BY <2>1, <2>2
<1> QED
  BY <1>1, <1>2, <1>3

Scores == Nat \X (Nat \ {0})

(* Scores are compared as fractions: it is a total preorder. *)
LEMMA ScoresCompare ==
  ASSUME NEW p \in Scores, NEW q \in Scores, NEW r \in Scores
  PROVE  /\ ~Exceeds(p, p)
         /\ ~Exceeds(p, q) \/ ~Exceeds(q, p)
         /\ ~Exceeds(q, p) /\ ~Exceeds(r, q) => ~Exceeds(r, p)
<1>1. /\ p[1] \in Nat /\ p[2] \in Nat /\ p[2] > 0
      /\ q[1] \in Nat /\ q[2] \in Nat /\ q[2] > 0
      /\ r[1] \in Nat /\ r[2] \in Nat /\ r[2] > 0
  BY DEF Scores
<1>2. \A i, j \in Nat : i * j \in Nat
  OBVIOUS
<1>3. ~Exceeds(p, p)
  BY <1>1, <1>2 DEF Exceeds
<1>4. ~Exceeds(p, q) \/ ~Exceeds(q, p)
  <2>1. p[1] * q[2] \in Nat /\ q[1] * p[2] \in Nat
    BY <1>1, <1>2
  <2> QED
    BY <2>1 DEF Exceeds
<1>5. ASSUME ~Exceeds(q, p), ~Exceeds(r, q) PROVE ~Exceeds(r, p)
  <2>1. \A i, j, k, m, n, o \in Nat :
          /\ j > 0 /\ m > 0 /\ o > 0
          /\ ~(k * j > i * m)
          /\ ~(n * m > k * o)
          => ~(n * j > i * o)
    <3> SUFFICES ASSUME NEW i \in Nat, NEW j \in Nat, NEW k \in Nat, NEW m \in Nat,
                        NEW n \in Nat, NEW o \in Nat, j > 0, m > 0, o > 0,
                        ~(k * j > i * m), ~(n * m > k * o)
                 PROVE  ~(n * j > i * o)
      OBVIOUS
    <3>1. /\ k * j \in Nat /\ i * m \in Nat /\ n * m \in Nat /\ k * o \in Nat
          /\ n * j \in Nat /\ i * o \in Nat
      BY <1>2
    <3>2. k * j <= i * m /\ n * m <= k * o
      BY <3>1
    <3>3. (k * j) * o <= (i * m) * o
      BY <3>1, <3>2, Products
    <3>4. (n * m) * j <= (k * o) * j
      BY <3>1, <3>2, Products
    <3>5. (k * j) * o = (k * o) * j /\ (n * m) * j = (n * j) * m /\ (i * m) * o = (i * o) * m
      OBVIOUS
    <3>6. /\ (k * o) * j \in Nat /\ (n * j) * m \in Nat /\ (i * o) * m \in Nat
      BY <1>2, <3>1
    <3>7. (n * j) * m <= (i * o) * m
      BY <3>3, <3>4, <3>5, <3>6
    <3>8. n * j <= i * o
      BY <3>1, <3>7, Products
    <3> QED
      BY <3>1, <3>8
  <2> QED
    BY <1>1, <1>5, <2>1 DEF Exceeds
<1> QED
  BY <1>3, <1>4, <1>5

(* A sum of fractions of which neither is greater, is not greater. *)
LEMMA SumsCompare ==
  ASSUME NEW p \in Scores, NEW q \in Scores, NEW r \in Scores, NEW s \in Scores,
         ~Exceeds(p, q), ~Exceeds(r, s)
  PROVE  /\ <<p[1] * r[2] + r[1] * p[2], p[2] * r[2]>> \in Scores
         /\ ~Exceeds(<<p[1] * r[2] + r[1] * p[2], p[2] * r[2]>>,
                     <<q[1] * s[2] + s[1] * q[2], q[2] * s[2]>>)
<1>1. /\ p[1] \in Nat /\ p[2] \in Nat \ {0} /\ q[1] \in Nat /\ q[2] \in Nat \ {0}
      /\ r[1] \in Nat /\ r[2] \in Nat \ {0} /\ s[1] \in Nat /\ s[2] \in Nat \ {0}
  BY DEF Scores
<1>2. \A i, j \in Nat : i * j \in Nat
  OBVIOUS
<1>3. \A i, j \in Nat \ {0} : i * j \in Nat \ {0}
  <2> TAKE i, j \in Nat \ {0}
  <2>1. 0 * j = 0 /\ 1 * j = j /\ 1 * j <= i * j
    BY Products
  <2> QED
    BY <1>2, <2>1
<1>4. <<p[1] * r[2] + r[1] * p[2], p[2] * r[2]>> \in Scores
  <2>1. p[1] * r[2] \in Nat /\ r[1] * p[2] \in Nat /\ p[2] * r[2] \in Nat \ {0}
    BY <1>1, <1>2, <1>3
  <2> QED
    BY <2>1 DEF Scores
<1>5. \A a, b, c, d, e, f, g, h \in Nat :
        ~(a * d > c * b) /\ ~(e * h > g * f) =>
          ~((a * f + e * b) * (d * h) > (c * h + g * d) * (b * f))
  <2> SUFFICES ASSUME NEW a \in Nat, NEW b \in Nat, NEW c \in Nat, NEW d \in Nat,
                      NEW e \in Nat, NEW f \in Nat, NEW g \in Nat, NEW h \in Nat,
                      ~(a * d > c * b), ~(e * h > g * f)
               PROVE  ~((a * f + e * b) * (d * h) > (c * h + g * d) * (b * f))
    OBVIOUS
  <2>1. /\ a * d \in Nat /\ c * b \in Nat /\ e * h \in Nat /\ g * f \in Nat
        /\ f * h \in Nat /\ b * d \in Nat
    BY <1>2
  <2>2. a * d <= c * b /\ e * h <= g * f
    BY <2>1
  <2>3. (a * d) * (f * h) <= (c * b) * (f * h) /\ (e * h) * (b * d) <= (g * f) * (b * d)
    BY <2>1, <2>2, Products
  <2>4. /\ (a * f + e * b) * (d * h) = (a * d) * (f * h) + (e * h) * (b * d)
        /\ (c * h + g * d) * (b * f) = (c * b) * (f * h) + (g * f) * (b * d)
    OBVIOUS
  <2>5. /\ (a * d) * (f * h) \in Nat /\ (e * h) * (b * d) \in Nat
        /\ (c * b) * (f * h) \in Nat /\ (g * f) * (b * d) \in Nat
    BY <1>2, <2>1
  <2>6. \A i, j, k, m \in Nat : i <= j /\ k <= m => ~(i + k > j + m)
    OBVIOUS
  <2> QED
    BY <2>3, <2>4, <2>5, <2>6
<1>6. ~((p[1] * r[2] + r[1] * p[2]) * (q[2] * s[2]) > (q[1] * s[2] + s[1] * q[2]) * (p[2] * r[2]))
  <2>1. ~(p[1] * q[2] > q[1] * p[2]) /\ ~(r[1] * s[2] > s[1] * r[2])
    BY DEF Exceeds
  <2> QED
    BY <1>1, <1>5, <2>1
<1> QED
  BY <1>4, <1>6 DEF Exceeds

(* One list after another that has no member of it. *)
LEMMA JoinedLists ==
  ASSUME NEW S, NEW one \in Seq(S), Once(one), NEW two \in Seq(S), Once(two),
         Members(one) \cap Members(two) = {}
  PROVE  /\ one \o two \in Seq(S) /\ Once(one \o two)
         /\ Members(one \o two) = Members(one) \cup Members(two)
         /\ \A a \in Members(one) : RankIn(one \o two, a) = RankIn(one, a)
         /\ \A a \in Members(two) : RankIn(one \o two, a) = Len(one) + RankIn(two, a)
<1> DEFINE L == one \o two
           m == Len(one)
           n == Len(two)
<1>1. /\ m \in Nat /\ n \in Nat /\ L \in Seq(S) /\ Len(L) = m + n
      /\ \A i \in 1..(m + n) : L[i] = IF i <= m THEN one[i] ELSE two[i - m]
  BY ConcatProperties
<1>2. /\ \A a \in Members(one) : RankIn(one, a) \in 1..m /\ one[RankIn(one, a)] = a
      /\ \A i \in 1..m : one[i] \in Members(one) /\ RankIn(one, one[i]) = i
      /\ \A a \in Members(two) : RankIn(two, a) \in 1..n /\ two[RankIn(two, a)] = a
      /\ \A i \in 1..n : two[i] \in Members(two) /\ RankIn(two, two[i]) = i
  BY OnceListed
<1>3. DOMAIN L = 1..(m + n)
  BY <1>1
<1> HIDE DEF L, m, n
<1>4. \A i \in 1..m : i \in 1..(m + n) /\ L[i] = one[i]
  BY <1>1
<1>5. \A i \in 1..n : m + i \in 1..(m + n) /\ L[m + i] = two[i]
  <2> TAKE i \in 1..n
  <2>1. m + i \in 1..(m + n) /\ ~(m + i <= m) /\ (m + i) - m = i
    BY <1>1
  <2> QED
    BY <1>1, <2>1
<1>6. \A i \in 1..(m + n) : i \in 1..m \/ \E j \in 1..n : i = m + j
  <2> TAKE i \in 1..(m + n)
  <2>1. i \in 1..m \/ (i - m \in 1..n /\ i = m + (i - m))
    BY <1>1
  <2> QED
    BY <2>1
<1>7. \A i, j \in 1..(m + n) : L[i] = L[j] => i = j
  <2> SUFFICES ASSUME NEW i \in 1..(m + n), NEW j \in 1..(m + n), L[i] = L[j]
               PROVE  i = j
    OBVIOUS
  <2>1. CASE i \in 1..m /\ j \in 1..m
    BY <1>2, <1>4, <2>1
  <2>2. CASE i \in 1..m /\ \E o \in 1..n : j = m + o
    BY <1>2, <1>4, <1>5, <2>2
  <2>3. CASE j \in 1..m /\ \E o \in 1..n : i = m + o
    BY <1>2, <1>4, <1>5, <2>3
  <2>4. ASSUME NEW o \in 1..n, NEW r \in 1..n, i = m + o, j = m + r PROVE i = j
    <3>1. two[o] = two[r]
      BY <1>5, <2>4
    <3> QED
      BY <1>2, <2>4, <3>1
  <2> QED
    BY <1>6, <2>1, <2>2, <2>3, <2>4
<1>8. Once(L)
  BY <1>3, <1>7 DEF Once
<1>9. \A i \in 1..(m + n) : L[i] \in Members(L) /\ RankIn(L, L[i]) = i
  BY <1>1, <1>8, OnceListed
<1>10. ASSUME NEW a \in Members(one) PROVE a \in Members(L) /\ RankIn(L, a) = RankIn(one, a)
  BY <1>2, <1>4, <1>9
<1>11. ASSUME NEW a \in Members(two) PROVE a \in Members(L) /\ RankIn(L, a) = m + RankIn(two, a)
  BY <1>2, <1>5, <1>9
<1>12. ASSUME NEW a \in Members(L) PROVE a \in Members(one) \cup Members(two)
  <2>1. PICK i \in 1..(m + n) : a = L[i]
    BY <1>3 DEF Members
  <2> QED
    BY <1>2, <1>4, <1>5, <1>6, <2>1
<1>13. Members(L) = Members(one) \cup Members(two)
  BY <1>10, <1>11, <1>12
<1> QED
  BY <1>1, <1>8, <1>10, <1>11, <1>13 DEF L, m

(* A chunk that neither list puts after another has no lower score. *)
NotAfter(list, a, b) ==
  b \in Members(list) => a \in Members(list) /\ RankIn(list, a) <= RankIn(list, b)

(* What a list contributes to a score falls with the rank, and is nothing  *)
(* for what it does not list.                                              *)
LEMMA Contributions ==
  ASSUME NEW S, NEW list \in Seq(S), Once(list), NEW w \in Nat
  PROVE  /\ \A a \in Members(list) \cup S : Contribution(list, a, w) \in Scores
         /\ \A a, b \in Members(list) \cup S :
              NotAfter(list, a, b) =>
                ~Exceeds(Contribution(list, b, w), Contribution(list, a, w))
<1>1. \A a \in Members(list) : RankIn(list, a) \in Nat
  <2>1. Len(list) \in Nat /\ \A a \in Members(list) : RankIn(list, a) \in 1..Len(list)
    BY OnceListed
  <2> QED
    BY <2>1
<1>2. ASSUME NEW a \in Members(list) \cup S
      PROVE  Contribution(list, a, w) \in Scores
  BY <1>1 DEF Contribution, Scores
<1>3. ASSUME NEW a \in Members(list) \cup S, NEW b \in Members(list) \cup S,
             NotAfter(list, a, b)
      PROVE  ~Exceeds(Contribution(list, b, w), Contribution(list, a, w))
  <2>1. CASE b \in Members(list)
    <3>1. /\ a \in Members(list) /\ RankIn(list, a) <= RankIn(list, b)
          /\ RankIn(list, a) \in Nat /\ RankIn(list, b) \in Nat
      BY <1>1, <1>3, <2>1 DEF NotAfter
    <3>2. (60 + RankIn(list, a)) * w <= (60 + RankIn(list, b)) * w
      <4>1. /\ 60 + RankIn(list, a) \in Nat /\ 60 + RankIn(list, b) \in Nat
            /\ 60 + RankIn(list, a) <= 60 + RankIn(list, b)
        BY <3>1
      <4> QED
        BY <4>1, Products
    <3>3. /\ Contribution(list, a, w) = <<w, 60 + RankIn(list, a)>>
          /\ Contribution(list, b, w) = <<w, 60 + RankIn(list, b)>>
      BY <2>1, <3>1 DEF Contribution
    <3>4. \A i, j \in Nat : i * w <= j * w => ~(w * i > w * j)
      OBVIOUS
    <3>5. ~(w * (60 + RankIn(list, a)) > w * (60 + RankIn(list, b)))
      BY <3>1, <3>2, <3>4
    <3> QED
      BY <3>3, <3>5 DEF Exceeds
  <2>2. CASE b \notin Members(list)
    <3>1. PICK i \in Nat, j \in Nat : Contribution(list, a, w) = <<i, j>>
      BY <1>2 DEF Scores
    <3>2. Contribution(list, b, w) = <<0, 1>>
      BY <2>2 DEF Contribution
    <3>3. ~(0 * j > i * 1)
      OBVIOUS
    <3> QED
      BY <3>1, <3>2, <3>3 DEF Exceeds
  <2> QED
    BY <2>1, <2>2
<1> QED
  BY <1>2, <1>3

(* So the score does, as far as both lists agree.                          *)
LEMMA ScoresFollowRanks ==
  ASSUME NEW S, NEW dense \in Seq(S), Once(dense), NEW sparse \in Seq(S), Once(sparse)
  PROVE  /\ \A a \in S : FusedScore(dense, sparse, a) \in Scores
         /\ \A a, b \in S :
              NotAfter(dense, a, b) /\ NotAfter(sparse, a, b) =>
                ~Exceeds(FusedScore(dense, sparse, b), FusedScore(dense, sparse, a))
<1>1. \A a \in S : Contribution(dense, a, 7) \in Scores /\ Contribution(sparse, a, 3) \in Scores
  BY Contributions
<1>2. ASSUME NEW a \in S, NEW b \in S, NotAfter(dense, a, b), NotAfter(sparse, a, b)
      PROVE  /\ FusedScore(dense, sparse, b) \in Scores
             /\ ~Exceeds(FusedScore(dense, sparse, b), FusedScore(dense, sparse, a))
  <2>1. /\ ~Exceeds(Contribution(dense, b, 7), Contribution(dense, a, 7))
        /\ ~Exceeds(Contribution(sparse, b, 3), Contribution(sparse, a, 3))
    BY <1>2, Contributions
  <2> QED
    BY <1>1, <2>1, SumsCompare DEF FusedScore
<1>3. ASSUME NEW a \in S PROVE FusedScore(dense, sparse, a) \in Scores
  <2>1. \A i \in Nat : i <= i
    OBVIOUS
  <2>2. Len(dense) \in Nat /\ Len(sparse) \in Nat
    OBVIOUS
  <2>3. /\ \A c \in Members(dense) : RankIn(dense, c) \in 1..Len(dense)
        /\ \A c \in Members(sparse) : RankIn(sparse, c) \in 1..Len(sparse)
    BY OnceListed
  <2>4. /\ \A c \in Members(dense) : RankIn(dense, c) <= RankIn(dense, c)
        /\ \A c \in Members(sparse) : RankIn(sparse, c) <= RankIn(sparse, c)
    BY <2>1, <2>2, <2>3
  <2>5. NotAfter(dense, a, a) /\ NotAfter(sparse, a, a)
    BY <2>4 DEF NotAfter
  <2> QED
    BY <1>2, <2>5
<1> QED
  BY <1>2, <1>3

SortsFusion(R, T, dense, sparse) ==
  /\ StrictlyOrders(R, T) /\ Fusion(dense, sparse) = Ranked(T, R)
  /\ \A a, b \in T :
       a # b /\ NotAfter(dense, a, b) /\ NotAfter(sparse, a, b) => <<a, b>> \in R

FusionOrder(T, dense, sparse) == CHOOSE R : SortsFusion(R, T, dense, sparse)

(* The fusion of two lists sorts their chunks by an order in which a chunk *)
(* that neither of the lists puts after another, comes before it.          *)
LEMMA FusionSorts ==
  ASSUME NEW S \in SUBSET Chunks, NEW dense \in Seq(S), Once(dense),
         NEW sparse \in Seq(S), Once(sparse),
         NEW T, T = Members(dense) \cup Members(sparse)
  PROVE  /\ IsFiniteSet(T) /\ T \in SUBSET S
         /\ SortsFusion(FusionOrder(T, dense, sparse), T, dense, sparse)
<1> DEFINE rest == Members(sparse) \ Members(dense)
           kept == Keeping(sparse, rest)
           listed == dense \o kept
           score(a) == FusedScore(dense, sparse, a)
           R == {e \in T \X T : \/ Exceeds(score(e[1]), score(e[2]))
                                \/ ~Exceeds(score(e[2]), score(e[1])) /\ e \in Before(listed)}
<1>1. /\ Members(dense) \in SUBSET S /\ Members(sparse) \in SUBSET S
      /\ \A a \in Members(dense) : RankIn(dense, a) \in 1..Len(dense)
      /\ \A a \in Members(sparse) : RankIn(sparse, a) \in 1..Len(sparse)
      /\ Len(dense) \in Nat /\ Len(sparse) \in Nat
      /\ \A a, b \in Members(dense) : RankIn(dense, a) = RankIn(dense, b) => a = b
      /\ \A a, b \in Members(sparse) : RankIn(sparse, a) = RankIn(sparse, b) => a = b
  <2>1. /\ Members(dense) \in SUBSET S /\ Len(dense) \in Nat
        /\ \A a \in Members(dense) : /\ RankIn(dense, a) \in 1..Len(dense)
                                     /\ dense[RankIn(dense, a)] = a
    BY OnceListed
  <2>2. /\ Members(sparse) \in SUBSET S /\ Len(sparse) \in Nat
        /\ \A a \in Members(sparse) : /\ RankIn(sparse, a) \in 1..Len(sparse)
                                      /\ sparse[RankIn(sparse, a)] = a
    BY OnceListed
  <2>3. \A a, b \in Members(dense) : RankIn(dense, a) = RankIn(dense, b) => a = b
    BY <2>1
  <2>4. \A a, b \in Members(sparse) : RankIn(sparse, a) = RankIn(sparse, b) => a = b
    BY <2>2
  <2> QED
    BY <2>1, <2>2, <2>3, <2>4
<1>2. rest \in SUBSET Members(sparse) /\ rest \in SUBSET S
  BY <1>1
<1> HIDE DEF rest
<1>3. /\ kept \in Seq(S) /\ Once(kept) /\ Members(kept) = rest
      /\ \A a, b \in rest : RankIn(sparse, a) < RankIn(sparse, b) =>
                              RankIn(kept, a) < RankIn(kept, b)
  <2>1. /\ StrictlyOrders(Before(sparse), rest) /\ IsFiniteSet(rest)
        /\ \A a, b \in Members(sparse) :
             <<a, b>> \in Before(sparse) <=> RankIn(sparse, a) < RankIn(sparse, b)
    BY <1>2, ListsOrder
  <2>2. kept = Ranked(rest, Before(sparse))
    BY <1>2, KeptLists
  <2> HIDE DEF kept
  <2>3. /\ kept \in Seq(rest) /\ Members(kept) = rest /\ Once(kept)
        /\ \A a \in rest : RankIn(kept, a) = Place(a, rest, Before(sparse)) + 1
    BY <2>1, <2>2, RankedLists
  <2>4. kept \in Seq(S)
    BY <1>2, <2>3, SeqMonotonic
  <2>5. /\ Cardinality(rest) \in Nat
        /\ \A a \in rest : Place(a, rest, Before(sparse)) \in 0..(Cardinality(rest) - 1)
        /\ \A a, b \in rest : <<a, b>> \in Before(sparse) <=>
             Place(a, rest, Before(sparse)) < Place(b, rest, Before(sparse))
    BY <2>1, PlacesFollowOrder
  <2>6. ASSUME NEW a \in rest, NEW b \in rest, RankIn(sparse, a) < RankIn(sparse, b)
        PROVE  RankIn(kept, a) < RankIn(kept, b)
    <3>1. Place(a, rest, Before(sparse)) < Place(b, rest, Before(sparse))
      BY <1>2, <2>1, <2>5, <2>6
    <3>2. /\ Place(a, rest, Before(sparse)) \in Nat
          /\ Place(b, rest, Before(sparse)) \in Nat
      BY <2>5
    <3> QED
      BY <2>3, <3>1, <3>2
  <2> QED
    BY <2>3, <2>4, <2>6
<1> HIDE DEF kept
<1>4. /\ listed \in Seq(S) /\ Once(listed) /\ Members(listed) = T
      /\ \A a \in Members(dense) : RankIn(listed, a) = RankIn(dense, a)
      /\ \A a \in rest : RankIn(listed, a) = Len(dense) + RankIn(kept, a)
  <2>1. Members(dense) \cap Members(kept) = {}
    BY <1>3 DEF rest
  <2>2. Members(dense) \cup Members(kept) = T
    BY <1>3 DEF rest
  <2> QED
    BY <1>3, <2>1, <2>2, JoinedLists
<1> HIDE DEF listed
<1>5. /\ \A a \in T : RankIn(listed, a) \in Nat
      /\ \A a, b \in T : <<a, b>> \in Before(listed) <=> RankIn(listed, a) < RankIn(listed, b)
      /\ \A a, b \in T : RankIn(listed, a) = RankIn(listed, b) => a = b
      /\ IsFiniteSet(T) /\ T \in SUBSET S
  <2>1. /\ Members(listed) \in SUBSET S /\ IsFiniteSet(Members(listed)) /\ Len(listed) \in Nat
        /\ \A a \in Members(listed) : /\ RankIn(listed, a) \in 1..Len(listed)
                                      /\ listed[RankIn(listed, a)] = a
    BY <1>4, OnceListed
  <2>2. \A a, b \in Members(listed) :
          <<a, b>> \in Before(listed) <=> RankIn(listed, a) < RankIn(listed, b)
    BY <1>4, ListsOrder
  <2>3. \A a, b \in Members(listed) : RankIn(listed, a) = RankIn(listed, b) => a = b
    BY <2>1
  <2>4. \A a \in Members(listed) : RankIn(listed, a) \in Nat
    BY <2>1
  <2> QED
    BY <1>4, <2>1, <2>2, <2>3, <2>4
<1>6. /\ \A a \in S : score(a) \in Scores
      /\ \A a, b \in S : NotAfter(dense, a, b) /\ NotAfter(sparse, a, b) =>
                           ~Exceeds(score(b), score(a))
  BY ScoresFollowRanks
<1>7. Fusion(dense, sparse) = Ranked(T, R)
  BY <1>4 DEF Fusion, listed, kept, rest
<1>8. \A a, b \in T : <<a, b>> \in R <=>
        \/ Exceeds(score(a), score(b))
        \/ ~Exceeds(score(b), score(a)) /\ <<a, b>> \in Before(listed)
  OBVIOUS
<1> HIDE DEF R
<1>9. StrictlyOrders(R, T)
  <2> DEFINE above(a, b) == Exceeds(score(a), score(b))
  <2>1. \A a \in T : score(a) \in Scores
    BY <1>5, <1>6
  <2> HIDE DEF score
  <2>2. /\ \A a \in T : ~above(a, a)
        /\ \A a, b \in T : ~above(a, b) \/ ~above(b, a)
        /\ \A a, b, c \in T : ~above(b, a) /\ ~above(c, b) => ~above(c, a)
    BY <2>1, ScoresCompare
  <2>3. /\ \A a \in T : <<a, a>> \notin Before(listed)
        /\ \A a, b, c \in T : <<a, b>> \in Before(listed) /\ <<b, c>> \in Before(listed) =>
                                <<a, c>> \in Before(listed)
        /\ \A a, b \in T : a = b \/ <<a, b>> \in Before(listed) \/ <<b, a>> \in Before(listed)
    BY <1>5
  <2>4. \A a, b \in T : <<a, b>> \in R <=>
          above(a, b) \/ (~above(b, a) /\ <<a, b>> \in Before(listed))
    BY <1>8
  <2> HIDE DEF above
  <2>5. \A a \in T : <<a, a>> \notin R
    BY <2>2, <2>3, <2>4
  <2>6. \A a, b \in T : a = b \/ <<a, b>> \in R \/ <<b, a>> \in R
    BY <2>2, <2>3, <2>4
  <2>7. ASSUME NEW a \in T, NEW b \in T, NEW c \in T, <<a, b>> \in R, <<b, c>> \in R
        PROVE  <<a, c>> \in R
    <3>1. ~above(b, a) /\ ~above(c, b) /\ ~above(c, a)
      BY <2>2, <2>4, <2>7
    <3>2. CASE above(a, b)
      BY <2>2, <2>4, <3>1, <3>2
    <3>3. CASE above(b, c)
      BY <2>2, <2>4, <3>1, <3>3
    <3>4. CASE ~above(a, b) /\ ~above(b, c)
      BY <2>3, <2>4, <2>7, <3>1, <3>4
    <3> QED
      BY <3>2, <3>3, <3>4
  <2> QED
    BY <2>5, <2>6, <2>7 DEF StrictlyOrders
<1>10. ASSUME NEW a \in T, NEW b \in T, a # b, NotAfter(dense, a, b), NotAfter(sparse, a, b)
       PROVE  <<a, b>> \in R
  <2>1. a \in S /\ b \in S
    BY <1>5
  <2>2. ~Exceeds(score(b), score(a))
    BY <1>6, <1>10, <2>1
  <2>3. RankIn(listed, a) < RankIn(listed, b)
    <3>1. a \in Members(dense) \/ a \in rest
      BY DEF rest
    <3>2. CASE b \in Members(dense)
      <4>1. a \in Members(dense) /\ RankIn(dense, a) <= RankIn(dense, b)
        BY <1>10, <3>2 DEF NotAfter
      <4>2. RankIn(dense, a) \in Nat /\ RankIn(dense, b) \in Nat
        BY <1>1, <3>2, <4>1
      <4>3. RankIn(dense, a) # RankIn(dense, b)
        BY <1>1, <1>10, <3>2, <4>1
      <4> QED
        BY <1>4, <3>2, <4>1, <4>2, <4>3
    <3>3. CASE b \in rest /\ a \in Members(dense)
      <4>1. RankIn(kept, b) \in 1..Len(kept) /\ Len(kept) \in Nat
        BY <1>3, <3>3, OnceListed
      <4>2. RankIn(dense, a) \in 1..Len(dense)
        BY <1>1, <3>3
      <4> QED
        BY <1>1, <1>4, <3>3, <4>1, <4>2
    <3>4. CASE b \in rest /\ a \in rest
      <4>1. RankIn(sparse, a) <= RankIn(sparse, b) /\ RankIn(sparse, a) # RankIn(sparse, b)
        BY <1>1, <1>2, <1>10, <3>4 DEF NotAfter
      <4>2. RankIn(sparse, a) \in 1..Len(sparse) /\ RankIn(sparse, b) \in 1..Len(sparse)
        BY <1>1, <1>2, <3>4
      <4>3. RankIn(sparse, a) < RankIn(sparse, b)
        BY <1>1, <4>1, <4>2
      <4>4. RankIn(kept, a) < RankIn(kept, b)
        BY <1>3, <3>4, <4>3
      <4>5. /\ RankIn(kept, a) \in 1..Len(kept) /\ RankIn(kept, b) \in 1..Len(kept)
            /\ Len(kept) \in Nat
        BY <1>3, <3>4, OnceListed
      <4> QED
        BY <1>1, <1>4, <3>4, <4>4, <4>5
    <3> QED
      BY <3>1, <3>2, <3>3, <3>4 DEF rest
  <2> QED
    BY <1>5, <1>8, <2>2, <2>3
<1>11. SortsFusion(R, T, dense, sparse)
  BY <1>7, <1>9, <1>10 DEF SortsFusion
<1> QED
  BY <1>5, <1>11 DEF FusionOrder

(* So a cut of it has nothing that comes after what it leaves out. *)
Fuses(list, k, T, dense, sparse, S) ==
  /\ list \in Seq(S) /\ Once(list) /\ IsFiniteSet(T) /\ T \in SUBSET S
  /\ Members(list) \subseteq T
  /\ Cardinality(T) \in Nat /\ Len(list) = SmallestOf(k, Cardinality(T))
  /\ \A a \in T, b \in Members(list) :
       a # b /\ NotAfter(dense, a, b) /\ NotAfter(sparse, a, b) =>
         a \in Members(list) /\ RankIn(list, a) < RankIn(list, b)

(* The fused list, cut to what is asked for.                               *)
LEMMA FusedLists ==
  ASSUME NEW S \in SUBSET Chunks, NEW dense \in Seq(S), Once(dense),
         NEW sparse \in Seq(S), Once(sparse), NEW k \in Nat,
         NEW list, list = AtMost(k, Fusion(dense, sparse)),
         NEW T, T = Members(dense) \cup Members(sparse)
  PROVE  Fuses(list, k, T, dense, sparse, S)
<1>1. IsFiniteSet(T) /\ T \in SUBSET S
  BY FusionSorts
<1>2. PICK R : R = FusionOrder(T, dense, sparse)
  OBVIOUS
<1>3. SortsFusion(R, T, dense, sparse)
  BY <1>2, FusionSorts
<1>4. list = AtMost(k, Ranked(T, R)) /\ StrictlyOrders(R, T)
  BY <1>3 DEF SortsFusion
<1>5. Tops(list, k, T, R)
  BY <1>1, <1>4, TopLists
<1>6. list \in Seq(S) /\ Members(list) \subseteq T
  BY <1>1, <1>5, SeqMonotonic DEF Tops
<1> QED
  BY <1>1, <1>3, <1>5, <1>6 DEF Tops, SortsFusion, Fuses

(* The merge of lists of which no two share a chunk sorts their chunks, by *)
(* an order in which a lower rank comes first.                             *)
Listed(lists)         == UNION {Members(lists[n]) : n \in DOMAIN lists}
OwnList(lists, a)     == CHOOSE n \in DOMAIN lists : a \in Members(lists[n])
OwnRank(lists, a)     == RankIn(lists[OwnList(lists, a)], a)
MergeOrder(lists) ==
  {e \in Listed(lists) \X Listed(lists) :
     \/ OwnRank(lists, e[1]) < OwnRank(lists, e[2])
     \/ /\ OwnRank(lists, e[1]) = OwnRank(lists, e[2])
        /\ OwnList(lists, e[1]) < OwnList(lists, e[2])}

SortsMerge(lists) ==
  /\ MergedLists(lists) = Ranked(Listed(lists), MergeOrder(lists))
  /\ StrictlyOrders(MergeOrder(lists), Listed(lists))
  /\ \A m, n \in DOMAIN lists : \A a \in Members(lists[m]), b \in Members(lists[n]) :
       RankIn(lists[m], a) < RankIn(lists[n], b) => <<a, b>> \in MergeOrder(lists)

(* The merged list is sorted by rank.                                      *)
LEMMA MergeSorts ==
  ASSUME NEW S, NEW lists, DOMAIN lists \subseteq Nat,
         \A n \in DOMAIN lists : lists[n] \in Seq(S) /\ Once(lists[n]),
         \A m, n \in DOMAIN lists : m # n => Members(lists[m]) \cap Members(lists[n]) = {}
  PROVE  SortsMerge(lists)
<1> DEFINE T == Listed(lists)
           own(a) == OwnList(lists, a)
           rank(a) == OwnRank(lists, a)
           R == MergeOrder(lists)
<1>1. MergedLists(lists) = Ranked(T, R)
  BY DEF MergedLists, Listed, MergeOrder, OwnList, OwnRank
<1>2. ASSUME NEW n \in DOMAIN lists, NEW a \in Members(lists[n])
      PROVE  a \in T /\ own(a) = n /\ rank(a) = RankIn(lists[n], a)
  <2>1. own(a) \in DOMAIN lists /\ a \in Members(lists[own(a)])
    BY <1>2 DEF OwnList
  <2>2. own(a) = n
    BY <1>2, <2>1
  <2>3. a \in T
    BY <1>2 DEF Listed
  <2> QED
    BY <2>2, <2>3 DEF OwnRank
<1>3. \A a \in T : \E n \in DOMAIN lists : a \in Members(lists[n])
  BY DEF Listed
<1>4. \A n \in DOMAIN lists : \A a \in Members(lists[n]) :
        RankIn(lists[n], a) \in Nat /\ lists[n][RankIn(lists[n], a)] = a
  <2> TAKE n \in DOMAIN lists
  <2>1. /\ Len(lists[n]) \in Nat
        /\ \A a \in Members(lists[n]) : /\ RankIn(lists[n], a) \in 1..Len(lists[n])
                                        /\ lists[n][RankIn(lists[n], a)] = a
    BY OnceListed
  <2> QED
    BY <2>1
<1>5. \A a, b \in T : <<a, b>> \in R <=>
        rank(a) < rank(b) \/ (rank(a) = rank(b) /\ own(a) < own(b))
  BY DEF MergeOrder
<1> HIDE DEF own, rank, R, T
<1>6. \A a \in T : /\ own(a) \in DOMAIN lists /\ own(a) \in Nat /\ rank(a) \in Nat
                   /\ lists[own(a)][rank(a)] = a
  BY <1>2, <1>3, <1>4
<1>7. \A a, b \in T : own(a) = own(b) /\ rank(a) = rank(b) => a = b
  BY <1>6
<1>8. StrictlyOrders(R, T)
  <2>1. \A a \in T : own(a) \in Nat /\ rank(a) \in Nat
    BY <1>6
  <2>2. \A a \in T : <<a, a>> \notin R
    BY <1>5, <2>1
  <2>3. \A a, b, c \in T : <<a, b>> \in R /\ <<b, c>> \in R => <<a, c>> \in R
    BY <1>5, <2>1
  <2>4. ASSUME NEW a \in T, NEW b \in T PROVE a = b \/ <<a, b>> \in R \/ <<b, a>> \in R
    <3>1. CASE rank(a) = rank(b) /\ own(a) = own(b)
      BY <1>7, <3>1
    <3>2. CASE rank(a) # rank(b) \/ own(a) # own(b)
      <4>1. rank(a) \in Nat /\ rank(b) \in Nat /\ own(a) \in Nat /\ own(b) \in Nat
        BY <2>1
      <4>2. \/ rank(a) < rank(b) \/ rank(b) < rank(a)
            \/ rank(a) = rank(b) /\ own(a) < own(b)
            \/ rank(b) = rank(a) /\ own(b) < own(a)
        BY <3>2, <4>1
      <4> QED
        BY <1>5, <4>2
    <3> QED
      BY <3>1, <3>2
  <2> QED
    BY <2>2, <2>3, <2>4 DEF StrictlyOrders
<1>9. \A m, n \in DOMAIN lists : \A a \in Members(lists[m]), b \in Members(lists[n]) :
        RankIn(lists[m], a) < RankIn(lists[n], b) => <<a, b>> \in R
  BY <1>2, <1>5
<1> QED
  BY <1>1, <1>8, <1>9 DEF SortsMerge, R, T

(***************************************************************************)
(* What a search promises, for a state of the index and a request.         *)
(***************************************************************************)
InsideOf(idx, c)     == {a \in idx : CollectionOf[a] = c}
TargetOf(req)        == IF req.collection = NoCollection THEN DefaultCollection
                        ELSE req.collection
RetrieveKOf(req)     == IF req.rerank THEN SmallestOf(req.topK * 4, RerankCap) ELSE req.topK
HybridKOf(req)       == SmallestOf(RetrieveKOf(req) * 4, HybridCap)
HybridKeptOf(req)    == IF req.filter = "dense only" THEN Chunks ELSE KeptBy[req.filter]
RelevantOf(req)      == {a \in Chunks : RankIn(req.dense, a) <= req.relevant}
SparseOf(req)        == {a \in Chunks : RankIn(req.sparse, a) <= req.matching}
CandidatesOf(idx, req) ==
  IF req.multi THEN idx \cap KeptBy[req.filter] \cap RelevantOf(req)
  ELSE IF req.hybrid
  THEN InsideOf(idx, DefaultCollection) \cap HybridKeptOf(req)
         \cap (RelevantOf(req) \cup SparseOf(req))
  ELSE InsideOf(idx, TargetOf(req)) \cap KeptBy[req.filter] \cap RelevantOf(req)
RankOf(idx, req, a) ==
  Cardinality({y \in CandidatesOf(idx, req) :
                 /\ CollectionOf[y] = CollectionOf[a]
                 /\ RankIn(req.dense, y) < RankIn(req.dense, a)})
Ahead(idx, req, a, b) ==
  IF req.multi THEN RankOf(idx, req, a) < RankOf(idx, req, b)
  ELSE /\ RankIn(req.dense, a) < RankIn(req.dense, b)
       /\ req.hybrid => RankIn(req.sparse, a) < RankIn(req.sparse, b)

CompleteList(list, k, idx, req) ==
  /\ list \in Seq(CandidatesOf(idx, req)) /\ Once(list)
  /\ Len(list) = SmallestOf(k, Cardinality(CandidatesOf(idx, req)))
  /\ ~req.rerank \/ req.multi =>
       \A a \in CandidatesOf(idx, req), b \in Members(list) :
         Ahead(idx, req, a, b) => a \in Members(list) /\ RankIn(list, a) < RankIn(list, b)

(* The smaller of two numbers, twice.                                      *)
LEMMA Smallest ==
  ASSUME NEW k \in Nat, NEW m \in Nat, NEW n \in Nat, k <= m
  PROVE  /\ SmallestOf(k, SmallestOf(m, n)) = SmallestOf(k, n)
         /\ SmallestOf(m, n) \in Nat
         /\ m <= n => SmallestOf(k, m) = k /\ SmallestOf(k, n) = k
BY DEF SmallestOf

(* The fields of a search, and that it retrieves no less than it returns.  *)
LEMMA RequestFields ==
  ASSUME NEW req \in SearchRequests
  PROVE  /\ req.collection \in Collections \cup {NoCollection} /\ req.multi \in BOOLEAN
         /\ req.filter \in Filters /\ req.topK \in TopKs /\ req.hybrid \in BOOLEAN
         /\ req.rerank \in BOOLEAN /\ req.dense \in Orders /\ req.sparse \in Orders
         /\ req.cross \in Orders /\ req.tool = "search_kb"
         /\ req.topK \in Nat /\ RetrieveKOf(req) \in Nat /\ req.topK <= RetrieveKOf(req)
         /\ TargetOf(req) \in Collections
         /\ req.relevant \in Nat /\ req.matching \in Nat
         /\ HybridKOf(req) \in Nat /\ RetrieveKOf(req) <= HybridKOf(req)
<1>1. /\ req.collection \in Collections \cup {NoCollection} /\ req.multi \in BOOLEAN
      /\ req.filter \in Filters /\ req.topK \in TopKs /\ req.hybrid \in BOOLEAN
      /\ req.rerank \in BOOLEAN /\ req.dense \in Orders /\ req.sparse \in Orders
      /\ req.cross \in Orders /\ req.tool = "search_kb"
  BY DEF SearchRequests
<1>2. req.topK \in Nat /\ req.topK <= RerankCap /\ RerankCap \in Nat
  <2>1. req.topK \in 1..RerankCap /\ RerankCap \in Nat
    BY <1>1, RetrievalAssumption
  <2> QED
    BY <2>1
<1>3. RetrieveKOf(req) \in Nat /\ req.topK <= RetrieveKOf(req)
  BY <1>2 DEF RetrieveKOf, SmallestOf
<1>4. TargetOf(req) \in Collections
  <2>1. DefaultCollection \in Collections
    BY RetrievalAssumption
  <2> QED
    BY <1>1, <2>1 DEF TargetOf
<1>5. req.relevant \in Nat /\ req.matching \in Nat
  <2>1. req.relevant \in Depths /\ req.matching \in Depths \cup {0}
    BY DEF SearchRequests
  <2>2. Depths \subseteq Nat /\ 0 \in Nat
    BY RetrievalAssumption
  <2> QED
    BY <2>1, <2>2, Zenon
<1>6. HybridKOf(req) \in Nat /\ RetrieveKOf(req) <= HybridKOf(req)
  <2>1. HybridCap \in Nat /\ RerankCap \in Nat /\ RerankCap <= HybridCap
    BY RetrievalAssumption
  <2>2. RetrieveKOf(req) <= RerankCap
    BY <1>2 DEF RetrieveKOf, SmallestOf
  <2> QED
    BY <1>3, <2>1, <2>2 DEF HybridKOf, SmallestOf
<1> QED
  BY <1>1, <1>2, <1>3, <1>4, <1>5, <1>6

(* What a search may return is finitely many chunks.                       *)
LEMMA CandidatesTyped ==
  ASSUME NEW req \in SearchRequests, NEW idx \in SUBSET Chunks
  PROVE  /\ CandidatesOf(idx, req) \in SUBSET Chunks /\ IsFiniteSet(CandidatesOf(idx, req))
         /\ Cardinality(CandidatesOf(idx, req)) \in Nat
<1>1. CandidatesOf(idx, req) \in SUBSET Chunks
  BY DEF CandidatesOf, InsideOf
<1> QED
  BY <1>1, FS_Subset, FS_CardinalityType, RetrievalAssumption

(* A complete list that is cut to fewer is complete for fewer. *)
LEMMA CompleteCut ==
  ASSUME NEW req \in SearchRequests, NEW idx \in SUBSET Chunks,
         NEW k \in Nat, NEW m \in Nat, k <= m, NEW list, CompleteList(list, m, idx, req)
  PROVE  CompleteList(AtMost(k, list), k, idx, req)
<1> DEFINE C == CandidatesOf(idx, req)
           cut == AtMost(k, list)
<1>1. Cardinality(C) \in Nat
  BY CandidatesTyped
<1>2. /\ list \in Seq(C) /\ Once(list) /\ Len(list) = SmallestOf(m, Cardinality(C))
      /\ ~req.rerank \/ req.multi =>
           \A a \in C, b \in Members(list) :
             Ahead(idx, req, a, b) => a \in Members(list) /\ RankIn(list, a) < RankIn(list, b)
  BY DEF CompleteList
<1> HIDE DEF C
<1>3. /\ cut \in Seq(C) /\ Once(cut) /\ Len(cut) = SmallestOf(k, Len(list))
      /\ Members(cut) = {a \in Members(list) : RankIn(list, a) <= k}
      /\ \A a \in Members(cut) : RankIn(cut, a) = RankIn(list, a)
  <2>1. list \in Seq(C) /\ Once(list)
    BY <1>2
  <2>2. Cuts(cut, k, list, C)
    BY <2>1, CutLists
  <2> QED
    BY <2>2 DEF Cuts
<1> HIDE DEF cut
<1>4. Len(cut) = SmallestOf(k, Cardinality(C))
  BY <1>1, <1>2, <1>3, Smallest
<1>5. ASSUME ~req.rerank \/ req.multi, NEW a \in C, NEW b \in Members(cut),
             Ahead(idx, req, a, b)
      PROVE  a \in Members(cut) /\ RankIn(cut, a) < RankIn(cut, b)
  <2>1. b \in Members(list) /\ RankIn(list, b) <= k
    BY <1>3
  <2>2. a \in Members(list) /\ RankIn(list, a) < RankIn(list, b)
    BY <1>2, <1>5, <2>1
  <2>3. /\ Len(list) \in Nat
        /\ RankIn(list, a) \in 1..Len(list) /\ RankIn(list, b) \in 1..Len(list)
    BY <1>2, <2>1, <2>2, OnceListed
  <2>4. RankIn(list, a) <= k
    BY <2>1, <2>2, <2>3
  <2> QED
    BY <1>3, <2>2, <2>4
<1> QED
  BY <1>3, <1>4, <1>5 DEF CompleteList, C, cut

(* A dense search alone. *)
LEMMA DenseComplete ==
  ASSUME NEW req \in SearchRequests, NEW idx \in SUBSET Chunks, NEW k \in Nat,
         ~req.multi, ~req.hybrid,
         NEW list, list = AtMost(k, Keeping(req.dense, CandidatesOf(idx, req)))
  PROVE  CompleteList(list, k, idx, req)
<1> DEFINE C == CandidatesOf(idx, req)
<1>1. C \in SUBSET Chunks /\ req.dense \in Orders
  BY CandidatesTyped, RequestFields
<1>2. list = AtMost(k, Keeping(req.dense, C))
  OBVIOUS
<1> HIDE DEF C
<1>3. Finds(list, k, req.dense, C)
  BY <1>1, <1>2, SearchLists
<1>4. list \in Seq(C) /\ Once(list) /\ Len(list) = SmallestOf(k, Cardinality(C))
  BY <1>3 DEF Finds
<1>5. \A a \in C, b \in Members(list) :
        RankIn(req.dense, a) < RankIn(req.dense, b) =>
          a \in Members(list) /\ RankIn(list, a) < RankIn(list, b)
  BY <1>3 DEF Finds
<1>6. \A a, b : Ahead(idx, req, a, b) => RankIn(req.dense, a) < RankIn(req.dense, b)
  BY DEF Ahead
<1> QED
  BY <1>4, <1>5, <1>6 DEF CompleteList, C

(* Of what a search lists for an order, nothing comes after what comes     *)
(* before it in the order.                                                 *)
KeepsOrder(list, order, S) ==
  /\ list \in Seq(S) /\ Once(list)
  /\ \A a, b \in S : RankIn(order, a) < RankIn(order, b) => a # b /\ NotAfter(list, a, b)

LEMMA SearchFollowsOrder ==
  ASSUME NEW order \in Orders, NEW S \in SUBSET Chunks, NEW k \in Nat,
         NEW list, list = AtMost(k, Keeping(order, S))
  PROVE  KeepsOrder(list, order, S)
<1>1. Finds(list, k, order, S)
  BY SearchLists
<1>2. /\ list \in Seq(S) /\ Once(list)
      /\ \A a \in S, b \in Members(list) :
           RankIn(order, a) < RankIn(order, b) =>
             a \in Members(list) /\ RankIn(list, a) < RankIn(list, b)
  BY <1>1 DEF Finds
<1>3. Len(list) \in Nat /\ \A a \in Members(list) : RankIn(list, a) \in 1..Len(list)
  BY <1>2, OnceListed
<1>4. /\ Len(order) \in Nat /\ Members(order) = Chunks
      /\ \A a \in Members(order) : RankIn(order, a) \in 1..Len(order)
  BY OrdersListChunks, OnceListed
<1>5. ASSUME NEW a \in S, NEW b \in S, RankIn(order, a) < RankIn(order, b)
      PROVE  a # b /\ NotAfter(list, a, b)
  <2>1. a # b
    BY <1>4, <1>5
  <2>2. ASSUME b \in Members(list)
        PROVE  a \in Members(list) /\ RankIn(list, a) <= RankIn(list, b)
    <3>1. a \in Members(list) /\ RankIn(list, a) < RankIn(list, b)
      BY <1>2, <1>5, <2>2
    <3> QED
      BY <1>3, <2>2, <3>1
  <2> QED
    BY <2>1, <2>2 DEF NotAfter
<1> QED
  BY <1>2, <1>5 DEF KeepsOrder

(* A search that stops at a place of the order follows it among all that   *)
(* the filter keeps.                                                       *)
LEMMA CutSearchFollowsOrder ==
  ASSUME NEW order \in Orders, NEW B \in SUBSET Chunks, NEW n \in Nat, NEW k \in Nat,
         NEW S, S = {a \in B : RankIn(order, a) <= n},
         NEW list, list = AtMost(k, Keeping(order, S))
  PROVE  KeepsOrder(list, order, B)
<1>1. S \in SUBSET Chunks
  OBVIOUS
<1>2. KeepsOrder(list, order, S)
  BY <1>1, SearchFollowsOrder
<1>3. /\ list \in Seq(S) /\ Once(list)
      /\ \A a, b \in S : RankIn(order, a) < RankIn(order, b) => a # b /\ NotAfter(list, a, b)
  BY <1>2 DEF KeepsOrder
<1>4. /\ Len(order) \in Nat /\ Members(order) = Chunks
      /\ \A a \in Members(order) : RankIn(order, a) \in 1..Len(order)
  BY OrdersListChunks, OnceListed
<1>5. \A a \in Chunks : RankIn(order, a) \in Nat
  BY <1>4
<1>6. \A b \in Members(list) : b \in S
  BY <1>3, OnceListed
<1>7. ASSUME NEW a \in B, NEW b \in B, RankIn(order, a) < RankIn(order, b)
      PROVE  a # b /\ NotAfter(list, a, b)
  <2>1. RankIn(order, a) \in Nat /\ RankIn(order, b) \in Nat
    BY <1>5
  <2>2. a # b
    BY <1>7, <2>1
  <2>3. ASSUME b \in Members(list)
        PROVE  a \in Members(list) /\ RankIn(list, a) <= RankIn(list, b)
    <3>1. b \in S /\ RankIn(order, b) <= n
      BY <1>6, <2>3
    <3>2. RankIn(order, a) <= n
      BY <1>7, <2>1, <3>1
    <3>3. a \in S
      BY <3>2
    <3> QED
      BY <1>3, <1>7, <2>3, <3>1, <3>3 DEF NotAfter
  <2> QED
    BY <2>2, <2>3 DEF NotAfter
<1>8. list \in Seq(B)
  BY <1>3, SeqMonotonic
<1> QED
  BY <1>3, <1>7, <1>8 DEF KeepsOrder

(* A hybrid search: the fusion of what each half finds among the same      *)
(* chunks, and of more of them than it returns.                            *)
LEMMA HybridComplete ==
  ASSUME NEW req \in SearchRequests, NEW idx \in SUBSET Chunks, NEW k \in Nat, NEW q \in Nat,
         k <= q, ~req.multi, req.hybrid,
         NEW B, B = InsideOf(idx, DefaultCollection) \cap HybridKeptOf(req),
         NEW dense, dense = AtMost(q, Keeping(req.dense, B \cap RelevantOf(req))),
         NEW sparse, sparse = AtMost(q, Keeping(req.sparse, B \cap SparseOf(req))),
         NEW list, list = AtMost(k, Fusion(dense, sparse))
  PROVE  CompleteList(list, k, idx, req)
<1> DEFINE C == CandidatesOf(idx, req)
           S1 == B \cap RelevantOf(req)
           S2 == B \cap SparseOf(req)
           T == Members(dense) \cup Members(sparse)
<1>1. /\ C \in SUBSET Chunks /\ IsFiniteSet(C) /\ Cardinality(C) \in Nat
      /\ req.dense \in Orders /\ req.sparse \in Orders
      /\ req.relevant \in Nat /\ req.matching \in Nat
  BY CandidatesTyped, RequestFields
<1>2. C = S1 \cup S2 /\ B \in SUBSET Chunks /\ S1 \in SUBSET Chunks /\ S2 \in SUBSET Chunks
  <2>1. C = B \cap (RelevantOf(req) \cup SparseOf(req))
    BY DEF CandidatesOf
  <2>2. B \in SUBSET Chunks
    BY DEF InsideOf
  <2> QED
    BY <2>1, <2>2
<1>3. /\ S1 = {a \in B : RankIn(req.dense, a) <= req.relevant}
      /\ S2 = {a \in B : RankIn(req.sparse, a) <= req.matching}
  BY <1>2 DEF RelevantOf, SparseOf
<1>4. /\ dense = AtMost(q, Keeping(req.dense, S1)) /\ sparse = AtMost(q, Keeping(req.sparse, S2))
      /\ C \in SUBSET B
  BY <1>2
<1> HIDE DEF C, S1, S2
<1>5. KeepsOrder(dense, req.dense, B) /\ KeepsOrder(sparse, req.sparse, B)
  <2>1. KeepsOrder(dense, req.dense, B)
    BY <1>1, <1>2, <1>3, <1>4, CutSearchFollowsOrder
  <2>2. KeepsOrder(sparse, req.sparse, B)
    BY <1>1, <1>2, <1>3, <1>4, CutSearchFollowsOrder
  <2> QED
    BY <2>1, <2>2
<1>6. \A a, b \in C :
        /\ RankIn(req.dense, a) < RankIn(req.dense, b) => a # b /\ NotAfter(dense, a, b)
        /\ RankIn(req.sparse, a) < RankIn(req.sparse, b) => NotAfter(sparse, a, b)
  BY <1>4, <1>5 DEF KeepsOrder
<1>7. /\ dense \in Seq(S1) /\ Once(dense) /\ Len(dense) = SmallestOf(q, Cardinality(S1))
      /\ Cardinality(S1) \in Nat
      /\ Cardinality(S1) <= q => Members(dense) = S1
  <2>1. Finds(dense, q, req.dense, S1)
    BY <1>1, <1>2, <1>4, SearchLists
  <2> QED
    BY <2>1 DEF Finds
<1>8. /\ sparse \in Seq(S2) /\ Once(sparse) /\ Len(sparse) = SmallestOf(q, Cardinality(S2))
      /\ Cardinality(S2) \in Nat
      /\ Cardinality(S2) <= q => Members(sparse) = S2
  <2>1. Finds(sparse, q, req.sparse, S2)
    BY <1>1, <1>2, <1>4, SearchLists
  <2> QED
    BY <2>1 DEF Finds
<1>9. dense \in Seq(C) /\ sparse \in Seq(C)
  <2>1. S1 \subseteq C /\ S2 \subseteq C
    BY <1>2
  <2> QED
    BY <1>7, <1>8, <2>1, SeqMonotonic
<1>10. Fuses(list, k, T, dense, sparse, C)
  BY <1>1, <1>7, <1>8, <1>9, FusedLists
<1>11. /\ list \in Seq(C) /\ Once(list) /\ IsFiniteSet(T) /\ T \in SUBSET C
       /\ Members(list) \subseteq T
       /\ Cardinality(T) \in Nat /\ Len(list) = SmallestOf(k, Cardinality(T))
       /\ \A a \in T, b \in Members(list) :
            a # b /\ NotAfter(dense, a, b) /\ NotAfter(sparse, a, b) =>
              a \in Members(list) /\ RankIn(list, a) < RankIn(list, b)
  BY <1>10 DEF Fuses
<1>12. Len(list) = SmallestOf(k, Cardinality(C))
  <2>1. CASE Cardinality(S1) <= q /\ Cardinality(S2) <= q
    <3>1. T = C
      BY <1>2, <1>7, <1>8, <2>1
    <3> QED
      BY <1>11, <3>1
  <2>2. CASE ~(Cardinality(S1) <= q) \/ ~(Cardinality(S2) <= q)
    <3>0. IsFiniteSet(T) /\ Cardinality(T) \in Nat /\ Len(list) = SmallestOf(k, Cardinality(T))
      BY <1>11
    <3>1. q <= Cardinality(T)
      <4>1. CASE ~(Cardinality(S1) <= q)
        <5>1. Len(dense) = q
          BY <1>7, <4>1 DEF SmallestOf
        <5>2. Cardinality(Members(dense)) = q /\ Members(dense) \in SUBSET T
          BY <1>7, <5>1, OnceListed
        <5>3. Cardinality(Members(dense)) <= Cardinality(T)
          BY <3>0, <5>2, FS_Subset
        <5> QED
          BY <5>2, <5>3
      <4>2. CASE ~(Cardinality(S2) <= q)
        <5>1. Len(sparse) = q
          BY <1>8, <4>2 DEF SmallestOf
        <5>2. Cardinality(Members(sparse)) = q /\ Members(sparse) \in SUBSET T
          BY <1>8, <5>1, OnceListed
        <5>3. Cardinality(Members(sparse)) <= Cardinality(T)
          BY <3>0, <5>2, FS_Subset
        <5> QED
          BY <5>2, <5>3
      <4> QED
        BY <2>2, <4>1, <4>2
    <3>2. Cardinality(T) <= Cardinality(C)
      BY <1>1, <1>11, FS_Subset
    <3> HIDE DEF T
    <3>3. k <= Cardinality(T) /\ k <= Cardinality(C)
      BY <1>1, <3>0, <3>1, <3>2
    <3>4. \A n \in Nat : k <= n => SmallestOf(k, n) = k
      BY DEF SmallestOf
    <3> QED
      BY <1>1, <3>0, <3>3, <3>4
  <2> QED
    BY <2>1, <2>2
<1>13. ASSUME NEW a \in C, NEW b \in Members(list), Ahead(idx, req, a, b)
       PROVE  a \in Members(list) /\ RankIn(list, a) < RankIn(list, b)
  <2>1. /\ RankIn(req.dense, a) < RankIn(req.dense, b)
        /\ RankIn(req.sparse, a) < RankIn(req.sparse, b)
    BY <1>13 DEF Ahead
  <2>2. a # b /\ NotAfter(dense, a, b) /\ NotAfter(sparse, a, b)
    BY <1>6, <1>11, <2>1
  <2>3. b \in T
    BY <1>11
  <2>4. a \in T
    BY <2>2, <2>3 DEF NotAfter
  <2> QED
    BY <1>11, <2>2, <2>4
<1> QED
  BY <1>11, <1>12, <1>13 DEF CompleteList, C

(* A reranking keeps what was retrieved. *)
LEMMA RerankComplete ==
  ASSUME NEW req \in SearchRequests, NEW idx \in SUBSET Chunks, req.rerank, ~req.multi,
         NEW k \in Nat, NEW m \in Nat, k <= m, NEW list, CompleteList(list, m, idx, req),
         NEW new, new = AtMost(k, Keeping(req.cross, Members(list)))
  PROVE  CompleteList(new, k, idx, req)
<1> DEFINE C == CandidatesOf(idx, req)
<1>1. C \in SUBSET Chunks /\ Cardinality(C) \in Nat /\ req.cross \in Orders
  BY CandidatesTyped, RequestFields
<1>2. list \in Seq(C) /\ Once(list) /\ Len(list) = SmallestOf(m, Cardinality(C))
  BY DEF CompleteList
<1> HIDE DEF C
<1>3. Members(list) \in SUBSET C /\ Cardinality(Members(list)) = SmallestOf(m, Cardinality(C))
  BY <1>2, OnceListed
<1>4. Members(list) \in SUBSET Chunks
  BY <1>1, <1>3
<1>5. /\ new \in Seq(Members(list)) /\ Once(new)
      /\ Len(new) = SmallestOf(k, Cardinality(Members(list)))
  <2>1. Finds(new, k, req.cross, Members(list))
    BY <1>1, <1>4, SearchLists
  <2> QED
    BY <2>1 DEF Finds
<1>6. new \in Seq(C)
  BY <1>3, <1>5, SeqMonotonic
<1>7. Len(new) = SmallestOf(k, Cardinality(C))
  BY <1>1, <1>3, <1>5, Smallest
<1> QED
  BY <1>5, <1>6, <1>7 DEF CompleteList, C

(* A search of several collections: each chunk has in its list the rank    *)
(* that it has in its collection, and the merge goes by it.                *)
OneListEach(lists, of, k, idx, req) ==
  /\ DOMAIN lists \subseteq Nat /\ of \in [DOMAIN lists -> Collections]
  /\ \A n \in DOMAIN lists :
       lists[n] = AtMost(k, Keeping(req.dense, InsideOf(idx, of[n])
                                               \cap (KeptBy[req.filter] \cap RelevantOf(req))))
  /\ \A m, n \in DOMAIN lists : of[m] = of[n] => m = n
  /\ \A c \in Collections : \E n \in DOMAIN lists : of[n] = c

(* The merge of complete lists, one for each collection, is complete.      *)
LEMMA MultiComplete ==
  ASSUME NEW req \in SearchRequests, NEW idx \in SUBSET Chunks, req.multi,
         NEW k \in Nat, NEW m \in Nat, k <= m,
         NEW lists, NEW of, OneListEach(lists, of, m, idx, req),
         NEW new, new = AtMost(k, MergedLists(lists))
  PROVE  CompleteList(new, k, idx, req)
<1> DEFINE C == CandidatesOf(idx, req)
           Share(c) == InsideOf(idx, c) \cap (KeptBy[req.filter] \cap RelevantOf(req))
           place(c, a) == Place(a, Share(c), Before(req.dense))
           T == Listed(lists)
           R == MergeOrder(lists)
<1>1. /\ C \in SUBSET Chunks /\ IsFiniteSet(C) /\ Cardinality(C) \in Nat
      /\ req.dense \in Orders
  BY CandidatesTyped, RequestFields
<1>2. C = idx \cap (KeptBy[req.filter] \cap RelevantOf(req))
  BY DEF CandidatesOf
<1>3. /\ \A c \in Collections : Share(c) \in SUBSET Chunks /\ Share(c) \in SUBSET C
      /\ \A c : \A a \in Share(c) : CollectionOf[a] = c
      /\ \A a \in C : CollectionOf[a] \in Collections /\ a \in Share(CollectionOf[a])
  <2>1. /\ \A c \in Collections : Share(c) \in SUBSET Chunks /\ Share(c) \in SUBSET C
        /\ \A c : \A a \in Share(c) : CollectionOf[a] = c
    BY <1>1, <1>2 DEF InsideOf
  <2>2. \A a \in C : CollectionOf[a] \in Collections
    BY <1>1, RetrievalAssumption
  <2>3. \A a \in C : a \in Share(CollectionOf[a])
    BY <1>2 DEF InsideOf
  <2> QED
    BY <2>1, <2>2, <2>3
<1>4. /\ DOMAIN lists \subseteq Nat
      /\ \A n \in DOMAIN lists : /\ of[n] \in Collections
                                 /\ lists[n] = AtMost(m, Keeping(req.dense, Share(of[n])))
      /\ \A o, n \in DOMAIN lists : of[o] = of[n] => o = n
      /\ \A c \in Collections : \E n \in DOMAIN lists : of[n] = c
  BY DEF OneListEach
<1>5. \A a \in C : RankOf(idx, req, a) = place(CollectionOf[a], a)
  <2> TAKE a \in C
  <2> DEFINE c == CollectionOf[a]
  <2>1. req.dense \in Seq(Chunks) /\ Once(req.dense) /\ Members(req.dense) = Chunks
    BY <1>1, OrdersListChunks
  <2>2. \A e, g \in Chunks : <<e, g>> \in Before(req.dense) <=>
                               RankIn(req.dense, e) < RankIn(req.dense, g)
    BY <2>1, ListsOrder
  <2>3. Share(c) = {y \in C : CollectionOf[y] = c}
    BY <1>2 DEF InsideOf
  <2>4. a \in Chunks /\ \A y \in C : y \in Chunks
    BY <1>1
  <2> HIDE DEF Share
  <2>5. {y \in Share(c) : <<y, a>> \in Before(req.dense)} =
        {y \in C : CollectionOf[y] = c /\ RankIn(req.dense, y) < RankIn(req.dense, a)}
    BY <2>2, <2>3, <2>4
  <2> QED
    BY <2>5 DEF RankOf, Place
<1> HIDE DEF Share
<1>6. \A n \in DOMAIN lists : Finds(lists[n], m, req.dense, Share(of[n]))
  <2> TAKE n \in DOMAIN lists
  <2>1. Share(of[n]) \in SUBSET Chunks /\ lists[n] = AtMost(m, Keeping(req.dense, Share(of[n])))
    BY <1>3, <1>4
  <2> QED
    BY <1>1, <2>1, SearchLists
<1>7. \A n \in DOMAIN lists :
        /\ lists[n] \in Seq(Share(of[n])) /\ Once(lists[n])
        /\ Cardinality(Share(of[n])) \in Nat
        /\ Len(lists[n]) = SmallestOf(m, Cardinality(Share(of[n])))
        /\ Members(lists[n]) = {a \in Share(of[n]) : place(of[n], a) < m}
        /\ \A a \in Members(lists[n]) : RankIn(lists[n], a) = place(of[n], a) + 1
        /\ \A a \in Share(of[n]) : place(of[n], a) \in Nat
        /\ Cardinality(Share(of[n])) <= m => Members(lists[n]) = Share(of[n])
  BY <1>6 DEF Finds
<1>8. ASSUME NEW n \in DOMAIN lists, NEW a \in Members(lists[n])
      PROVE  a \in C /\ a \in T /\ CollectionOf[a] = of[n]
  <2>1. a \in Share(of[n]) /\ of[n] \in Collections
    BY <1>4, <1>7
  <2> QED
    BY <1>3, <1>8, <2>1 DEF Listed
<1>9. T \in SUBSET C /\ IsFiniteSet(T) /\ Cardinality(T) \in Nat
  <2>1. T \in SUBSET C
    BY <1>8 DEF Listed
  <2> QED
    BY <1>1, <2>1, FS_Subset, FS_CardinalityType
<1>10. SortsMerge(lists)
  <2>1. \A n \in DOMAIN lists : lists[n] \in Seq(Chunks)
    <3> TAKE n \in DOMAIN lists
    <3>1. lists[n] \in Seq(Share(of[n])) /\ Share(of[n]) \subseteq Chunks
      BY <1>3, <1>4, <1>7
    <3> QED
      BY <3>1, SeqMonotonic
  <2>2. \A o, n \in DOMAIN lists : o # n => Members(lists[o]) \cap Members(lists[n]) = {}
    BY <1>4, <1>8
  <2> QED
    BY <1>4, <1>7, <2>1, <2>2, MergeSorts
<1> HIDE DEF T, R
<1>11. /\ MergedLists(lists) = Ranked(T, R) /\ StrictlyOrders(R, T)
       /\ \A o, n \in DOMAIN lists : \A a \in Members(lists[o]), b \in Members(lists[n]) :
            RankIn(lists[o], a) < RankIn(lists[n], b) => <<a, b>> \in R
  BY <1>10 DEF SortsMerge, T, R
<1>12. Tops(new, k, T, R)
  <2>1. new = AtMost(k, Ranked(T, R))
    BY <1>11
  <2> QED
    BY <1>9, <1>11, <2>1, TopLists
<1>13. /\ new \in Seq(T) /\ Once(new) /\ Len(new) = SmallestOf(k, Cardinality(T))
       /\ \A a \in Members(new) : a \in T
       /\ \A a \in T, b \in Members(new) :
            <<a, b>> \in R => a \in Members(new) /\ RankIn(new, a) < RankIn(new, b)
  BY <1>12 DEF Tops
<1>14. Len(new) = SmallestOf(k, Cardinality(C))
  <2>1. CASE \A n \in DOMAIN lists : Cardinality(Share(of[n])) <= m
    <3>1. ASSUME NEW a \in C PROVE a \in T
      <4>1. PICK n \in DOMAIN lists : of[n] = CollectionOf[a]
        BY <1>3, <1>4
      <4>2. a \in Members(lists[n])
        BY <1>3, <1>7, <2>1, <4>1
      <4> QED
        BY <1>8, <4>2
    <3>2. T = C
      BY <1>9, <3>1
    <3> QED
      BY <1>13, <3>2
  <2>2. ASSUME NEW n \in DOMAIN lists, ~(Cardinality(Share(of[n])) <= m)
        PROVE  Len(new) = SmallestOf(k, Cardinality(C))
    <3>1. Len(lists[n]) = m
      BY <1>7, <2>2 DEF SmallestOf
    <3>2. Cardinality(Members(lists[n])) = m
      BY <1>7, <3>1, OnceListed
    <3>3. Members(lists[n]) \in SUBSET T
      BY <1>8
    <3>4. m <= Cardinality(T) /\ Cardinality(T) <= Cardinality(C)
      BY <1>1, <1>9, <3>2, <3>3, FS_Subset
    <3>5. k <= Cardinality(T) /\ k <= Cardinality(C)
      BY <1>1, <1>9, <3>4
    <3> QED
      BY <1>1, <1>9, <1>13, <3>5 DEF SmallestOf
  <2> QED
    BY <2>1, <2>2
<1>15. ASSUME NEW a \in C, NEW b \in Members(new), Ahead(idx, req, a, b)
       PROVE  a \in Members(new) /\ RankIn(new, a) < RankIn(new, b)
  <2>1. PICK n \in DOMAIN lists : b \in Members(lists[n])
    BY <1>13 DEF T, Listed
  <2>2. PICK o \in DOMAIN lists : of[o] = CollectionOf[a]
    BY <1>3, <1>4
  <2>3. b \in C /\ CollectionOf[b] = of[n]
    BY <1>8, <2>1
  <2>4. place(of[o], a) < place(of[n], b)
    BY <1>5, <1>15, <2>2, <2>3 DEF Ahead
  <2>5. /\ a \in Share(of[o]) /\ b \in Share(of[n])
        /\ place(of[o], a) \in Nat /\ place(of[n], b) \in Nat /\ place(of[n], b) < m
    <3>1. b \in Share(of[n]) /\ place(of[n], b) < m
      BY <1>7, <2>1
    <3>2. a \in Share(of[o])
      BY <1>3, <2>2
    <3> QED
      BY <1>7, <3>1, <3>2
  <2> HIDE DEF place
  <2>6. place(of[o], a) < m
    BY <2>4, <2>5
  <2>7. a \in Members(lists[o])
    BY <1>7, <2>5, <2>6
  <2>8. RankIn(lists[o], a) < RankIn(lists[n], b)
    <3>1. RankIn(lists[o], a) = place(of[o], a) + 1 /\ RankIn(lists[n], b) = place(of[n], b) + 1
      BY <1>7, <2>1, <2>7
    <3> QED
      BY <2>4, <2>5, <3>1
  <2>9. <<a, b>> \in R /\ a \in T
    BY <1>8, <1>11, <2>1, <2>7, <2>8
  <2> QED
    BY <1>13, <2>9
<1>16. new \in Seq(C)
  BY <1>9, <1>13, SeqMonotonic
<1> QED
  BY <1>13, <1>14, <1>15, <1>16 DEF CompleteList, C

(***************************************************************************)
(* The other tools.  A page of a listing takes up the chunks of the        *)
(* numbers that follow; what is counted is what is passed; and a listing   *)
(* ends when all is counted or enough documents are.                       *)
(***************************************************************************)
SortsByNumber(list, k, S) ==
  /\ list \in Seq(S) /\ Once(list) /\ IsFiniteSet(S) /\ Cardinality(S) \in Nat
  /\ Len(list) = SmallestOf(k, Cardinality(S)) /\ Members(list) \subseteq S
  /\ \A a \in S, b \in Members(list) :
       a < b => a \in Members(list) /\ RankIn(list, a) < RankIn(list, b)
  /\ Cardinality(S) <= k => Members(list) = S

(* The first points of a scroll.                                           *)
LEMMA FirstByNumber ==
  ASSUME NEW S \in SUBSET Chunks, NEW k \in Nat,
         NEW list, list = AtMost(k, Ranked(S, ByNumber))
  PROVE  SortsByNumber(list, k, S)
<1>1. StrictlyOrders(ByNumber, S) /\ IsFiniteSet(S)
  BY NumbersOrder
<1>2. Tops(list, k, S, ByNumber)
  BY <1>1, TopLists
<1>3. \A a, b \in S : a < b => <<a, b>> \in ByNumber
  BY DEF ByNumber
<1>4. Members(list) \subseteq S
  BY <1>2 DEF Tops
<1> QED
  BY <1>1, <1>2, <1>3, <1>4 DEF Tops, SortsByNumber

Passes(page, o, last, S) ==
  /\ page \in Seq(Chunks) /\ last \in Nat /\ o <= last
  /\ Members(page) = {a \in S : o < a /\ a <= last}

(* A page takes up the chunks that follow the offset, up to its last one,  *)
(* and leaves none of them out.                                            *)
LEMMA PageFollows ==
  ASSUME NEW S \in SUBSET Chunks, NEW o \in Nat, NEW page, page = Following(o, S),
         NEW last, last = IF page = <<>> THEN o ELSE page[Len(page)]
  PROVE  Passes(page, o, last, S)
<1> DEFINE A == {a \in S : a > o}
<1>1. Chunks \subseteq Nat /\ PageSize \in Nat
  BY RetrievalAssumption
<1>2. A \in SUBSET Chunks /\ page = AtMost(PageSize, Ranked(A, ByNumber))
  BY DEF Following
<1>3. \A a \in A : a \in S /\ a > o /\ a \in Nat
  BY <1>1
<1>4. \A a \in S : a > o => a \in A
  OBVIOUS
<1> HIDE DEF A
<1>5. SortsByNumber(page, PageSize, A)
  BY <1>1, <1>2, FirstByNumber
<1>6. /\ page \in Seq(A) /\ Once(page) /\ Members(page) \subseteq A
      /\ \A a \in A, b \in Members(page) :
           a < b => a \in Members(page) /\ RankIn(page, a) < RankIn(page, b)
  BY <1>5 DEF SortsByNumber
<1>7. page \in Seq(Chunks)
  BY <1>2, <1>6, SeqMonotonic
<1>8. CASE page = <<>>
  <2>1. Members(page) = {} /\ last = o
    BY <1>8 DEF Members
  <2>2. \A a \in S : ~(o < a /\ a <= o)
    BY <1>1
  <2> QED
    BY <1>7, <2>1, <2>2 DEF Passes
<1>9. CASE page # <<>>
  <2>1. Len(page) \in Nat /\ Len(page) > 0 /\ last = page[Len(page)]
    BY <1>6, <1>9
  <2>2. /\ \A a \in Members(page) : RankIn(page, a) \in 1..Len(page)
        /\ last \in Members(page) /\ RankIn(page, last) = Len(page)
    <3>1. /\ \A a \in Members(page) : RankIn(page, a) \in 1..Len(page)
          /\ \A i \in 1..Len(page) : page[i] \in Members(page) /\ RankIn(page, page[i]) = i
      BY <1>6, OnceListed
    <3> QED
      BY <2>1, <3>1
  <2>3. last \in A /\ last \in Nat /\ o < last /\ last \in S
    BY <1>3, <1>6, <2>2
  <2>4. ASSUME NEW b \in Members(page) PROVE b \in S /\ o < b /\ b <= last
    <3>1. b \in A /\ b \in Nat /\ b \in S /\ o < b
      BY <1>3, <1>6
    <3>2. ~(last < b)
      <4>1. last < b => RankIn(page, last) < RankIn(page, b)
        BY <1>6, <2>3
      <4>2. RankIn(page, b) \in 1..Len(page)
        BY <2>2
      <4> QED
        BY <2>1, <2>2, <4>1, <4>2
    <3> QED
      BY <2>3, <3>1, <3>2
  <2>5. ASSUME NEW a \in S, o < a, a <= last PROVE a \in Members(page)
    <3>1. a \in A /\ a \in Nat
      BY <1>3, <1>4, <2>5
    <3>2. a = last \/ a < last
      BY <2>3, <2>5, <3>1
    <3> QED
      BY <1>6, <2>2, <3>1, <3>2
  <2>6. o <= last
    BY <2>3
  <2> QED
    BY <1>7, <2>3, <2>4, <2>5, <2>6 DEF Passes
<1> QED
  BY <1>8, <1>9

CountsUpTo(S, o) ==
  [d \in Documents |-> Cardinality({a \in S : a <= o /\ DocumentOf[a] = d})]

(* A document is counted when one of its chunks has been passed.           *)
LEMMA CountsTyped ==
  ASSUME NEW S \in SUBSET Chunks, NEW o
  PROVE  /\ CountsUpTo(S, o) \in [Documents -> Nat]
         /\ \A d \in Documents :
              CountsUpTo(S, o)[d] > 0 <=> \E a \in S : a <= o /\ DocumentOf[a] = d
<1>1. ASSUME NEW d \in Documents
      PROVE  LET A == {a \in S : a <= o /\ DocumentOf[a] = d}
             IN  Cardinality(A) \in Nat /\ (Cardinality(A) > 0 <=> A # {})
  <2> DEFINE A == {a \in S : a <= o /\ DocumentOf[a] = d}
  <2>1. A \in SUBSET Chunks
    OBVIOUS
  <2>2. IsFiniteSet(A)
    BY <2>1, FS_Subset, RetrievalAssumption
  <2>3. Cardinality(A) \in Nat /\ (Cardinality(A) = 0 <=> A = {})
    BY <2>2, FS_CardinalityType, FS_EmptySet
  <2> HIDE DEF A
  <2>4. Cardinality(A) > 0 <=> A # {}
    BY <2>3
  <2> QED
    BY <2>3, <2>4 DEF A
<1> QED
  BY <1>1 DEF CountsUpTo

CountsAfter(page, counts) ==
  [d \in Documents |-> counts[d] + Cardinality({y \in Members(page) : DocumentOf[y] = d})]

(* Counting a page is counting up to its end.                              *)
LEMMA PageCounts ==
  ASSUME NEW S \in SUBSET Chunks, NEW o \in Nat, NEW page, page = Following(o, S),
         NEW last, last = IF page = <<>> THEN o ELSE page[Len(page)]
  PROVE  CountsUpTo(S, last) = CountsAfter(page, CountsUpTo(S, o))
<1>1. /\ last \in Nat /\ o <= last
      /\ Members(page) = {a \in S : o < a /\ a <= last}
  <2>1. Passes(page, o, last, S)
    BY PageFollows
  <2> QED
    BY <2>1 DEF Passes
<1>2. ASSUME NEW d \in Documents
      PROVE  Cardinality({a \in S : a <= last /\ DocumentOf[a] = d}) =
             Cardinality({a \in S : a <= o /\ DocumentOf[a] = d}) +
             Cardinality({y \in Members(page) : DocumentOf[y] = d})
  <2> DEFINE A == {a \in S : a <= last /\ DocumentOf[a] = d}
             B == {a \in S : a <= o /\ DocumentOf[a] = d}
             P == {y \in Members(page) : DocumentOf[y] = d}
  <2>1. \A a \in S : a \in Nat
    BY RetrievalAssumption
  <2>2. \A a \in S : /\ a <= last <=> (a <= o \/ (o < a /\ a <= last))
                     /\ ~(a <= o /\ o < a)
    BY <1>1, <2>1
  <2>3. A = B \cup P /\ B \cap P = {}
    BY <1>1, <2>2
  <2>4. B \in SUBSET Chunks /\ P \in SUBSET Chunks
    BY <1>1
  <2> HIDE DEF A, B, P
  <2>5. IsFiniteSet(B) /\ IsFiniteSet(P)
    BY <2>4, FS_Subset, RetrievalAssumption
  <2>6. Cardinality(A) = Cardinality(B) + Cardinality(P) - Cardinality({})
    BY <2>3, <2>5, FS_Union
  <2>7. Cardinality({}) = 0 /\ Cardinality(B) \in Nat /\ Cardinality(P) \in Nat
    BY <2>5, FS_EmptySet, FS_CardinalityType
  <2>8. Cardinality(A) = Cardinality(B) + Cardinality(P)
    BY <2>6, <2>7
  <2> QED
    BY <2>8 DEF A, B, P
<1> QED
  BY <1>2 DEF CountsUpTo, CountsAfter

ListFits(ans, S, limit) ==
  LET documents == {DocumentOf[a] : a \in S}
  IN /\ Cardinality(DOMAIN ans) = SmallestOf(limit, Cardinality(documents))
     /\ Cardinality(documents) < limit =>
          ans = [d \in documents |-> Cardinality({a \in S : DocumentOf[a] = d})]

(* When the listing ends, with any choice of the documents to return, it   *)
(* is complete up to its limit.                                            *)
LEMMA ListEnds ==
  ASSUME NEW S \in SUBSET Chunks, NEW last \in Nat, NEW limit \in Nat,
         NEW counts, counts = CountsUpTo(S, last),
         NEW listed, listed = {d \in Documents : counts[d] > 0},
         (\A a \in S : ~(a > last)) \/ ~(Cardinality(listed) < limit),
         NEW cut \in SUBSET listed, Cardinality(cut) = SmallestOf(limit, Cardinality(listed)),
         NEW ans, ans = [d \in cut |-> counts[d]]
  PROVE  ListFits(ans, S, limit)
<1> DEFINE T == {DocumentOf[a] : a \in S}
<1>1. /\ T \in SUBSET Documents /\ IsFiniteSet(Documents)
      /\ \A a \in S : a \in Nat
  BY RetrievalAssumption
<1>2. \A d \in Documents : counts[d] > 0 <=> \E a \in S : a <= last /\ DocumentOf[a] = d
  BY CountsTyped
<1>3. listed \in SUBSET T
  BY <1>2
<1>4. IsFiniteSet(T) /\ IsFiniteSet(listed) /\ Cardinality(listed) <= Cardinality(T)
  BY <1>1, <1>3, FS_Subset
<1>5. Cardinality(T) \in Nat /\ Cardinality(listed) \in Nat
  BY <1>4, FS_CardinalityType
<1>6. DOMAIN ans = cut
  OBVIOUS
<1>7. CASE \A a \in S : ~(a > last)
  <2>1. \A a \in S : a <= last
    BY <1>1, <1>7
  <2>2. listed = T
    BY <1>1, <1>2, <1>3, <2>1
  <2>3. ASSUME Cardinality(T) < limit
        PROVE  ans = [d \in T |-> Cardinality({a \in S : DocumentOf[a] = d})]
    <3>1. Cardinality(cut) = Cardinality(listed)
      BY <1>5, <2>2, <2>3 DEF SmallestOf
    <3>2. cut = T
      BY <1>4, <2>2, <3>1, FS_Subset
    <3>3. ASSUME NEW d \in T PROVE counts[d] = Cardinality({a \in S : DocumentOf[a] = d})
      <4>1. {a \in S : a <= last /\ DocumentOf[a] = d} = {a \in S : DocumentOf[a] = d}
        BY <2>1
      <4> QED
        BY <1>1, <4>1 DEF CountsUpTo
    <3> QED
      BY <3>2, <3>3
  <2> QED
    BY <1>6, <2>2, <2>3 DEF ListFits
<1>8. CASE ~(Cardinality(listed) < limit)
  <2> HIDE DEF T
  <2>1. limit <= Cardinality(listed) /\ limit <= Cardinality(T)
    BY <1>4, <1>5, <1>8
  <2>2. Cardinality(cut) = SmallestOf(limit, Cardinality(T)) /\ ~(Cardinality(T) < limit)
    BY <1>5, <2>1 DEF SmallestOf
  <2> QED
    BY <1>6, <2>2 DEF ListFits, T
<1> QED
  BY <1>7, <1>8

(***************************************************************************)
(* The invariant.  A request is one of the tool that is served; what has   *)
(* been found has its type, and is empty at the start; and, as long as the *)
(* index stands still, it is what the answer will need: the dense list     *)
(* that the fusion takes, a complete list to cut or rerank, a list for     *)
(* each collection that was asked, the chunks counted up to the offset,    *)
(* the number of points.                                                   *)
(***************************************************************************)
ListRequests ==
  [tool : {"list_documents"}, collection : Collections \cup {NoCollection},
   filter : Filters, limit : Limits]
ChunkRequests == [tool : {"get_chunk"}, chunk : Chunks, window : 0..1]
GraphRequests ==
  [tool : {"explore_topic"}, collection : Collections \cup {NoCollection},
   filter : {"shared"}, limit : Limits]
StatRequests == [tool : {"kb_stats"}]

PerStates == [collection : Collections, list : Seq(Chunks)]
FoundStates ==
  [dense : Seq(Chunks), sparse : Seq(Chunks), per : Seq(PerStates),
   counts : {<<>>} \cup [Documents -> Nat], offset : Nat]

RequestFits(a, req) ==
  /\ a \in {"embed", "search", "sparse", "multi", "rank"} => req \in SearchRequests
  /\ a = "resolve" => req \in SearchRequests \cup ListRequests \cup GraphRequests
  /\ a = "list" => req \in ListRequests
  /\ a = "graph" => req \in GraphRequests
  /\ a \in {"context", "neighbours"} => req \in ChunkRequests
  /\ a \in {"count", "sample"} => req \in StatRequests
  /\ a \in {"search", "sparse"} => ~req.multi
  /\ a = "sparse" => req.hybrid
  /\ a = "multi" => req.multi

FoundFits(a, fd, req) ==
  /\ a = "idle" => fd = Nothing
  /\ a \in {"resolve", "embed"} => fd.per = <<>> /\ fd.offset = 0
  /\ a = "resolve" /\ req \in ListRequests => fd.counts = [d \in Documents |-> 0]
  /\ a = "list" => fd.counts \in [Documents -> Nat]
  /\ a = "sparse" => Once(fd.dense)

MatchingOf(idx, req) == InsideOf(idx, TargetOf(req)) \cap KeptBy[req.filter]
DocumentIn(idx, b)   == {y \in InsideOf(idx, DefaultCollection) : DocumentOf[y] = DocumentOf[b]}
InWindow(req, b, c) ==
  IndexOf[c] + req.window >= IndexOf[b] /\ IndexOf[c] <= IndexOf[b] + req.window

(* One list for each of the collections asked so far. *)
ListsSoFar(per, idx, req) ==
  /\ \A n \in DOMAIN per :
       per[n].list = AtMost(RetrieveKOf(req),
                            Keeping(req.dense, InsideOf(idx, per[n].collection)
                                               \cap (KeptBy[req.filter] \cap RelevantOf(req))))
  /\ \A m, n \in DOMAIN per : per[m].collection = per[n].collection => m = n

AnswerFits(ans, idx, req) ==
  /\ req.tool \in {"search_kb", "list_documents", "get_chunk", "explore_topic", "kb_stats"}
  /\ req.tool = "search_kb" => CompleteList(ans, req.topK, idx, req)
  /\ req.tool = "list_documents" => ListFits(ans, MatchingOf(idx, req), req.limit)
  /\ req.tool = "get_chunk" =>
       (Cardinality(DocumentIn(idx, req.chunk)) <= req.window * 2 + ScrollSlack =>
          Members(ans) = {y \in DocumentIn(idx, req.chunk) : InWindow(req, req.chunk, y)})
  /\ req.tool = "explore_topic" =>
       /\ req.filter = "shared"
       /\ Len(ans) = SmallestOf(req.limit, Cardinality(MatchingOf(idx, req)))
  /\ req.tool = "kb_stats" =>
       (ans.chunks <= SampleSize =>
          ans.documents = {DocumentOf[y] : y \in InsideOf(idx, DefaultCollection)})

Serves(a, fd, ans, idx, req) ==
  /\ a = "sparse" =>
       fd.dense = AtMost(HybridKOf(req),
                         Keeping(req.dense, InsideOf(idx, DefaultCollection)
                                            \cap (HybridKeptOf(req) \cap RelevantOf(req))))
  /\ a = "rank" /\ ~req.multi => CompleteList(fd.dense, RetrieveKOf(req), idx, req)
  /\ a = "multi" => ListsSoFar(fd.per, idx, req)
  /\ a = "rank" /\ req.multi =>
       ListsSoFar(fd.per, idx, req) /\ Len(fd.per) = Cardinality(Collections)
  /\ a = "list" => fd.counts = CountsUpTo(MatchingOf(idx, req), fd.offset)
  /\ a = "sample" => fd.offset = Cardinality(InsideOf(idx, DefaultCollection))
  /\ a = "answered" => AnswerFits(ans, idx, req)

Stages ==
  {"idle", "resolve", "embed", "search", "sparse", "multi", "rank",
   "list", "graph", "count", "sample", "context", "neighbours", "answered", "refused"}

RetrievalTyped ==
  /\ index \in SUBSET Chunks /\ at \in Stages /\ found \in FoundStates
  /\ indexChanges \in 0..MaxIndexChanges /\ moved \in BOOLEAN
  /\ RequestFits(at, request) /\ FoundFits(at, found, request)

RetrievalInv ==
  /\ RetrievalTyped
  /\ moved \/ Serves(at, found, answer, index, request)

(* The operators of the module, for the index and the request of the       *)
(* state.                                                                  *)
LEMMA RetrievalReads ==
  /\ \A c : Inside(c) = InsideOf(index, c)
  /\ Target = TargetOf(request) /\ RetrieveK = RetrieveKOf(request)
  /\ HybridK = HybridKOf(request) /\ HybridKept = HybridKeptOf(request)
  /\ Relevant = RelevantOf(request) /\ Matching = SparseOf(request)
  /\ Candidates = CandidatesOf(index, request)
  /\ \A b : OfDocument(b) = DocumentIn(index, b)
  /\ \A b, c : WithinWindow(b, c) <=> InWindow(request, b, c)
  /\ ScrollLimit = request.window * 2 + ScrollSlack
<1>1. /\ \A c : Inside(c) = InsideOf(index, c)
      /\ Target = TargetOf(request) /\ RetrieveK = RetrieveKOf(request)
      /\ HybridK = HybridKOf(request) /\ HybridKept = HybridKeptOf(request)
      /\ Relevant = RelevantOf(request) /\ Matching = SparseOf(request)
  BY DEF Inside, InsideOf, Target, TargetOf, RetrieveK, RetrieveKOf, HybridK, HybridKOf,
         HybridKept, HybridKeptOf, Relevant, RelevantOf, Matching, SparseOf
<1>2. Candidates = CandidatesOf(index, request)
  <2>1. CASE request.multi
    BY <1>1, <2>1 DEF Candidates, CandidatesOf
  <2>2. CASE ~request.multi /\ request.hybrid
    BY <1>1, <2>2 DEF Candidates, CandidatesOf
  <2>3. CASE ~request.multi /\ ~request.hybrid
    BY <1>1, <2>3 DEF Candidates, CandidatesOf
  <2> QED
    BY <2>1, <2>2, <2>3
<1>3. \A b : OfDocument(b) = DocumentIn(index, b)
  BY <1>1 DEF OfDocument, DocumentIn
<1>4. /\ \A b, c : WithinWindow(b, c) <=> InWindow(request, b, c)
      /\ ScrollLimit = request.window * 2 + ScrollSlack
  BY DEF WithinWindow, InWindow, ScrollLimit
<1> QED
  BY <1>1, <1>2, <1>3, <1>4

(* What a step of a call has to keep, when the index stands still.         *)
LEMMA NextInv ==
  ASSUME RetrievalTyped, UNCHANGED <<index, indexChanges, moved>>,
         at' \in Stages, found' \in FoundStates,
         RequestFits(at', request'), FoundFits(at', found', request'),
         moved \/ Serves(at', found', answer', index, request')
  PROVE  RetrievalInv'
<1>1. RetrievalTyped'
  BY DEF RetrievalTyped
<1>2. (moved \/ Serves(at, found, answer, index, request))'
  OBVIOUS
<1> QED
  BY <1>1, <1>2 DEF RetrievalInv

(* The fields of what has been found. *)
LEMMA FoundFields ==
  ASSUME NEW f \in FoundStates
  PROVE  /\ f.dense \in Seq(Chunks) /\ f.sparse \in Seq(Chunks) /\ f.per \in Seq(PerStates)
         /\ f.counts \in {<<>>} \cup [Documents -> Nat] /\ f.offset \in Nat
         /\ \A l \in Seq(Chunks) : [f EXCEPT !.dense = l] \in FoundStates
         /\ \A l, m \in Seq(Chunks) : [f EXCEPT !.sparse = l, !.dense = m] \in FoundStates
         /\ \A p \in Seq(PerStates) : [f EXCEPT !.per = p] \in FoundStates
         /\ \A c \in [Documents -> Nat] : [f EXCEPT !.counts = c] \in FoundStates
         /\ \A o \in Nat : [f EXCEPT !.offset = o] \in FoundStates
         /\ \A c \in [Documents -> Nat], o \in Nat :
              [f EXCEPT !.counts = c, !.offset = o] \in FoundStates
BY DEF FoundStates

(* What has been found before a call began.                                *)
LEMMA NothingTyped == Nothing \in FoundStates /\ Nothing.per = <<>> /\ Nothing.offset = 0
BY DEF Nothing, FoundStates

(* The requests of different tools differ.                                 *)
LEMMA ToolsDiffer ==
  ASSUME NEW req
  PROVE  /\ req \in SearchRequests => req.tool = "search_kb"
         /\ req \in ListRequests => req.tool = "list_documents"
         /\ req \in ChunkRequests => req.tool = "get_chunk"
         /\ req \in GraphRequests => req.tool = "explore_topic"
         /\ req \in StatRequests => req.tool = "kb_stats"
BY DEF SearchRequests, ListRequests, ChunkRequests, GraphRequests, StatRequests

(* A call begins. *)
LEMMA CallKeeps ==
  ASSUME RetrievalInv, UNCHANGED <<index, indexChanges, moved>>,
         SearchKb \/ ListDocuments \/ GetChunk \/ GraphTool \/ KbStats
  PROVE  RetrievalInv'
<1>1. RetrievalTyped /\ at = "idle"
  BY DEF RetrievalInv, SearchKb, ListDocuments, GetChunk, GraphTool, KbStats
<1>2. found = Nothing /\ found \in FoundStates
  BY <1>1 DEF RetrievalTyped, FoundFits
<1>3. found.per = <<>> /\ found.offset = 0
  BY <1>2, NothingTyped
<1>4. CASE SearchKb
  <2>1. request' \in SearchRequests /\ at' = "resolve" /\ found' = found
    BY <1>4 DEF SearchKb
  <2>2. request' \notin ListRequests
    BY <2>1, ToolsDiffer
  <2>3. RequestFits(at', request') /\ FoundFits(at', found', request')
    BY <1>3, <2>1, <2>2 DEF RequestFits, FoundFits
  <2>4. Serves(at', found', answer', index, request') /\ at' \in Stages
    BY <2>1 DEF Serves, Stages
  <2> QED
    BY <1>1, <1>2, <2>1, <2>3, <2>4, NextInv
<1>5. CASE ListDocuments
  <2>1. request' \in ListRequests /\ at' = "resolve"
    BY <1>5 DEF ListDocuments, ListRequests
  <2>2. found' = [found EXCEPT !.counts = [d \in Documents |-> 0]]
    BY <1>5 DEF ListDocuments
  <2>3. found' \in FoundStates
    <3>1. [d \in Documents |-> 0] \in [Documents -> Nat]
      OBVIOUS
    <3> QED
      BY <1>2, <2>2, <3>1, FoundFields
  <2>4. found'.per = <<>> /\ found'.offset = 0 /\ found'.counts = [d \in Documents |-> 0]
    BY <1>2, <1>3, <2>2 DEF FoundStates
  <2>5. RequestFits(at', request') /\ FoundFits(at', found', request')
    BY <2>1, <2>4 DEF RequestFits, FoundFits
  <2>6. Serves(at', found', answer', index, request') /\ at' \in Stages
    BY <2>1 DEF Serves, Stages
  <2> QED
    BY <1>1, <2>3, <2>5, <2>6, NextInv
<1>6. CASE GetChunk
  <2>1. request' \in ChunkRequests /\ at' = "context" /\ found' = found
    BY <1>6 DEF GetChunk, ChunkRequests
  <2>2. RequestFits(at', request') /\ FoundFits(at', found', request')
    BY <2>1 DEF RequestFits, FoundFits
  <2>3. Serves(at', found', answer', index, request') /\ at' \in Stages
    BY <2>1 DEF Serves, Stages
  <2> QED
    BY <1>1, <1>2, <2>1, <2>2, <2>3, NextInv
<1>7. CASE GraphTool
  <2>1. request' \in GraphRequests /\ at' = "resolve" /\ found' = found
    BY <1>7 DEF GraphTool, GraphRequests
  <2>2. request' \notin ListRequests
    BY <2>1, ToolsDiffer
  <2>3. RequestFits(at', request') /\ FoundFits(at', found', request')
    BY <1>3, <2>1, <2>2 DEF RequestFits, FoundFits
  <2>4. Serves(at', found', answer', index, request') /\ at' \in Stages
    BY <2>1 DEF Serves, Stages
  <2> QED
    BY <1>1, <1>2, <2>1, <2>3, <2>4, NextInv
<1>8. CASE KbStats
  <2>1. request' \in StatRequests /\ at' = "count" /\ found' = found
    BY <1>8 DEF KbStats, StatRequests
  <2>2. RequestFits(at', request') /\ FoundFits(at', found', request')
    BY <2>1 DEF RequestFits, FoundFits
  <2>3. Serves(at', found', answer', index, request') /\ at' \in Stages
    BY <2>1 DEF Serves, Stages
  <2> QED
    BY <1>1, <1>2, <2>1, <2>2, <2>3, NextInv
<1> QED
  BY <1>4, <1>5, <1>6, <1>7, <1>8

(* The collection is found and the query embedded, or the call is refused. *)
LEMMA ResolveKeeps ==
  ASSUME RetrievalInv, UNCHANGED <<index, indexChanges, moved>>, Resolve \/ EmbedQuery
  PROVE  RetrievalInv'
<1>1. RetrievalTyped /\ found \in FoundStates /\ found' = found /\ request' = request
  BY DEF RetrievalInv, RetrievalTyped, Resolve, EmbedQuery
<1>2. CASE at' = "refused"
  <2>1. /\ RequestFits(at', request') /\ FoundFits(at', found', request')
        /\ Serves(at', found', answer', index, request') /\ at' \in Stages
    BY <1>2 DEF RequestFits, FoundFits, Serves, Stages
  <2> QED
    BY <1>1, <2>1, NextInv
<1>3. CASE Resolve /\ at' # "refused"
  <2>1. /\ at = "resolve" /\ found.per = <<>> /\ found.offset = 0
        /\ request \in SearchRequests \cup ListRequests \cup GraphRequests
        /\ request \in ListRequests => found.counts = [d \in Documents |-> 0]
    BY <1>1, <1>3 DEF Resolve, RetrievalTyped, RequestFits, FoundFits
  <2>2. CASE request \in SearchRequests
    <3>1. at' = "embed"
      BY <1>3, <2>2, ToolsDiffer DEF Resolve
    <3>2. /\ RequestFits(at', request') /\ FoundFits(at', found', request')
          /\ Serves(at', found', answer', index, request') /\ at' \in Stages
      BY <1>1, <2>1, <2>2, <3>1 DEF RequestFits, FoundFits, Serves, Stages
    <3> QED
      BY <1>1, <3>2, NextInv
  <2>3. CASE request \in ListRequests
    <3>1. at' = "list"
      BY <1>3, <2>3, ToolsDiffer DEF Resolve
    <3>2. RequestFits(at', request') /\ FoundFits(at', found', request') /\ at' \in Stages
      BY <1>1, <2>1, <2>3, <3>1 DEF RequestFits, FoundFits, Stages
    <3>3. MatchingOf(index, request) \in SUBSET Chunks
      BY <1>1 DEF RetrievalTyped, MatchingOf, InsideOf
    <3>4. found.counts = CountsUpTo(MatchingOf(index, request), found.offset)
      <4>1. ASSUME NEW d \in Documents
            PROVE  Cardinality({a \in MatchingOf(index, request) :
                                  a <= 0 /\ DocumentOf[a] = d}) = 0
        <5>1. \A a \in MatchingOf(index, request) : a \in Nat \ {0}
          BY <3>3, RetrievalAssumption
        <5>2. \A a \in Nat \ {0} : ~(a <= 0)
          OBVIOUS
        <5>3. {a \in MatchingOf(index, request) : a <= 0 /\ DocumentOf[a] = d} = {}
          BY <5>1, <5>2
        <5> QED
          BY <5>3, FS_EmptySet
      <4> QED
        BY <2>1, <2>3, <4>1 DEF CountsUpTo
    <3>5. Serves(at', found', answer', index, request')
      BY <1>1, <3>1, <3>4 DEF Serves
    <3> QED
      BY <1>1, <3>2, <3>5, NextInv
  <2>4. CASE request \in GraphRequests
    <3>1. at' = "graph"
      BY <1>3, <2>4, ToolsDiffer DEF Resolve
    <3>2. /\ RequestFits(at', request') /\ FoundFits(at', found', request')
          /\ Serves(at', found', answer', index, request') /\ at' \in Stages
      BY <1>1, <2>1, <2>4, <3>1 DEF RequestFits, FoundFits, Serves, Stages
    <3> QED
      BY <1>1, <3>2, NextInv
  <2> QED
    BY <2>1, <2>2, <2>3, <2>4
<1>4. CASE EmbedQuery /\ at' # "refused"
  <2>1. /\ at = "embed" /\ found.per = <<>> /\ request \in SearchRequests
        /\ at' = IF request.multi THEN "multi" ELSE "search"
    BY <1>1, <1>4 DEF EmbedQuery, RetrievalTyped, RequestFits, FoundFits
  <2>2. ListsSoFar(found.per, index, request)
    BY <2>1 DEF ListsSoFar
  <2>3. CASE request.multi
    <3>1. /\ RequestFits(at', request') /\ FoundFits(at', found', request')
          /\ Serves(at', found', answer', index, request') /\ at' \in Stages
      BY <1>1, <2>1, <2>2, <2>3 DEF RequestFits, FoundFits, Serves, Stages
    <3> QED
      BY <1>1, <3>1, NextInv
  <2>4. CASE ~request.multi
    <3>1. /\ RequestFits(at', request') /\ FoundFits(at', found', request')
          /\ Serves(at', found', answer', index, request') /\ at' \in Stages
      BY <1>1, <2>1, <2>4 DEF RequestFits, FoundFits, Serves, Stages
    <3> QED
      BY <1>1, <3>1, NextInv
  <2> QED
    BY <2>3, <2>4
<1> QED
  BY <1>2, <1>3, <1>4

(* A search lists chunks, whatever has happened to the index. *)
LEMMA BestTyped ==
  ASSUME NEW order \in Orders, NEW c, NEW kept, NEW k \in Nat, RetrievalTyped
  PROVE  /\ BestOf(k, order, c, kept) \in Seq(Chunks) /\ Once(BestOf(k, order, c, kept))
         /\ BestOf(k, order, c, kept) = AtMost(k, Keeping(order, InsideOf(index, c) \cap kept))
<1> DEFINE S == InsideOf(index, c) \cap kept
           list == AtMost(k, Keeping(order, S))
<1>1. S \in SUBSET Chunks
  BY DEF RetrievalTyped, InsideOf
<1>2. BestOf(k, order, c, kept) = list
  BY RetrievalReads DEF BestOf
<1> HIDE DEF S
<1>3. Finds(list, k, order, S)
  BY <1>1, SearchLists
<1>4. list \in Seq(S) /\ Once(list)
  BY <1>3 DEF Finds
<1>5. list \in Seq(Chunks)
  BY <1>1, <1>4, SeqMonotonic
<1> QED
  BY <1>2, <1>4, <1>5 DEF S

(* The dense search, alone or as the first half of a hybrid one.           *)
LEMMA DenseSearchKeeps ==
  ASSUME RetrievalInv, UNCHANGED <<index, indexChanges, moved>>, DenseSearch
  PROVE  RetrievalInv'
<1> DEFINE K == RetrieveKOf(request)
           C == CandidatesOf(index, request)
<1>1. /\ RetrievalTyped /\ found \in FoundStates /\ index \in SUBSET Chunks
      /\ request' = request /\ request \in SearchRequests /\ ~request.multi
  BY DEF RetrievalInv, RetrievalTyped, DenseSearch, RequestFits
<1>2. /\ request.dense \in Orders /\ K \in Nat /\ HybridKOf(request) \in Nat
      /\ request.hybrid \in BOOLEAN
  BY <1>1, RequestFields
<1>3. CASE request.hybrid
  <2> DEFINE q == HybridKOf(request)
             kept == HybridKeptOf(request) \cap RelevantOf(request)
             list == BestOf(q, request.dense, DefaultCollection, kept)
  <2>1. /\ found' = [found EXCEPT !.dense = list] /\ at' = "sparse"
    BY <1>3, RetrievalReads DEF DenseSearch
  <2>2. list \in Seq(Chunks) /\ Once(list)
    BY <1>1, <1>2, BestTyped
  <2>3. list = AtMost(q, Keeping(request.dense, InsideOf(index, DefaultCollection) \cap kept))
    BY <1>1, <1>2, BestTyped
  <2> HIDE DEF list, C, K
  <2>4. found' \in FoundStates /\ found'.dense = list
    <3>1. found'.dense = list
      BY <1>1, <2>1 DEF FoundStates
    <3> QED
      BY <1>1, <2>1, <2>2, <3>1, FoundFields
  <2>5. RequestFits(at', request') /\ FoundFits(at', found', request') /\ at' \in Stages
    BY <1>1, <1>3, <2>1, <2>2, <2>4 DEF RequestFits, FoundFits, Stages
  <2>6. Serves(at', found', answer', index, request')
    BY <1>1, <2>1, <2>3, <2>4 DEF Serves, K, C
  <2> QED
    BY <1>1, <2>4, <2>5, <2>6, NextInv
<1>4. CASE ~request.hybrid
  <2> DEFINE kept == KeptBy[request.filter] \cap RelevantOf(request)
             list == BestOf(K, request.dense, TargetOf(request), kept)
  <2>1. /\ found' = [found EXCEPT !.dense = list] /\ at' = "rank"
    BY <1>4, RetrievalReads DEF DenseSearch
  <2>2. list \in Seq(Chunks)
    BY <1>1, <1>2, BestTyped
  <2>3. list = AtMost(K, Keeping(request.dense, C))
    <3>1. C = InsideOf(index, TargetOf(request)) \cap kept
      BY <1>1, <1>4 DEF CandidatesOf
    <3> QED
      BY <1>1, <1>2, <3>1, BestTyped
  <2> HIDE DEF list
  <2>4. CompleteList(list, K, index, request)
    BY <1>1, <1>2, <1>4, <2>3, DenseComplete
  <2> HIDE DEF C, K
  <2>5. found' \in FoundStates /\ found'.dense = list
    <3>1. found'.dense = list
      BY <1>1, <2>1 DEF FoundStates
    <3> QED
      BY <1>1, <2>1, <2>2, <3>1, FoundFields
  <2>6. RequestFits(at', request') /\ FoundFits(at', found', request') /\ at' \in Stages
    BY <1>1, <2>1 DEF RequestFits, FoundFits, Stages
  <2>7. Serves(at', found', answer', index, request')
    BY <1>1, <2>1, <2>4, <2>5 DEF Serves, K
  <2> QED
    BY <1>1, <2>5, <2>6, <2>7, NextInv
<1> QED
  BY <1>2, <1>3, <1>4

(* The sparse search, whether it finds anything or not, and the fusion.    *)
LEMMA SparseSearchKeeps ==
  ASSUME RetrievalInv, UNCHANGED <<index, indexChanges, moved>>, SparseSearch
  PROVE  RetrievalInv'
<1> DEFINE K == RetrieveKOf(request)
           q == HybridKOf(request)
           B == InsideOf(index, DefaultCollection) \cap HybridKeptOf(request)
<1>1. /\ RetrievalTyped /\ found \in FoundStates /\ index \in SUBSET Chunks /\ at = "sparse"
      /\ request' = request /\ request \in SearchRequests /\ ~request.multi /\ request.hybrid
      /\ Once(found.dense)
  BY DEF RetrievalInv, RetrievalTyped, SparseSearch, RequestFits, FoundFits
<1>2. /\ request.sparse \in Orders /\ K \in Nat /\ q \in Nat /\ K <= q
      /\ found.dense \in Seq(Chunks)
  <2>1. request.sparse \in Orders /\ K \in Nat /\ q \in Nat /\ K <= q
    BY <1>1, RequestFields
  <2>2. found.dense \in Seq(Chunks)
    BY <1>1, FoundFields
  <2> QED
    BY <2>1, <2>2
<1> DEFINE sparse == BestOf(q, request.sparse, DefaultCollection,
                            HybridKeptOf(request) \cap SparseOf(request))
<1>4. found' = [found EXCEPT !.sparse = sparse, !.dense = AtMost(K, Fusion(found.dense, sparse))]
  BY RetrievalReads DEF SparseSearch
<1>5. /\ sparse \in Seq(Chunks) /\ Once(sparse)
      /\ sparse = AtMost(q, Keeping(request.sparse,
                                    InsideOf(index, DefaultCollection)
                                    \cap (HybridKeptOf(request) \cap SparseOf(request))))
  BY <1>1, <1>2, BestTyped
<1> HIDE DEF sparse
<1> DEFINE dense == found.dense
           list == AtMost(K, Fusion(dense, sparse))
<1>6. sparse \in Seq(Chunks) /\ Once(sparse)
  BY <1>5
<1>7. list \in Seq(Chunks)
  <2> DEFINE T == Members(dense) \cup Members(sparse)
  <2>1. Fuses(list, K, T, dense, sparse, Chunks)
    BY <1>1, <1>2, <1>6, FusedLists
  <2> QED
    BY <2>1 DEF Fuses
<1> HIDE DEF K, q, B
<1>8. found' = [found EXCEPT !.sparse = sparse, !.dense = list]
  BY <1>4
<1>9. moved \/ CompleteList(list, K, index, request)
  <2> SUFFICES ASSUME ~moved PROVE CompleteList(list, K, index, request)
    OBVIOUS
  <2>1. dense = AtMost(q, Keeping(request.dense,
                           InsideOf(index, DefaultCollection)
                           \cap (HybridKeptOf(request) \cap RelevantOf(request))))
    BY <1>1 DEF RetrievalInv, Serves, q
  <2>2. B = InsideOf(index, DefaultCollection) \cap HybridKeptOf(request)
    BY DEF B
  <2>3. /\ InsideOf(index, DefaultCollection) \cap (HybridKeptOf(request) \cap RelevantOf(request))
             = B \cap RelevantOf(request)
        /\ InsideOf(index, DefaultCollection) \cap (HybridKeptOf(request) \cap SparseOf(request))
             = B \cap SparseOf(request)
    BY <2>2
  <2> HIDE DEF dense
  <2>4. /\ dense = AtMost(q, Keeping(request.dense, B \cap RelevantOf(request)))
        /\ sparse = AtMost(q, Keeping(request.sparse, B \cap SparseOf(request)))
    BY <1>5, <2>1, <2>3
  <2> QED
    BY <1>1, <1>2, <2>2, <2>4, HybridComplete
<1> HIDE DEF list
<1>10. found' \in FoundStates /\ found'.dense = list
  <2>1. found'.dense = list
    BY <1>1, <1>8 DEF FoundStates
  <2> QED
    BY <1>1, <1>6, <1>7, <1>8, <2>1, FoundFields
<1>11. at' = "rank"
  BY DEF SparseSearch
<1>12. RequestFits(at', request') /\ FoundFits(at', found', request') /\ at' \in Stages
  BY <1>1, <1>11 DEF RequestFits, FoundFits, Stages
<1>13. moved \/ Serves(at', found', answer', index, request')
  BY <1>1, <1>9, <1>10, <1>11 DEF Serves, K
<1> QED
  BY <1>1, <1>10, <1>12, <1>13, NextInv

(* A list more, of a collection that was not asked before. *)
LEMMA MultiSearchKeeps ==
  ASSUME RetrievalInv, UNCHANGED <<index, indexChanges, moved>>, MultiSearch
  PROVE  RetrievalInv'
<1> DEFINE K == RetrieveKOf(request)
           per == found.per
<1>1. /\ RetrievalTyped /\ found \in FoundStates /\ index \in SUBSET Chunks /\ at = "multi"
      /\ request' = request /\ request \in SearchRequests /\ request.multi
  BY DEF RetrievalInv, RetrievalTyped, MultiSearch, RequestFits
<1>2. /\ request.dense \in Orders /\ K \in Nat /\ per \in Seq(PerStates)
  <2>1. request.dense \in Orders /\ K \in Nat
    BY <1>1, RequestFields
  <2>2. per \in Seq(PerStates)
    BY <1>1, FoundFields
  <2> QED
    BY <2>1, <2>2
<1>3. PICK c \in Collections :
        /\ \A n \in DOMAIN per : per[n].collection # c
        /\ found' = [found EXCEPT !.per = Append(found.per,
             [collection |-> c,
              list |-> BestOf(K, request.dense, c,
                              KeptBy[request.filter] \cap RelevantOf(request))])]
  BY RetrievalReads DEF MultiSearch
<1> DEFINE list == BestOf(K, request.dense, c, KeptBy[request.filter] \cap RelevantOf(request))
           new == [collection |-> c, list |-> list]
<1>4. /\ list \in Seq(Chunks)
      /\ list = AtMost(K, Keeping(request.dense, InsideOf(index, c)
                                   \cap (KeptBy[request.filter] \cap RelevantOf(request))))
  BY <1>1, <1>2, BestTyped
<1> HIDE DEF list
<1>5. new \in PerStates /\ new.collection = c /\ new.list = list
  BY <1>4 DEF PerStates
<1>6. found' = [found EXCEPT !.per = Append(per, new)]
  BY <1>3 DEF list
<1> HIDE DEF new
<1>7. Append(per, new) \in Seq(PerStates)
  BY <1>2, <1>5
<1>8. found' \in FoundStates /\ found'.per = Append(per, new)
  <2>1. found'.per = Append(per, new)
    BY <1>1, <1>6 DEF FoundStates
  <2> QED
    BY <1>1, <1>6, <1>7, <2>1, FoundFields
<1>9. /\ at' \in {"multi", "rank"}
      /\ at' = "rank" => Len(found'.per) = Cardinality(Collections)
  BY DEF MultiSearch
<1>10. ASSUME ~moved PROVE ListsSoFar(Append(per, new), index, request)
  <2>1. ListsSoFar(per, index, request)
    BY <1>1, <1>10 DEF RetrievalInv, Serves
  <2> DEFINE more == Append(per, new)
             m == Len(per)
  <2>2. /\ m \in Nat /\ DOMAIN per = 1..m /\ DOMAIN more = 1..(m + 1)
        /\ \A n \in 1..m : more[n] = per[n]
        /\ more[m + 1] = new
        /\ \A n \in 1..(m + 1) : n \in 1..m \/ n = m + 1
    BY <1>2, <1>5
  <2> HIDE DEF more, m, per
  <2>3. \A n \in 1..(m + 1) :
          more[n].list = AtMost(K, Keeping(request.dense,
                                  InsideOf(index, more[n].collection)
                                  \cap (KeptBy[request.filter] \cap RelevantOf(request))))
    <3> TAKE n \in 1..(m + 1)
    <3>1. CASE n \in 1..m
      BY <2>1, <2>2, <3>1 DEF ListsSoFar
    <3>2. CASE n = m + 1
      BY <1>4, <1>5, <2>2, <3>2
    <3> QED
      BY <2>2, <3>1, <3>2
  <2>4. \A o, n \in 1..(m + 1) : more[o].collection = more[n].collection => o = n
    <3>1. \A o, n \in 1..m : more[o].collection = more[n].collection => o = n
      BY <2>1, <2>2 DEF ListsSoFar
    <3>2. \A n \in 1..m : more[n].collection # c
      BY <1>3, <2>2
    <3>3. more[m + 1].collection = c
      BY <1>5, <2>2
    <3> QED
      BY <2>2, <3>1, <3>2, <3>3
  <2>5. ListsSoFar(more, index, request)
    BY <2>2, <2>3, <2>4 DEF ListsSoFar
  <2> QED
    BY <2>5 DEF more
<1>11. RequestFits(at', request') /\ FoundFits(at', found', request') /\ at' \in Stages
  BY <1>1, <1>9 DEF RequestFits, FoundFits, Stages
<1>12. moved \/ Serves(at', found', answer', index, request')
  BY <1>1, <1>8, <1>9, <1>10 DEF Serves
<1> QED
  BY <1>1, <1>8, <1>11, <1>12, NextInv

(* As many lists as collections, for different collections, are one for    *)
(* each.                                                                   *)
LEMMA ListsForAll ==
  ASSUME NEW per \in Seq(PerStates), Len(per) = Cardinality(Collections),
         \A m, n \in DOMAIN per : per[m].collection = per[n].collection => m = n,
         NEW of, of = [n \in DOMAIN per |-> per[n].collection]
  PROVE  \A c \in Collections : \E n \in DOMAIN of : of[n] = c
<1> DEFINE m == Len(per)
<1>1. m \in Nat /\ DOMAIN per = 1..m /\ of \in [1..m -> Collections]
  <2>1. m \in Nat /\ DOMAIN per = 1..m /\ \A n \in 1..m : per[n] \in PerStates
    OBVIOUS
  <2>2. \A s \in PerStates : s.collection \in Collections
    BY DEF PerStates
  <2> QED
    BY <2>1, <2>2
<1>2. IsFiniteSet(1..m) /\ Cardinality(1..m) = m
  BY <1>1, FS_Interval
<1>3. IsFiniteSet(Collections) /\ Cardinality(1..m) = Cardinality(Collections)
  BY <1>2, RetrievalAssumption
<1>4. \A a, b \in 1..m : of[a] = of[b] => a = b
  BY <1>1
<1>5. of \in Injection(1..m, Collections)
  BY <1>1, <1>4 DEF Injection, IsInjective
<1>6. of \in Surjection(1..m, Collections)
  BY <1>3, <1>5, FS_Injection
<1> QED
  BY <1>1, <1>6 DEF Surjection

(* The answer: the merge of all lists, or a cut of the one list, reranked  *)
(* or not.                                                                 *)
LEMMA RankKeeps ==
  ASSUME RetrievalInv, UNCHANGED <<index, indexChanges, moved>>, Rank
  PROVE  RetrievalInv'
<1> DEFINE k == request.topK
           m == RetrieveKOf(request)
<1>1. /\ RetrievalTyped /\ found \in FoundStates /\ index \in SUBSET Chunks /\ at = "rank"
      /\ request' = request /\ found' = found /\ at' = "answered"
      /\ request \in SearchRequests
  BY DEF RetrievalInv, RetrievalTyped, Rank, RequestFits
<1>2. k \in Nat /\ m \in Nat /\ k <= m /\ request.multi \in BOOLEAN /\ request.rerank \in BOOLEAN
      /\ request.tool = "search_kb"
  BY <1>1, RequestFields
<1>3. RequestFits(at', request') /\ FoundFits(at', found', request') /\ at' \in Stages
  BY <1>1 DEF RequestFits, FoundFits, Stages
<1>4. ASSUME ~moved PROVE CompleteList(answer', k, index, request)
  <2>1. CASE request.multi
    <3> DEFINE per == found.per
               lists == [n \in DOMAIN per |-> per[n].list]
               of == [n \in DOMAIN per |-> per[n].collection]
    <3>1. answer' = AtMost(k, MergedLists(lists))
      BY <2>1 DEF Rank
    <3>2. ListsSoFar(per, index, request) /\ Len(per) = Cardinality(Collections)
      BY <1>1, <1>4, <2>1 DEF RetrievalInv, Serves
    <3>3. per \in Seq(PerStates)
      BY <1>1, FoundFields
    <3> HIDE DEF per
    <3>4. DOMAIN per \subseteq Nat /\ of \in [DOMAIN per -> Collections]
      <4>1. DOMAIN per \subseteq Nat /\ \A n \in DOMAIN per : per[n] \in PerStates
        BY <3>3
      <4>2. \A s \in PerStates : s.collection \in Collections
        BY DEF PerStates
      <4> QED
        BY <4>1, <4>2
    <3>5. \A c \in Collections : \E n \in DOMAIN per : of[n] = c
      <4>1. \A o, n \in DOMAIN per : per[o].collection = per[n].collection => o = n
        BY <3>2 DEF ListsSoFar
      <4> QED
        BY <3>2, <3>3, <4>1, ListsForAll
    <3>6. OneListEach(lists, of, m, index, request)
      BY <3>2, <3>4, <3>5 DEF OneListEach, ListsSoFar
    <3> HIDE DEF lists, of, k, m
    <3> QED
      BY <1>1, <1>2, <2>1, <3>1, <3>6, MultiComplete
  <2>2. CASE ~request.multi
    <3> DEFINE list == found.dense
    <3>1. CompleteList(list, m, index, request)
      BY <1>1, <1>4, <2>2 DEF RetrievalInv, Serves
    <3>2. \/ answer' = AtMost(k, list)
          \/ request.rerank /\ answer' = AtMost(k, Keeping(request.cross, Members(list)))
      BY <2>2 DEF Rank
    <3> HIDE DEF list, k, m
    <3>3. CASE answer' = AtMost(k, list)
      BY <1>1, <1>2, <3>1, <3>3, CompleteCut
    <3>4. CASE request.rerank /\ answer' = AtMost(k, Keeping(request.cross, Members(list)))
      BY <1>1, <1>2, <2>2, <3>1, <3>4, RerankComplete
    <3> QED
      BY <3>2, <3>3, <3>4
  <2> QED
    BY <1>2, <2>1, <2>2
<1>5. moved \/ AnswerFits(answer', index, request)
  BY <1>2, <1>4 DEF AnswerFits
<1>6. moved \/ Serves(at', found', answer', index, request')
  BY <1>1, <1>5 DEF Serves
<1> QED
  BY <1>1, <1>3, <1>6, NextInv

(* A page more of a listing. *)
LEMMA ListPageKeeps ==
  ASSUME RetrievalInv, UNCHANGED <<index, indexChanges, moved>>, ListPage
  PROVE  RetrievalInv'
<1> DEFINE S == MatchingOf(index, request)
           o == found.offset
           page == Following(o, S)
           last == IF page = <<>> THEN o ELSE page[Len(page)]
           counts == [d \in Documents |->
                        found.counts[d] +
                        Cardinality({y \in Members(page) : DocumentOf[y] = d})]
           listed == {d \in Documents : counts[d] > 0}
<1>1. /\ RetrievalTyped /\ found \in FoundStates /\ index \in SUBSET Chunks /\ at = "list"
      /\ request' = request /\ request \in ListRequests
      /\ found.counts \in [Documents -> Nat]
  BY DEF RetrievalInv, RetrievalTyped, ListPage, RequestFits, FoundFits
<1>2. o \in Nat
  BY <1>1, FoundFields
<1>3. S \in SUBSET Chunks /\ request.limit \in Nat /\ request.tool = "list_documents"
  <2>1. S \in SUBSET Chunks
    BY <1>1 DEF MatchingOf, InsideOf
  <2>2. request.limit \in Limits /\ request.tool = "list_documents"
    BY <1>1 DEF ListRequests
  <2>3. request.limit \in Nat
    BY <2>2, RetrievalAssumption
  <2> QED
    BY <2>1, <2>2, <2>3
<1>4. S = Inside(Target) \cap KeptBy[request.filter]
  BY RetrievalReads DEF MatchingOf
<1>5. /\ found' = [found EXCEPT !.counts = counts, !.offset = last]
      /\ \/ at' = at /\ answer' = answer
         \/ /\ ~((\E y \in S : y > last) /\ Cardinality(listed) < request.limit)
            /\ at' = "answered"
            /\ \E cut \in SUBSET listed :
                 /\ Cardinality(cut) = SmallestOf(request.limit, Cardinality(listed))
                 /\ answer' = [d \in cut |-> counts[d]]
  BY <1>4 DEF ListPage
<1>6. Passes(page, o, last, S)
  BY <1>2, <1>3, PageFollows
<1>7. last \in Nat /\ Members(page) \in SUBSET Chunks /\ IsFiniteSet(Members(page))
  <2>1. last \in Nat /\ Members(page) \in SUBSET Chunks
    BY <1>3, <1>6 DEF Passes
  <2> QED
    BY <2>1, FS_Subset, NumbersOrder
<1>8. counts \in [Documents -> Nat]
  <2> HIDE DEF page
  <2>1. ASSUME NEW d \in Documents
        PROVE  found.counts[d] + Cardinality({y \in Members(page) : DocumentOf[y] = d}) \in Nat
    <3> DEFINE T == {y \in Members(page) : DocumentOf[y] = d}
    <3>1. IsFiniteSet(T)
      BY <1>7, FS_Subset
    <3>2. Cardinality(T) \in Nat
      BY <3>1, FS_CardinalityType
    <3>3. found.counts[d] \in Nat
      BY <1>1
    <3> HIDE DEF T
    <3>4. found.counts[d] + Cardinality(T) \in Nat
      BY <3>2, <3>3
    <3> QED
      BY <3>4 DEF T
  <2> QED
    BY <2>1
<1> HIDE DEF last, listed
<1>9. ASSUME ~moved PROVE counts = CountsUpTo(S, last)
  <2>1. found.counts = CountsUpTo(S, o)
    BY <1>1, <1>9 DEF RetrievalInv, Serves
  <2>2. CountsUpTo(S, last) = CountsAfter(page, CountsUpTo(S, o))
    <3>1. last = IF page = <<>> THEN o ELSE page[Len(page)]
      BY DEF last
    <3> HIDE DEF S, o
    <3> QED
      BY <1>2, <1>3, <3>1, PageCounts
  <2>3. counts = CountsAfter(page, found.counts)
    BY DEF CountsAfter
  <2> QED
    BY <2>1, <2>2, <2>3
<1> DEFINE more == counts
<1>10. counts = more
  OBVIOUS
<1> HIDE DEF more
<1>11. found' = [found EXCEPT !.counts = more, !.offset = last]
  BY <1>5, <1>10
<1>12. more \in [Documents -> Nat] /\ (moved \/ more = CountsUpTo(S, last))
  BY <1>8, <1>9, <1>10
<1>13. listed = {d \in Documents : more[d] > 0}
  BY <1>10 DEF listed
<1>14. found' \in FoundStates /\ found'.counts = more /\ found'.offset = last
  <2>1. found'.counts = more /\ found'.offset = last
    BY <1>1, <1>11 DEF FoundStates
  <2> QED
    BY <1>1, <1>7, <1>11, <1>12, <2>1, FoundFields
<1>15. CASE at' = at /\ answer' = answer
  <2>1. RequestFits(at', request') /\ FoundFits(at', found', request') /\ at' \in Stages
    BY <1>1, <1>12, <1>14, <1>15 DEF RequestFits, FoundFits, Stages
  <2>2. moved \/ Serves(at', found', answer', index, request')
    BY <1>1, <1>12, <1>14, <1>15 DEF Serves
  <2> QED
    BY <1>1, <1>14, <2>1, <2>2, NextInv
<1>16. CASE /\ ~((\E y \in S : y > last) /\ Cardinality(listed) < request.limit)
            /\ at' = "answered"
            /\ \E cut \in SUBSET listed :
                 /\ Cardinality(cut) = SmallestOf(request.limit, Cardinality(listed))
                 /\ answer' = [d \in cut |-> counts[d]]
  <2>1. RequestFits(at', request') /\ FoundFits(at', found', request') /\ at' \in Stages
    BY <1>1, <1>16 DEF RequestFits, FoundFits, Stages
  <2>2. PICK cut \in SUBSET listed :
          /\ Cardinality(cut) = SmallestOf(request.limit, Cardinality(listed))
          /\ answer' = [d \in cut |-> more[d]]
    BY <1>10, <1>16
  <2>3. ASSUME ~moved PROVE ListFits(answer', S, request.limit)
    <3>1. (\A y \in S : ~(y > last)) \/ ~(Cardinality(listed) < request.limit)
      BY <1>16
    <3> HIDE DEF S
    <3> QED
      BY <1>3, <1>7, <1>12, <1>13, <2>2, <2>3, <3>1, ListEnds
  <2>4. moved \/ AnswerFits(answer', index, request)
    BY <1>3, <2>3 DEF AnswerFits
  <2>5. moved \/ Serves(at', found', answer', index, request')
    BY <1>1, <1>16, <2>4 DEF Serves
  <2> QED
    BY <1>1, <1>14, <2>1, <2>5, NextInv
<1> QED
  BY <1>5, <1>15, <1>16

(* A chunk and its neighbours. *)
LEMMA RetrieveChunkKeeps ==
  ASSUME RetrievalInv, UNCHANGED <<index, indexChanges, moved>>, RetrieveChunk
  PROVE  RetrievalInv'
<1>1. /\ RetrievalTyped /\ found \in FoundStates /\ request \in ChunkRequests
      /\ request' = request /\ found' = found /\ at' \in {"neighbours", "refused"}
  BY DEF RetrievalInv, RetrievalTyped, RetrieveChunk, RequestFits
<1>2. /\ RequestFits(at', request') /\ FoundFits(at', found', request')
      /\ Serves(at', found', answer', index, request') /\ at' \in Stages
  BY <1>1 DEF RequestFits, FoundFits, Serves, Stages
<1> QED
  BY <1>1, <1>2, NextInv

(* The window is cut from the first points of the document, which are all  *)
(* of them when the scroll reads that many.                                *)
LEMMA NeighboursKeeps ==
  ASSUME RetrievalInv, UNCHANGED <<index, indexChanges, moved>>, Neighbours
  PROVE  RetrievalInv'
<1> DEFINE b == request.chunk
           D == DocumentIn(index, b)
           k == request.window * 2 + ScrollSlack
           read == AtMost(k, Ranked(D, ByNumber))
           W == {c \in Members(read) : InWindow(request, b, c)}
<1>1. /\ RetrievalTyped /\ found \in FoundStates /\ request \in ChunkRequests
      /\ request' = request /\ found' = found /\ at' = "answered"
      /\ index \in SUBSET Chunks
  BY DEF RetrievalInv, RetrievalTyped, Neighbours, RequestFits
<1>2. request.tool = "get_chunk" /\ k \in Nat
  <2>1. request.tool = "get_chunk" /\ request.window \in 0..1
    BY <1>1 DEF ChunkRequests
  <2>2. ScrollSlack \in Nat
    BY RetrievalAssumption
  <2> QED
    BY <2>1, <2>2
<1>3. answer' = Ranked(W, ByIndex)
  <2>1. answer' = Ranked({c \in Members(read) : WithinWindow(b, c)}, ByIndex)
    BY RetrievalReads DEF Neighbours
  <2>2. {c \in Members(read) : WithinWindow(b, c)} = W
    BY RetrievalReads
  <2> QED
    BY <2>1, <2>2
<1>4. D \in SUBSET Chunks
  BY <1>1 DEF DocumentIn, InsideOf
<1> HIDE DEF D, k
<1>5. SortsByNumber(read, k, D)
  BY <1>2, <1>4, FirstByNumber
<1> HIDE DEF read
<1>6. Members(read) \subseteq D /\ (Cardinality(D) <= k => Members(read) = D)
  BY <1>5 DEF SortsByNumber
<1>7. W \in SUBSET Chunks
  BY <1>4, <1>6
<1> HIDE DEF W
<1>8. Members(answer') = W
  BY <1>3, <1>7, IndexesOrder, NumbersOrder, RankedLists
<1>9. Cardinality(D) <= k => Members(answer') = {c \in D : InWindow(request, b, c)}
  BY <1>6, <1>8 DEF W
<1>10. AnswerFits(answer', index, request)
  BY <1>2, <1>9 DEF AnswerFits, D, k
<1>11. RequestFits(at', request') /\ FoundFits(at', found', request') /\ at' \in Stages
  BY <1>1 DEF RequestFits, FoundFits, Stages
<1>12. Serves(at', found', answer', index, request')
  BY <1>1, <1>10 DEF Serves
<1> QED
  BY <1>1, <1>11, <1>12, NextInv

(* The first points with a topic. *)
LEMMA GraphScrollKeeps ==
  ASSUME RetrievalInv, UNCHANGED <<index, indexChanges, moved>>, GraphScroll
  PROVE  RetrievalInv'
<1> DEFINE S == MatchingOf(index, request)
           k == request.limit
           list == AtMost(k, Ranked(S, ByNumber))
<1>1. /\ RetrievalTyped /\ found \in FoundStates /\ request \in GraphRequests
      /\ request' = request /\ found' = found /\ at' = "answered"
      /\ index \in SUBSET Chunks
  BY DEF RetrievalInv, RetrievalTyped, GraphScroll, RequestFits
<1>2. request.tool = "explore_topic" /\ k \in Nat /\ request.filter = "shared"
  <2>1. request.tool = "explore_topic" /\ k \in Limits /\ request.filter = "shared"
    BY <1>1 DEF GraphRequests
  <2>2. k \in Nat
    BY <2>1, RetrievalAssumption
  <2> QED
    BY <2>1, <2>2
<1>3. answer' = list
  <2>1. Inside(Target) \cap KeptBy["shared"] = S
    BY <1>2, RetrievalReads DEF MatchingOf
  <2> QED
    BY <2>1 DEF GraphScroll
<1>4. S \in SUBSET Chunks
  BY <1>1 DEF MatchingOf, InsideOf
<1> HIDE DEF S, k
<1>5. SortsByNumber(list, k, S)
  BY <1>2, <1>4, FirstByNumber
<1> HIDE DEF list
<1>6. Len(answer') = SmallestOf(k, Cardinality(S))
  BY <1>3, <1>5 DEF SortsByNumber
<1>7. AnswerFits(answer', index, request)
  BY <1>2, <1>6 DEF AnswerFits, S, k
<1>8. RequestFits(at', request') /\ FoundFits(at', found', request') /\ at' \in Stages
  BY <1>1 DEF RequestFits, FoundFits, Stages
<1>9. Serves(at', found', answer', index, request')
  BY <1>1, <1>7 DEF Serves
<1> QED
  BY <1>1, <1>8, <1>9, NextInv

(* The count and the sample of the statistics. *)
LEMMA CountPointsKeeps ==
  ASSUME RetrievalInv, UNCHANGED <<index, indexChanges, moved>>, CountPoints
  PROVE  RetrievalInv'
<1> DEFINE S == InsideOf(index, DefaultCollection)
           n == Cardinality(S)
<1>1. /\ RetrievalTyped /\ found \in FoundStates /\ request \in StatRequests
      /\ request' = request /\ at' = "sample" /\ index \in SUBSET Chunks
  BY DEF RetrievalInv, RetrievalTyped, CountPoints, RequestFits
<1>2. found' = [found EXCEPT !.offset = n]
  BY RetrievalReads DEF CountPoints
<1>3. n \in Nat
  <2>1. S \in SUBSET Chunks
    BY <1>1 DEF InsideOf
  <2> HIDE DEF S
  <2> QED
    BY <2>1, NumbersOrder, FS_CardinalityType
<1> HIDE DEF n
<1>4. found' \in FoundStates /\ found'.offset = n
  <2>1. found'.offset = n
    BY <1>1, <1>2 DEF FoundStates
  <2> QED
    BY <1>1, <1>2, <1>3, <2>1, FoundFields
<1>5. RequestFits(at', request') /\ FoundFits(at', found', request') /\ at' \in Stages
  BY <1>1 DEF RequestFits, FoundFits, Stages
<1>6. Serves(at', found', answer', index, request')
  BY <1>1, <1>4 DEF Serves, n
<1> QED
  BY <1>1, <1>4, <1>5, <1>6, NextInv

(* The documents of a sample that is no smaller than the count are all     *)
(* there are.                                                              *)
LEMMA SamplePointsKeeps ==
  ASSUME RetrievalInv, UNCHANGED <<index, indexChanges, moved>>, SamplePoints
  PROVE  RetrievalInv'
<1> DEFINE S == InsideOf(index, DefaultCollection)
           list == AtMost(SampleSize, Ranked(S, ByNumber))
<1>1. /\ RetrievalTyped /\ found \in FoundStates /\ request \in StatRequests
      /\ request' = request /\ found' = found /\ at = "sample" /\ at' = "answered"
      /\ index \in SUBSET Chunks
  BY DEF RetrievalInv, RetrievalTyped, SamplePoints, RequestFits
<1>2. request.tool = "kb_stats"
  BY <1>1, ToolsDiffer
<1>3. /\ answer'.chunks = found.offset
      /\ answer'.documents = {DocumentOf[y] : y \in Members(list)}
  BY RetrievalReads DEF SamplePoints
<1>4. S \in SUBSET Chunks
  BY <1>1 DEF InsideOf
<1> HIDE DEF S
<1>5. SampleSize \in Nat
  BY RetrievalAssumption
<1>6. SortsByNumber(list, SampleSize, S)
  BY <1>4, <1>5, FirstByNumber
<1> HIDE DEF list
<1>7. Cardinality(S) <= SampleSize => Members(list) = S
  BY <1>6 DEF SortsByNumber
<1>8. ASSUME ~moved PROVE AnswerFits(answer', index, request)
  <2>1. found.offset = Cardinality(S)
    BY <1>1, <1>8 DEF RetrievalInv, Serves, S
  <2>2. answer'.chunks <= SampleSize => answer'.documents = {DocumentOf[y] : y \in S}
    BY <1>3, <1>7, <2>1
  <2> QED
    BY <1>2, <2>2 DEF AnswerFits, S
<1>9. RequestFits(at', request') /\ FoundFits(at', found', request') /\ at' \in Stages
  BY <1>1 DEF RequestFits, FoundFits, Stages
<1>10. moved \/ Serves(at', found', answer', index, request')
  BY <1>1, <1>8 DEF Serves
<1> QED
  BY <1>1, <1>9, <1>10, NextInv

(* A request that fails ends the call. *)
LEMMA RequestFailsKeeps ==
  ASSUME RetrievalInv, UNCHANGED <<index, indexChanges, moved>>, RequestFails
  PROVE  RetrievalInv'
<1>1. /\ RetrievalTyped /\ found \in FoundStates /\ at' = "refused"
      /\ request' = request /\ found' = found
  BY DEF RetrievalInv, RetrievalTyped, RequestFails
<1>2. RequestFits(at', request') /\ FoundFits(at', found', request') /\ at' \in Stages
  BY <1>1 DEF RequestFits, FoundFits, Stages
<1>3. Serves(at', found', answer', index, request')
  BY <1>1 DEF Serves
<1> QED
  BY <1>1, <1>2, <1>3, NextInv

(* Once the index has changed, only the types are claimed. *)
LEMMA IndexMovesKeeps ==
  ASSUME RetrievalInv, IndexMoves
  PROVE  RetrievalInv'
<1>1. /\ RetrievalTyped /\ UNCHANGED <<request, at, found, answer>> /\ moved' = TRUE
      /\ indexChanges < MaxIndexChanges /\ indexChanges' = indexChanges + 1
      /\ index' \in SUBSET Chunks
  BY DEF RetrievalInv, RetrievalTyped, IndexMoves
<1>2. indexChanges' \in 0..MaxIndexChanges
  <2>1. indexChanges \in 0..MaxIndexChanges /\ MaxIndexChanges \in Nat
    BY <1>1, RetrievalAssumption DEF RetrievalTyped
  <2> QED
    BY <1>1, <2>1
<1>3. RetrievalTyped'
  BY <1>1, <1>2 DEF RetrievalTyped
<1> QED
  BY <1>1, <1>3 DEF RetrievalInv

(* The invariant holds at first.                                           *)
LEMMA RetrievalInitInv ==
  ASSUME RetrievalInit
  PROVE  RetrievalInv
<1>1. /\ index \in SUBSET Chunks /\ at = "idle" /\ found = Nothing /\ indexChanges = 0
      /\ moved = FALSE
  BY DEF RetrievalInit
<1>2. indexChanges \in 0..MaxIndexChanges
  BY <1>1, RetrievalAssumption
<1>3. RetrievalTyped
  BY <1>1, <1>2, NothingTyped DEF RetrievalTyped, Stages, RequestFits, FoundFits
<1>4. Serves(at, found, answer, index, request)
  BY <1>1 DEF Serves
<1> QED
  BY <1>3, <1>4 DEF RetrievalInv

(* Every step keeps the invariant.                                         *)
LEMMA RetrievalStepInv ==
  ASSUME RetrievalInv, [RetrievalNext]_retrievalVars
  PROVE  RetrievalInv'
<1>1. CASE UNCHANGED retrievalVars
  BY <1>1 DEF RetrievalInv, RetrievalTyped, retrievalVars
<1>2. CASE IndexMoves
  BY <1>2, IndexMovesKeeps
<1>3. CASE /\ \/ SearchKb \/ Resolve \/ EmbedQuery \/ DenseSearch \/ SparseSearch
              \/ MultiSearch \/ Rank
              \/ ListDocuments \/ ListPage
              \/ GetChunk \/ RetrieveChunk \/ Neighbours
              \/ GraphTool \/ GraphScroll
              \/ KbStats \/ CountPoints \/ SamplePoints
              \/ RequestFails
           /\ UNCHANGED <<index, indexChanges, moved>>
  BY <1>3, CallKeeps, RequestFailsKeeps, ResolveKeeps, DenseSearchKeeps, SparseSearchKeeps, MultiSearchKeeps,
     RankKeeps, ListPageKeeps, RetrieveChunkKeeps, NeighboursKeeps, GraphScrollKeeps,
     CountPointsKeeps, SamplePointsKeeps
<1> QED
  BY <1>1, <1>2, <1>3 DEF RetrievalNext

(* The invariant implies the types.                                        *)
LEMMA RetrievalTypes ==
  ASSUME RetrievalInv
  PROVE  RetrievalTypeOK
<1>1. RetrievalTyped
  BY DEF RetrievalInv
<1>2. found.offset \in Nat
  BY <1>1, FoundFields DEF RetrievalTyped
<1> QED
  BY <1>1, <1>2 DEF RetrievalTyped, RetrievalTypeOK, Stages

(* What the invariant says of an answer is what the property says.         *)
LEMMA SearchFits ==
  ASSUME CompleteList(answer, request.topK, index, request)
  PROVE  SearchIsComplete
<1> DEFINE C == CandidatesOf(index, request)
           returned == Members(answer)
<1>1. /\ answer \in Seq(C) /\ Once(answer)
      /\ Len(answer) = SmallestOf(request.topK, Cardinality(C))
      /\ ~request.rerank \/ request.multi =>
           \A a \in C, b \in returned :
             Ahead(index, request, a, b) =>
               a \in returned /\ RankIn(answer, a) < RankIn(answer, b)
  BY DEF CompleteList
<1>2. returned \in SUBSET C /\ Cardinality(returned) = Len(answer)
  BY <1>1, OnceListed
<1>3. C = Candidates
  BY RetrievalReads
<1>4. \A a, b : AgreedBefore(a, b) => Ahead(index, request, a, b)
  <2>1. \A a : RankInCollection(a) = RankOf(index, request, a)
    BY <1>3 DEF RankInCollection, RankOf
  <2> QED
    BY <2>1 DEF AgreedBefore, Ahead
<1> HIDE DEF C
<1> QED
  BY <1>1, <1>2, <1>3, <1>4 DEF SearchIsComplete

(* So the invariant implies the property.                                  *)
LEMMA AnswersFit ==
  ASSUME RetrievalInv
  PROVE  UndisturbedAnswersAreComplete
<1> SUFFICES ASSUME at = "answered", ~moved
             PROVE  UndisturbedAnswersAreComplete
  BY DEF UndisturbedAnswersAreComplete
<1>1. AnswerFits(answer, index, request)
  BY DEF RetrievalInv, Serves
<1>2. CASE request.tool = "search_kb"
  <2>1. SearchIsComplete
    BY <1>1, <1>2, SearchFits DEF AnswerFits
  <2> QED
    BY <1>2, <2>1 DEF UndisturbedAnswersAreComplete
<1>3. CASE request.tool = "list_documents"
  <2>1. ListFits(answer, MatchingOf(index, request), request.limit)
    BY <1>1, <1>3 DEF AnswerFits
  <2>2. MatchingOf(index, request) = Inside(Target) \cap KeptBy[request.filter]
    BY RetrievalReads DEF MatchingOf
  <2>3. ListIsComplete
    BY <2>1, <2>2 DEF ListIsComplete, ListFits
  <2> QED
    BY <1>3, <2>3 DEF UndisturbedAnswersAreComplete
<1>4. CASE request.tool = "get_chunk"
  <2>1. ChunkHasItsWindow
    BY <1>1, <1>4, RetrievalReads DEF AnswerFits, ChunkHasItsWindow
  <2> QED
    BY <1>4, <2>1 DEF UndisturbedAnswersAreComplete
<1>5. CASE request.tool = "explore_topic"
  <2>1. MatchingOf(index, request) = Inside(Target) \cap KeptBy["shared"]
    BY <1>1, <1>5, RetrievalReads DEF AnswerFits, MatchingOf
  <2>2. Len(answer) = SmallestOf(request.limit, Cardinality(Inside(Target) \cap KeptBy["shared"]))
    BY <1>1, <1>5, <2>1 DEF AnswerFits
  <2> QED
    BY <1>5, <2>2 DEF UndisturbedAnswersAreComplete
<1>6. CASE request.tool = "kb_stats"
  <2>1. answer.chunks <= SampleSize =>
          answer.documents = {DocumentOf[y] : y \in Inside(DefaultCollection)}
    BY <1>1, <1>6, RetrievalReads DEF AnswerFits
  <2> QED
    BY <1>6, <2>1 DEF UndisturbedAnswersAreComplete
<1> QED
  BY <1>1, <1>2, <1>3, <1>4, <1>5, <1>6 DEF AnswerFits

(* The variables of the reading tools keep their types; and what a tool    *)
(* answers while the index stands still is complete: nothing that matches  *)
(* is left out for less (the cut of the retrieved list, the fusion, the    *)
(* merge of the collections and the reranking all keep the best), no page  *)
(* of a listing skips or repeats a chunk, and a chunk comes with the       *)
(* neighbours of its window.                                               *)
THEOREM RetrievalTypesHold == RetrievalSpec => []RetrievalTypeOK
<1>1. RetrievalInit => RetrievalInv
  BY RetrievalInitInv
<1>2. RetrievalInv /\ [RetrievalNext]_retrievalVars => RetrievalInv'
  BY RetrievalStepInv
<1>3. RetrievalInv => RetrievalTypeOK
  BY RetrievalTypes
<1> QED
  BY <1>1, <1>2, <1>3, PTL DEF RetrievalSpec

(* What a tool answers while the index stands still is complete: nothing   *)
(* that matches is left out for less (the cut of the retrieved list, the   *)
(* fusion, the merge of the collections and the reranking all keep the     *)
(* best), no page of a listing skips or repeats a chunk, and a chunk comes *)
(* with the neighbours of its window.                                      *)
THEOREM AnswersAreComplete == RetrievalSpec => []UndisturbedAnswersAreComplete
<1>1. RetrievalInit => RetrievalInv
  BY RetrievalInitInv
<1>2. RetrievalInv /\ [RetrievalNext]_retrievalVars => RetrievalInv'
  BY RetrievalStepInv
<1>3. RetrievalInv => UndisturbedAnswersAreComplete
  BY AnswersFit
<1> QED
  BY <1>1, <1>2, <1>3, PTL DEF RetrievalSpec

-----------------------------------------------------------------------------
(* A behaviour of the composition, seen from one component, is a behaviour *)
(* of that component, but for its fairness: what a component's theorems    *)
(* say of its steps holds of the whole.                                    *)
THEOREM ServicesAreSeparate ==
  Spec => /\ SchedulesSpec /\ TermsSpec /\ RetrievalSpec
          /\ WatcherInit /\ [][WatcherNext]_watcherVars
          /\ ConfigInit /\ [][ConfigNext]_configVars
          /\ WaitingInit /\ [][WaitingNext]_waitingVars
<1>1. Init => /\ SchedulesInit /\ WatcherInit /\ TermsInit /\ ConfigInit /\ RetrievalInit
              /\ WaitingInit
  BY DEF Init
<1>2. [Next]_vars => /\ [SchedulesNext]_scheduleVars
                     /\ [WatcherNext]_watcherVars
                     /\ [TermsNext]_termsVars
                     /\ [ConfigNext]_configVars
                     /\ [RetrievalNext]_retrievalVars
                     /\ [WaitingNext]_waitingVars
  BY DEF Next, vars
<1> QED
  BY <1>1, <1>2, PTL DEF Spec, SchedulesSpec, TermsSpec, RetrievalSpec

(* Every variable of the six components keeps its type, at any size of     *)
(* any of them.                                                            *)
THEOREM ServicesTypes == Spec => []ServicesTypeOK
<1>1. SchedulesInit => SchedulesInv
  BY SchedulesInitInv
<1>2. SchedulesInv /\ [SchedulesNext]_scheduleVars => SchedulesInv'
  BY SchedulesStepInv
<1>3. SchedulesInv => SchedulesTypeOK
  BY SchedulesTypes
<1>4. WatcherInit => WatcherInv
  BY WatcherInitInv
<1>5. WatcherInv /\ [WatcherNext]_watcherVars => WatcherInv'
  BY WatcherStepInv
<1>6. WatcherInv => WatcherTypeOK
  BY WatcherTypes
<1>7. TermsInv => TermsTypeOK
  BY DEF TermsInv
<1>8. ConfigInit => ConfigInv
  BY ConfigInitInv
<1>9. ConfigInv /\ [ConfigNext]_configVars => ConfigInv'
  BY ConfigStepInv
<1>10. ConfigInv => ConfigTypeOK
  BY ConfigTypes
<1>11. WaitingInit => WaitingInv
  BY WaitingInitInv
<1>12. WaitingInv /\ [WaitingNext]_waitingVars => WaitingInv'
  BY WaitingStepInv
<1>13. WaitingInv => WaitingTypeOK
  BY WaitingTypes
<1>14. SchedulesTypeOK /\ WatcherTypeOK /\ TermsTypeOK /\ ConfigTypeOK /\ RetrievalTypeOK
       /\ WaitingTypeOK => ServicesTypeOK
  BY DEF ServicesTypeOK
<1> QED
  BY <1>1, <1>2, <1>3, <1>4, <1>5, <1>6, <1>7, <1>8, <1>9, <1>10, <1>11, <1>12, <1>13, <1>14,
    ServicesAreSeparate, TermsInvariant, RetrievalTypesHold, PTL DEF SchedulesSpec
=============================================================================
