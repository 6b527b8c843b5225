----------------------------- MODULE IngestIndex -----------------------------
(***************************************************************************)
(* The registry of ingested files (SQLite, IngestRegistry) and the chunks  *)
(* of each file in the vector store (Qdrant), which no transaction joins.  *)
(*                                                                         *)
(*   - ingesters: coroutines in process_file (ingest/ingest.py), of one or *)
(*     of several processes; every await and every read of the file is a   *)
(*     step, and every external call may fail.                             *)
(*   - users: edit, create and remove the files.                           *)
(*   - maintainers: the file watcher's deletion handler, `ingest --sync'   *)
(*     and `--clean', `kb-rag tags remove' and `tags reingest', and the    *)
(*     administration API's DELETE.                                        *)
(*                                                                         *)
(* The chunks of a file are what delete_document and search see: all the   *)
(* points with that source_file, each with a fresh id, so an upsert adds   *)
(* and never replaces.                                                     *)
(***************************************************************************)
EXTENDS Integers, FiniteSets

CONSTANTS
  Paths,       (* files, by their path relative to docs_root               *)
  Texts,       (* contents that give chunks                                *)
  Short,       (* a content all of whose chunks are too short              *)
  Unreadable,  (* a content from which nothing is extracted                *)
  Missing,     (* the file is not there                                    *)
  Batches,     (* number of upsert batches of a document                   *)
  Ingesters,   (* concurrent runs of process_file                          *)
  Maintainers, (* processes doing a maintenance operation                  *)
  Maintenance, (* the maintenance operations in use                        *)
  MaxEdits, MaxForced, MaxFailures, MaxCrashes   (* bounds                 *)

MaintenanceOps == {"watch", "sync", "clean", "remove", "reingest", "api_delete"}
Content == Texts \cup {Short, Unreadable}

ASSUME IngestIndexAssumption ==
  /\ Short \notin Texts /\ Unreadable \notin Texts /\ Missing \notin Content
  /\ Short # Unreadable
  /\ Texts # {}
  /\ Batches \in Nat \ {0}
  /\ Maintenance \subseteq MaintenanceOps
  /\ {MaxEdits, MaxForced, MaxFailures, MaxCrashes} \subseteq Nat

VARIABLES
  disk,      \* disk[p]: the content of the file, or Missing
  row,       \* row[p]: status and sha256 of the row in `files' ("none": no row);
             \* the digest stands for the content it was computed from
  index,     \* index[p][t][b]: copies of the b-th batch of the chunks of t
  ipc,       \* per ingester: where it is in process_file,
  ipath,     \*   the file,
  itext,     \*   the content it extracted,
  ibatch,    \*   and the batches already upserted
  mop, mpath,\* per maintainer: the operation half done, and its paths
  removed,   \* paths whose deletion the watcher has still to handle
  edits, forced, failures, crashes,   \* counters of the bounds
  disturbed  \* history, per path: what interfered with its ingestion since the
             \* last deletion of its chunks by a run that was its only writer

(* "others": another run was writing the file, or a maintainer took its     *)
(*   chunks away;                                                          *)
(* "edit": the file changed between the extraction and mark_ok, which      *)
(*   hashes it again, so that the row speaks of what was never indexed;    *)
(* "crash": the run died while it was writing, and left the row as it was; *)
(* "vouched": after such a death that row spoke of the content on disk:    *)
(*   the run was forced, or the file was put back to what it had been.     *)
Reasons == {"nothing", "others", "edit", "crash", "vouched"}

files    == <<disk, removed, edits>>
runs     == <<ipc, ipath, itext, ibatch>>
upkeep   == <<mop, mpath>>
counters == <<forced, failures, crashes>>
vars == <<disk, row, index, ipc, ipath, itext, ibatch, mop, mpath, removed,
          edits, forced, failures, crashes, disturbed>>

-----------------------------------------------------------------------------
(* The two stores *)

Status == {"none", "ok", "error", "deleted", "pending"}

(* The first n batches of one copy of t. *)
Part(t, n) ==
  [u \in Texts |-> [b \in 1..Batches |-> IF u = t /\ b <= n THEN 1 ELSE 0]]
Full(t) == Part(t, Batches)
NoChunks == [u \in Texts |-> [b \in 1..Batches |-> 0]]

(* Variant: rows in error are not retried. *)
NeedsIngestHashOnly(p) == row[p].status = "none" \/ row[p].sha # disk[p]

(* IngestRegistry.needs_ingest *)
NeedsIngest(p) ==
  \/ row[p].status \in {"none", "error"}
  \/ row[p].sha # disk[p]

(* mark_ok hashes the file again; mark_error keeps the hash of an old row. *)
OkRow(p) == [status |-> "ok", sha |-> disk[p]]
ErrorRow(p) ==
  [status |-> "error", sha |-> IF row[p].status = "none" THEN disk[p] ELSE row[p].sha]

(* The row holds the digest of c and is not to be retried. *)
Vouches(p, c) == row[p].status \notin {"none", "error"} /\ row[p].sha = c

WithStatus(p, s) ==
  IF row[p].status = "none" THEN row
  ELSE [row EXCEPT ![p] = [status |-> s, sha |-> row[p].sha]]

TypeOK ==
  /\ disk \in [Paths -> Content \cup {Missing}]
  /\ row \in [Paths -> [status : Status, sha : Content \cup {Missing}]]
  /\ index \in [Paths -> [Texts -> [1..Batches -> Nat]]]
  /\ ipc \in [Ingesters -> {"idle", "extract", "delete", "short", "embed", "upsert", "mark"}]
  /\ ipath \in [Ingesters -> Paths]
  /\ itext \in [Ingesters -> Content]
  /\ ibatch \in [Ingesters -> 0..Batches]
  /\ mop \in [Maintainers -> MaintenanceOps \cup {"none"}]
  /\ mpath \in [Maintainers -> SUBSET Paths]
  /\ removed \in SUBSET Paths
  /\ edits \in Nat /\ forced \in Nat /\ failures \in Nat /\ crashes \in Nat
  /\ disturbed \in [Paths -> Reasons]

(* The ingesters that have deleted the old chunks of p and are writing the *)
(* new ones.                                                               *)
Writing(i, p) == ipath[i] = p /\ ipc[i] \in {"short", "embed", "upsert", "mark"}
Writers(p) == {i \in Ingesters : Writing(i, p)}

Disturb(p, reason) ==
  [disturbed EXCEPT ![p] = IF @ = "others" THEN "others" ELSE reason]

-----------------------------------------------------------------------------
(* process_file *)

(* The run has listed the file; unless forced, needs_ingest decides.       *)
Check(i, p) ==
  /\ ipc[i] = "idle"
  /\ disk[p] # Missing /\ NeedsIngest(p)
  /\ ipc' = [ipc EXCEPT ![i] = "extract"]
  /\ ipath' = [ipath EXCEPT ![i] = p]
  /\ UNCHANGED <<files, row, index, itext, ibatch, upkeep, counters, disturbed>>

CheckForced(i, p) ==
  /\ ipc[i] = "idle"
  /\ disk[p] # Missing
  /\ forced < MaxForced
  /\ forced' = forced + 1
  /\ ipc' = [ipc EXCEPT ![i] = "extract"]
  /\ ipath' = [ipath EXCEPT ![i] = p]
  /\ UNCHANGED <<files, row, index, itext, ibatch, upkeep, failures, crashes, disturbed>>

(* mark_error and `return 0, "error"'; index and disturbed are left to the *)
(* caller.                                                                 *)
EndInError(i) ==
  /\ row' = [row EXCEPT ![ipath[i]] = ErrorRow(ipath[i])]
  /\ ipc' = [ipc EXCEPT ![i] = "idle"]
  /\ UNCHANGED <<ipath, itext, ibatch>>

(* extractor(file_path), which raises when the file has gone. *)
Extract(i) ==
  /\ ipc[i] = "extract"
  /\ IF disk[ipath[i]] \in Texts \cup {Short}
       THEN /\ ipc' = [ipc EXCEPT ![i] = "delete"]
            /\ itext' = [itext EXCEPT ![i] = disk[ipath[i]]]
            /\ UNCHANGED <<row, ipath, ibatch>>
       ELSE EndInError(i)
  /\ UNCHANGED <<files, index, upkeep, counters, disturbed>>

(* Variant: the old chunks are left where they are. *)
DeleteNothing(i) ==
  /\ ipc[i] = "delete"
  /\ ipc' = [ipc EXCEPT ![i] = IF itext[i] = Short THEN "short" ELSE "embed"]
  /\ disturbed' = IF Writers(ipath[i]) = {} THEN [disturbed EXCEPT ![ipath[i]] = "nothing"]
                                            ELSE Disturb(ipath[i], "others")
  /\ UNCHANGED <<files, row, index, ipath, itext, ibatch, upkeep, counters>>

(* store.delete_document(source_file), then the chunking.                  *)
DeleteOld(i) ==
  /\ ipc[i] = "delete"
  /\ index' = [index EXCEPT ![ipath[i]] = NoChunks]
  /\ ipc' = [ipc EXCEPT ![i] = IF itext[i] = Short THEN "short" ELSE "embed"]
  /\ disturbed' = IF Writers(ipath[i]) = {} THEN [disturbed EXCEPT ![ipath[i]] = "nothing"]
                                            ELSE Disturb(ipath[i], "others")
  /\ UNCHANGED <<files, row, ipath, itext, ibatch, upkeep, counters>>

(* No chunk is long enough: mark_error, the old chunks being gone.         *)
MarkShort(i) ==
  /\ ipc[i] = "short"
  /\ EndInError(i)
  /\ UNCHANGED <<files, index, upkeep, counters, disturbed>>

(* get_embeddings_batch *)
Embed(i) ==
  /\ ipc[i] = "embed"
  /\ ipc' = [ipc EXCEPT ![i] = "upsert"]
  /\ ibatch' = [ibatch EXCEPT ![i] = 0]
  /\ UNCHANGED <<files, row, index, ipath, itext, upkeep, counters, disturbed>>

(* store.upsert_chunks: one request per batch. *)
Upsert(i) ==
  /\ ipc[i] = "upsert"
  /\ index' = [index EXCEPT ![ipath[i]][itext[i]][ibatch[i] + 1] = @ + 1]
  /\ ibatch' = [ibatch EXCEPT ![i] = @ + 1]
  /\ ipc' = [ipc EXCEPT ![i] = IF ibatch[i] + 1 = Batches THEN "mark" ELSE "upsert"]
  /\ UNCHANGED <<files, row, ipath, itext, upkeep, counters, disturbed>>

(* Variant: an exception during the upsert is logged and forgotten. *)
FailUnmarked(i) ==
  /\ ipc[i] # "idle"
  /\ failures < MaxFailures
  /\ failures' = failures + 1
  /\ IF ipc[i] = "upsert"
       THEN /\ ipc' = [ipc EXCEPT ![i] = "mark"]
            /\ UNCHANGED <<row, ipath, itext, ibatch>>
       ELSE EndInError(i)
  /\ UNCHANGED <<files, index, upkeep, forced, crashes, disturbed>>

(* The extractor, the deletion, the embedding, a batch of the upsert, or   *)
(* mark_ok or mark_error on a registry in use, raises: the handler marks   *)
(* the error.  When that raises too, the run ends: see Crash.              *)
Fail(i) ==
  /\ ipc[i] # "idle"
  /\ failures < MaxFailures
  /\ failures' = failures + 1
  /\ EndInError(i)
  /\ UNCHANGED <<files, index, upkeep, forced, crashes, disturbed>>

(* registry.mark_ok: reads the file for its hash, raises if it has gone.   *)
MarkOk(i) ==
  /\ ipc[i] = "mark"
  /\ IF disk[ipath[i]] = Missing
       THEN EndInError(i) /\ UNCHANGED disturbed
       ELSE /\ row' = [row EXCEPT ![ipath[i]] = OkRow(ipath[i])]
            /\ ipc' = [ipc EXCEPT ![i] = "idle"]
            /\ disturbed' = IF disk[ipath[i]] = itext[i] THEN disturbed
                                                         ELSE Disturb(ipath[i], "edit")
            /\ UNCHANGED <<ipath, itext, ibatch>>
  /\ UNCHANGED <<files, index, upkeep, counters>>

(* The process dies, or mark_error raises out of process_file and of the   *)
(* gather of run_ingest; it is started again.                              *)
Crash(i) ==
  /\ ipc[i] # "idle"
  /\ crashes < MaxCrashes
  /\ crashes' = crashes + 1
  /\ ipc' = [ipc EXCEPT ![i] = "idle"]
  /\ disturbed' =
       IF ~Writing(i, ipath[i]) THEN disturbed
       ELSE Disturb(ipath[i], IF Vouches(ipath[i], disk[ipath[i]]) THEN "vouched" ELSE "crash")
  /\ UNCHANGED <<files, row, index, ipath, itext, ibatch, upkeep, forced, failures>>

-----------------------------------------------------------------------------
(* Users and maintenance *)

Edit(p, c) ==
  /\ disk[p] # c /\ edits < MaxEdits
  /\ edits' = edits + 1
  /\ disk' = [disk EXCEPT ![p] = c]
  /\ removed' = IF c = Missing /\ "watch" \in Maintenance THEN removed \cup {p} ELSE removed
  /\ disturbed' = IF disturbed[p] = "crash" /\ Vouches(p, c) THEN Disturb(p, "vouched")
                                                             ELSE disturbed
  /\ UNCHANGED <<row, index, runs, upkeep, counters>>

(* First half of on_deleted's handler, `tags remove', `tags reingest' and  *)
(* the DELETE of the API: the chunks.  The API then marks the row in       *)
(* data/kb_metadata.db, which is not the registry: it has no second half.  *)
DropChunks(m, op, p) ==
  /\ mop[m] = "none" /\ op \in Maintenance \cap {"watch", "remove", "reingest", "api_delete"}
  /\ op = "watch" => p \in removed
  /\ op \in {"remove", "reingest"} => row[p].status # "none"
  /\ removed' = IF op = "watch" THEN removed \ {p} ELSE removed
  /\ index' = [index EXCEPT ![p] = NoChunks]
  /\ disturbed' = Disturb(p, "others")
  /\ mop' = IF op = "api_delete" THEN mop ELSE [mop EXCEPT ![m] = op]
  /\ mpath' = IF op = "api_delete" THEN mpath ELSE [mpath EXCEPT ![m] = {p}]
  /\ UNCHANGED <<disk, edits, row, runs, counters>>

(* Second half: the row. *)
MarkDropped(m) ==
  /\ mop[m] \in {"watch", "remove", "reingest"}
  /\ \E p \in mpath[m] :
       row' = WithStatus(p, IF mop[m] = "reingest" THEN "pending" ELSE "deleted")
  /\ mop' = [mop EXCEPT ![m] = "none"]
  /\ UNCHANGED <<files, index, runs, mpath, counters, disturbed>>

(* run_ingest --sync: the listing of the directory, then _sync_deleted.    *)
SyncList(m) ==
  /\ mop[m] = "none" /\ "sync" \in Maintenance
  /\ mop' = [mop EXCEPT ![m] = "sync"]
  /\ mpath' = [mpath EXCEPT ![m] = {p \in Paths : disk[p] = Missing}]
  /\ UNCHANGED <<files, row, index, runs, counters, disturbed>>

SyncDeleted(m) ==
  /\ mop[m] = "sync"
  /\ row' = [p \in Paths |-> IF p \in mpath[m] /\ row[p].status = "ok"
                               THEN [status |-> "deleted", sha |-> row[p].sha]
                               ELSE row[p]]
  /\ mop' = [mop EXCEPT ![m] = "none"]
  /\ UNCHANGED <<files, index, runs, mpath, counters, disturbed>>

(* run_ingest --clean: the collection is dropped, then the registry reset. *)
CleanIndex(m) ==
  /\ mop[m] = "none" /\ "clean" \in Maintenance
  /\ index' = [p \in Paths |-> NoChunks]
  /\ disturbed' = [p \in Paths |-> "others"]
  /\ mop' = [mop EXCEPT ![m] = "clean"]
  /\ UNCHANGED <<files, row, runs, mpath, counters>>

CleanRegistry(m) ==
  /\ mop[m] = "clean"
  /\ row' = [p \in Paths |-> [status |-> "none", sha |-> Missing]]
  /\ mop' = [mop EXCEPT ![m] = "none"]
  /\ UNCHANGED <<files, index, runs, mpath, counters, disturbed>>

(* The maintaining process dies between its two halves. *)
Abandon(m) ==
  /\ mop[m] # "none" /\ crashes < MaxCrashes
  /\ crashes' = crashes + 1
  /\ mop' = [mop EXCEPT ![m] = "none"]
  /\ UNCHANGED <<files, row, index, runs, mpath, forced, failures, disturbed>>

-----------------------------------------------------------------------------

Init ==
  /\ disk = [p \in Paths |-> Missing]
  /\ row = [p \in Paths |-> [status |-> "none", sha |-> Missing]]
  /\ index = [p \in Paths |-> NoChunks]
  /\ ipc = [i \in Ingesters |-> "idle"]
  /\ ipath \in [Ingesters -> Paths]
  /\ itext = [i \in Ingesters |-> Short]
  /\ ibatch = [i \in Ingesters |-> 0]
  /\ mop = [m \in Maintainers |-> "none"]
  /\ mpath = [m \in Maintainers |-> {}]
  /\ removed = {}
  /\ edits = 0 /\ forced = 0 /\ failures = 0 /\ crashes = 0
  /\ disturbed = [p \in Paths |-> "nothing"]

IngestStep(i) ==
  \/ Extract(i) \/ DeleteOld(i) \/ MarkShort(i) \/ Embed(i) \/ Upsert(i)
  \/ Fail(i) \/ MarkOk(i)

FinishMaintenance(m) == MarkDropped(m) \/ SyncDeleted(m) \/ CleanRegistry(m)

Next ==
  \/ \E p \in Paths, c \in Content \cup {Missing} : Edit(p, c)
  \/ \E i \in Ingesters : \/ \E p \in Paths : Check(i, p) \/ CheckForced(i, p)
                          \/ IngestStep(i)
                          \/ Crash(i)
  \/ \E m \in Maintainers : \/ \E p \in Paths, op \in MaintenanceOps : DropChunks(m, op, p)
                            \/ SyncList(m)
                            \/ CleanIndex(m)
                            \/ FinishMaintenance(m)
                            \/ Abandon(m)

Spec == Init /\ [][Next]_vars

(* Every run goes over all the files it has listed, and process_file ends; *)
(* ingestion is run again and again.                                       *)
FairSpec ==
  /\ Spec
  /\ \A i \in Ingesters : WF_vars(IngestStep(i))
  /\ \A p \in Paths : SF_vars(\E i \in Ingesters : Check(i, p))
  /\ \A m \in Maintainers : WF_vars(FinishMaintenance(m))

-----------------------------------------------------------------------------
(* Properties *)

(* A row "ok" vouches for the index: unless something interfered since,    *)
(* the chunks of the file are those of the content whose hash is in the    *)
(* row, all of them and once, whatever failed in earlier attempts.         *)
OkRowDescribesIndex ==
  \A p \in Paths :
    disturbed[p] = "nothing" /\ row[p].status = "ok" /\ Writers(p) = {} =>
      row[p].sha \in Texts /\ index[p] = Full(row[p].sha)

(* A search never sees chunks of two versions of a file, nor a chunk twice, *)
(* not even of a file in error, edited while it was ingested, or left      *)
(* half-written by a run that died.                                        *)
OneVersionPerDocument ==
  \A p \in Paths :
    disturbed[p] # "others" =>
      \E t \in Texts, n \in 0..Batches : index[p] = Part(t, n)

(* p is not served as it is on disk, although no run is at it and nobody   *)
(* withdrew it.                                                            *)
Unserved(p) ==
  /\ disk[p] \in Texts /\ index[p] # Full(disk[p])
  /\ Writers(p) = {} /\ row[p].status \notin {"deleted", "pending"}

(* What failed is taken up again: a file that is not served as it is on    *)
(* disk is noticed by the next run, whatever raised or was interrupted in  *)
(* the previous ones.  A run that died is noticed because the row still    *)
(* speaks of another content; that is not so after a forced run, nor when  *)
(* the file is put back ("vouched"), and those are not covered.            *)
UnservedIsNoticed ==
  \A p \in Paths :
    disturbed[p] \in {"nothing", "crash"} /\ Unserved(p) => NeedsIngest(p)

(* ingest/cli/tags.py:602: reingest "Queue[s] documents for re-ingestion": *)
(* what is queued is ingested, while the file is there.                    *)
QueuedIsReingested ==
  \A p \in Paths : row[p].status = "pending" ~> row[p].status # "pending" \/ disk[p] = Missing
=============================================================================
