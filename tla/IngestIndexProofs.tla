-------------------------- MODULE IngestIndexProofs --------------------------
(***************************************************************************)
(* Proofs about IngestIndex, for any files, contents, ingesters and        *)
(* maintainers, and any number of edits, failures and crashes.             *)
(*                                                                         *)
(* OkRowDescribesIndex says nothing of a file while it is ingested, so it  *)
(* is not inductive.  FileOK adds what the index then holds: exactly the   *)
(* batches its only writer has upserted so far.                            *)
(***************************************************************************)
EXTENDS IngestIndex, TLAPS

(* How many batches of its document ingester i has upserted. *)
Written(i) ==
  IF ipc[i] \in {"short", "embed"} THEN 0 ELSE IF ipc[i] = "upsert" THEN ibatch[i] ELSE Batches

(* Each ingester holds a text it can write, and its batches are in range. *)
IngesterOK(i) ==
  /\ ipc[i] = "delete" => itext[i] \in Texts \cup {Short}
  /\ ipc[i] \in {"embed", "upsert", "mark"} => itext[i] \in Texts
  /\ ipc[i] = "upsert" => ibatch[i] < Batches

(* A file only one actor at a time worked on has at most one writer, and   *)
(* its chunks are what the writer has upserted, or what the row says; a    *)
(* run that died left a row that does not speak of the content on disk.    *)
FileOK(p) ==
  /\ \A i \in Ingesters : Writing(i, p) =>
       /\ \A k \in Ingesters : Writing(k, p) => k = i
       /\ index[p] = Part(itext[i], Written(i))
  /\ disturbed[p] = "nothing" /\ row[p].status = "ok" /\ Writers(p) = {} =>
       row[p].sha \in Texts /\ index[p] = Full(row[p].sha)
  /\ \E t \in Texts, n \in 0..Batches : index[p] = Part(t, n)
  /\ disturbed[p] = "crash" =>
       /\ Writers(p) = {}
       /\ Vouches(p, disk[p]) => row[p].status \in {"deleted", "pending"}

IngestersOK == \A i \in Ingesters : IngesterOK(i)
FilesOK == \A p \in Paths : disturbed[p] # "others" => FileOK(p)

Inv == TypeOK /\ IngestersOK /\ FilesOK

-----------------------------------------------------------------------------
(* What an upsert does to the chunks of one document *)

(* The parts of a document are well-typed; the empty one is no chunks. *)
LEMMA PartType ==
  ASSUME NEW t \in Texts, NEW n \in 0..Batches
  PROVE  /\ Part(t, n) \in [Texts -> [1..Batches -> Nat]]
         /\ NoChunks \in [Texts -> [1..Batches -> Nat]]
         /\ Part(t, 0) = NoChunks
  BY IngestIndexAssumption DEF Part, NoChunks

(* The empty part is that of any document. *)
LEMMA NoChunksIsPart == \A x : Part(x, 0) = NoChunks
  BY DEF Part, NoChunks

(* Upserting the next batch of t to its first n batches gives n + 1. *)
LEMMA PartNext ==
  ASSUME NEW t \in Texts, NEW n \in 0..(Batches - 1)
  PROVE  [Part(t, n) EXCEPT ![t][n + 1] = @ + 1] = Part(t, n + 1)
  <1>. DEFINE lhs == [Part(t, n) EXCEPT ![t][n + 1] = @ + 1]
  <1>1. \A u \in Texts \ {t} : lhs[u] = Part(t, n + 1)[u]
    BY DEF Part
  <1>2. lhs[t] = [Part(t, n)[t] EXCEPT ![n + 1] = @ + 1]
    BY DEF Part
  <1>3. \A b \in 1..Batches : lhs[t][b] = Part(t, n + 1)[t][b]
    BY <1>2, IngestIndexAssumption DEF Part
  <1>4. lhs[t] = Part(t, n + 1)[t]
    BY <1>2, <1>3 DEF Part
  <1>5. lhs = [u \in Texts |-> lhs[u]]
    BY DEF Part
  <1>. QED
    BY <1>1, <1>4, <1>5 DEF Part

-----------------------------------------------------------------------------
(* Steps that leave the chunks and the ingesters alone *)

(* Rows may change to any status that asks for no comparison.              *)
LEMMA RowOnly ==
  ASSUME Inv, TypeOK',
         UNCHANGED <<disk, index, runs, disturbed>>,
         \A p \in Paths : row'[p] = row[p] \/ row'[p].status \in {"none", "deleted", "pending"}
  PROVE  Inv'
  <1>. USE DEF Inv, runs
  <1>1. \A i \in Ingesters, p \in Paths : Writing(i, p)' <=> Writing(i, p)
    BY DEF Writing
  <1>2. IngestersOK'
    BY DEF IngestersOK, IngesterOK
  <1>3. ASSUME NEW p \in Paths, disturbed'[p] # "others"
        PROVE  FileOK(p)'
    <2>1. FileOK(p)
      BY <1>3 DEF FilesOK
    <2>2. Writers(p)' = Writers(p)
      BY <1>1 DEF Writers
    <2>3. disturbed'[p] = "crash" =>
            (Vouches(p, disk[p])' => row'[p].status \in {"deleted", "pending"})
      BY <2>1 DEF FileOK, Vouches
    <2>4. \A i \in Ingesters : Written(i)' = Written(i)
      BY DEF Written
    <2>. QED
      BY <1>1, <2>1, <2>2, <2>3, <2>4 DEF FileOK
  <1>. QED
    BY <1>2, <1>3 DEF FilesOK

(* The content of a file may change, unless after a crash it becomes one   *)
(* its row speaks of.                                                      *)
LEMMA DiskOnly ==
  ASSUME Inv, TypeOK',
         UNCHANGED <<row, index, runs>>,
         \A p \in Paths :
           \/ disturbed'[p] = "vouched" /\ disturbed[p] # "others"
           \/ disturbed'[p] = disturbed[p] /\ disk'[p] = disk[p]
           \/ disturbed'[p] = disturbed[p] /\ (disturbed[p] = "crash" => ~Vouches(p, disk'[p]))
  PROVE  Inv'
  <1>. USE DEF Inv, runs
  <1>1. \A i \in Ingesters, p \in Paths : Writing(i, p)' <=> Writing(i, p)
    BY DEF Writing
  <1>2. IngestersOK'
    BY DEF IngestersOK, IngesterOK
  <1>3. ASSUME NEW p \in Paths, disturbed'[p] # "others"
        PROVE  FileOK(p)'
    <2>1. FileOK(p)
      BY <1>3 DEF FilesOK
    <2>2. Writers(p)' = Writers(p)
      BY <1>1 DEF Writers
    <2>3. disturbed'[p] = "crash" =>
            (Vouches(p, disk[p])' => row'[p].status \in {"deleted", "pending"})
      BY <2>1 DEF FileOK, Vouches
    <2>4. \A i \in Ingesters : Written(i)' = Written(i)
      BY DEF Written
    <2>. QED
      BY <1>1, <2>1, <2>2, <2>3, <2>4 DEF FileOK
  <1>. QED
    BY <1>2, <1>3 DEF FilesOK

(* Dropping the chunks of some files puts those files aside. *)
LEMMA Dropped ==
  ASSUME Inv, TypeOK', NEW S \in SUBSET Paths,
         UNCHANGED <<disk, row, runs>>,
         \A p \in S : disturbed'[p] = "others",
         \A p \in Paths \ S : index'[p] = index[p] /\ disturbed'[p] = disturbed[p]
  PROVE  Inv'
  <1>. USE DEF Inv, runs
  <1>1. \A i \in Ingesters, p \in Paths : Writing(i, p)' <=> Writing(i, p)
    BY DEF Writing
  <1>2. IngestersOK'
    BY DEF IngestersOK, IngesterOK
  <1>3. FilesOK'
    BY <1>1 DEF FilesOK, FileOK, Writers, Written, Vouches
  <1>. QED
    BY <1>2, <1>3

-----------------------------------------------------------------------------
(* Types *)

(* The initial state is well-typed. *)
LEMMA InitType == Init => TypeOK
  BY PartType, IngestIndexAssumption
  DEF Init, TypeOK, Reasons, NoChunks, Content, MaintenanceOps, Status

(* A text, or a file of short chunks, is a content. *)
LEMMA TextsAreContent == Texts \subseteq Content /\ Short \in Content
  BY DEF Content

Rows == [status : Status, sha : Content \cup {Missing}]

(* The rows an ingester writes are rows. *)
LEMMA RowType ==
  ASSUME TypeOK, NEW p \in Paths
  PROVE  OkRow(p) \in Rows /\ ErrorRow(p) \in Rows
  BY DEF TypeOK, OkRow, ErrorRow, Status, Rows

(* So are those a maintainer relabels. *)
LEMMA RelabelType ==
  ASSUME TypeOK, NEW p \in Paths, NEW s \in Status
  PROVE  WithStatus(p, s) \in [Paths -> Rows]
  <1>1. row \in [Paths -> Rows]
    BY DEF TypeOK, Rows
  <1>2. row[p].sha \in Content \cup {Missing}
    BY <1>1 DEF Rows
  <1>3. [status |-> s, sha |-> row[p].sha] \in Rows
    BY <1>2 DEF Rows
  <1>. QED
    BY <1>1, <1>3 DEF WithStatus

(* Adding a batch keeps the index well-typed. *)
LEMMA AddType ==
  ASSUME TypeOK, NEW p \in Paths, NEW t \in Texts, NEW b \in 1..Batches
  PROVE  [index EXCEPT ![p][t][b] = @ + 1] \in [Paths -> [Texts -> [1..Batches -> Nat]]]
  <1>1. index[p] \in [Texts -> [1..Batches -> Nat]]
    BY DEF TypeOK
  <1>2. [index[p][t] EXCEPT ![b] = @ + 1] \in [1..Batches -> Nat]
    <2>1. index[p][t] \in [1..Batches -> Nat]
      BY <1>1
    <2>2. \A f \in [1..Batches -> Nat] : f[b] + 1 \in Nat
      OBVIOUS
    <2>. QED
      BY <2>1, <2>2
  <1>3. [index[p] EXCEPT ![t][b] = @ + 1] \in [Texts -> [1..Batches -> Nat]]
    <2>1. [index[p] EXCEPT ![t][b] = @ + 1]
            = [index[p] EXCEPT ![t] = [index[p][t] EXCEPT ![b] = @ + 1]]
      OBVIOUS
    <2>. QED
      BY <1>1, <1>2, <2>1
  <1>. QED
    BY <1>3 DEF TypeOK

(* The index may be emptied. *)
LEMMA EmptyType == NoChunks \in [Texts -> [1..Batches -> Nat]]
  BY DEF NoChunks

(* What interfered with a file is one of the reasons. *)
LEMMA DisturbType ==
  ASSUME TypeOK, NEW p \in Paths, NEW reason \in Reasons
  PROVE  Disturb(p, reason) \in [Paths -> Reasons]
  BY DEF TypeOK, Disturb, Reasons

(* The end of process_file in error keeps the types. *)
LEMMA EndInErrorType ==
  ASSUME TypeOK, NEW i \in Ingesters, EndInError(i)
  PROVE  /\ row' \in [Paths -> Rows]
         /\ ipc' \in [Ingesters -> {"idle", "extract", "delete", "short", "embed", "upsert", "mark"}]
         /\ UNCHANGED <<ipath, itext, ibatch>>
  <1>1. ipath[i] \in Paths /\ row \in [Paths -> Rows]
    BY DEF TypeOK, Rows
  <1>2. ErrorRow(ipath[i]) \in Rows
    BY <1>1, RowType
  <1>. QED
    BY <1>1, <1>2 DEF EndInError, TypeOK

(* A step of an ingester keeps the types. *)
LEMMA IngesterType ==
  ASSUME TypeOK, IngestersOK, NEW i \in Ingesters,
         (\E p \in Paths : Check(i, p) \/ CheckForced(i, p)) \/ IngestStep(i) \/ Crash(i)
  PROVE  TypeOK'
  <1>. USE DEF files, upkeep, counters
  <1>1. CASE \E p \in Paths : Check(i, p) \/ CheckForced(i, p)
    <2>1. PICK p \in Paths : Check(i, p) \/ CheckForced(i, p)
      BY <1>1
    <2>2. CASE Check(i, p)
      BY <2>2 DEF TypeOK, Check
    <2>3. CASE CheckForced(i, p)
      BY <2>3 DEF TypeOK, CheckForced
    <2>. QED
      BY <2>1, <2>2, <2>3
  <1>2. CASE Extract(i)
    <2>1. CASE disk[ipath[i]] \in Texts \cup {Short}
      <3>1. disk[ipath[i]] \in Content
        BY <2>1, TextsAreContent
      <3>2. /\ itext' = [itext EXCEPT ![i] = disk[ipath[i]]]
            /\ ipc' = [ipc EXCEPT ![i] = "delete"]
            /\ UNCHANGED <<files, row, index, ipath, ibatch, upkeep, counters, disturbed>>
        BY <1>2, <2>1 DEF Extract
      <3>. QED
        BY <3>1, <3>2 DEF TypeOK
    <2>2. CASE disk[ipath[i]] \notin Texts \cup {Short}
      BY <1>2, <2>2, EndInErrorType DEF TypeOK, Extract, Rows
    <2>. QED
      BY <2>1, <2>2
  <1>3. CASE DeleteOld(i)
    <2>1. ipath[i] \in Paths
      BY DEF TypeOK
    <2>2. index' \in [Paths -> [Texts -> [1..Batches -> Nat]]]
      BY <1>3, EmptyType DEF TypeOK, DeleteOld
    <2>3. disturbed' \in [Paths -> Reasons]
      BY <1>3, <2>1, DisturbType DEF TypeOK, DeleteOld, Reasons
    <2>4. ipc' \in [Ingesters -> {"idle", "extract", "delete", "short", "embed", "upsert", "mark"}]
      BY <1>3 DEF TypeOK, DeleteOld
    <2>. QED
      BY <1>3, <2>2, <2>3, <2>4 DEF TypeOK, DeleteOld
  <1>4. CASE Embed(i)
    <2>1. 0 \in 0..Batches
      BY IngestIndexAssumption
    <2>2. ibatch' \in [Ingesters -> 0..Batches]
      BY <1>4, <2>1 DEF TypeOK, Embed
    <2>. QED
      BY <1>4, <2>2 DEF TypeOK, Embed
  <1>5. CASE Upsert(i)
    <2>0. ipc[i] = "upsert" /\ ipath[i] \in Paths /\ ibatch[i] \in 0..Batches
      BY <1>5 DEF TypeOK, Upsert
    <2>1. itext[i] \in Texts /\ ibatch[i] + 1 \in 1..Batches
      BY <2>0, IngestIndexAssumption DEF IngestersOK, IngesterOK
    <2>2. index' \in [Paths -> [Texts -> [1..Batches -> Nat]]]
      BY <1>5, <2>0, <2>1, AddType DEF Upsert
    <2>3. ipc' \in [Ingesters -> {"idle", "extract", "delete", "short", "embed", "upsert", "mark"}]
      BY <1>5 DEF TypeOK, Upsert
    <2>4. ibatch' \in [Ingesters -> 0..Batches]
      <3>1. ibatch[i] + 1 \in 0..Batches
        BY <2>1, IngestIndexAssumption
      <3>2. ibatch' = [ibatch EXCEPT ![i] = ibatch[i] + 1]
        BY <1>5 DEF Upsert
      <3>. QED
        BY <3>1, <3>2 DEF TypeOK
    <2>. QED
      BY <1>5, <2>2, <2>3, <2>4 DEF TypeOK, Upsert
  <1>6. CASE Fail(i)
    BY <1>6, EndInErrorType DEF TypeOK, Fail, Rows
  <1>7. CASE MarkOk(i)
    <2>1. ipath[i] \in Paths
      BY DEF TypeOK
    <2>2. CASE disk[ipath[i]] = Missing
      BY <1>7, <2>2, EndInErrorType DEF TypeOK, MarkOk, Rows
    <2>3. CASE disk[ipath[i]] # Missing
      <3>1. OkRow(ipath[i]) \in Rows
        BY <2>1, RowType
      <3>2. /\ row' = [row EXCEPT ![ipath[i]] = OkRow(ipath[i])]
            /\ ipc' = [ipc EXCEPT ![i] = "idle"]
            /\ disturbed' \in {disturbed, Disturb(ipath[i], "edit")}
            /\ UNCHANGED <<files, index, ipath, itext, ibatch, upkeep, counters>>
        BY <1>7, <2>3 DEF MarkOk
      <3>3. disturbed' \in [Paths -> Reasons]
        BY <2>1, <3>2, DisturbType DEF TypeOK, Reasons
      <3>. QED
        BY <2>1, <3>1, <3>2, <3>3 DEF TypeOK, Rows
    <2>. QED
      BY <2>2, <2>3
  <1>8. CASE Crash(i)
    <2>1. ipath[i] \in Paths
      BY DEF TypeOK
    <2>2. disturbed' \in [Paths -> Reasons]
      BY <1>8, <2>1, DisturbType DEF TypeOK, Crash, Reasons
    <2>. QED
      BY <1>8, <2>2 DEF TypeOK, Crash
  <1>9. CASE MarkShort(i)
    BY <1>9, EndInErrorType DEF TypeOK, MarkShort, Rows
  <1>. QED
    BY <1>1, <1>2, <1>3, <1>4, <1>5, <1>6, <1>7, <1>8, <1>9 DEF IngestStep

(* So does a step of a user or a maintainer. *)
LEMMA UpkeepType ==
  ASSUME TypeOK,
         \/ \E p \in Paths, c \in Content \cup {Missing} : Edit(p, c)
         \/ \E m \in Maintainers : \/ \E p \in Paths, op \in MaintenanceOps : DropChunks(m, op, p)
                                   \/ SyncList(m) \/ CleanIndex(m)
                                   \/ FinishMaintenance(m) \/ Abandon(m)
  PROVE  TypeOK'
  <1>. USE DEF files, runs, counters
  <1>1. ASSUME NEW p \in Paths, NEW c \in Content \cup {Missing}, Edit(p, c)
        PROVE  TypeOK'
    <2>1. disturbed' \in [Paths -> Reasons]
      BY <1>1, DisturbType DEF TypeOK, Edit, Reasons
    <2>. QED
      BY <1>1, <2>1 DEF TypeOK, Edit, upkeep
  <1>2. ASSUME NEW m \in Maintainers, NEW p \in Paths, NEW op \in MaintenanceOps,
               DropChunks(m, op, p)
        PROVE  TypeOK'
    <2>1. index' \in [Paths -> [Texts -> [1..Batches -> Nat]]]
      BY <1>2, EmptyType DEF TypeOK, DropChunks
    <2>2. mop' \in [Maintainers -> MaintenanceOps \cup {"none"}]
      BY <1>2 DEF TypeOK, DropChunks
    <2>3. mpath' \in [Maintainers -> SUBSET Paths]
      BY <1>2 DEF TypeOK, DropChunks
    <2>4. disturbed' \in [Paths -> Reasons]
      BY <1>2, DisturbType DEF TypeOK, DropChunks, Reasons
    <2>. QED
      BY <1>2, <2>1, <2>2, <2>3, <2>4 DEF TypeOK, DropChunks
  <1>3. ASSUME NEW m \in Maintainers, SyncList(m)
        PROVE  TypeOK'
    <2>1. mpath' \in [Maintainers -> SUBSET Paths]
      BY <1>3 DEF TypeOK, SyncList
    <2>2. mop' \in [Maintainers -> MaintenanceOps \cup {"none"}]
      BY <1>3 DEF TypeOK, SyncList, MaintenanceOps
    <2>. QED
      BY <1>3, <2>1, <2>2 DEF TypeOK, SyncList
  <1>4. ASSUME NEW m \in Maintainers, CleanIndex(m)
        PROVE  TypeOK'
    <2>1. mop' \in [Maintainers -> MaintenanceOps \cup {"none"}]
      BY <1>4 DEF TypeOK, CleanIndex, MaintenanceOps
    <2>. QED
      BY <1>4, <2>1, EmptyType DEF TypeOK, CleanIndex, Reasons
  <1>5. ASSUME NEW m \in Maintainers, FinishMaintenance(m)
        PROVE  TypeOK'
    <2>1. row' \in [Paths -> Rows]
      <3>1. CASE MarkDropped(m)
        <4>1. PICK p \in Paths, s \in Status : row' = WithStatus(p, s)
          BY <3>1 DEF TypeOK, MarkDropped, Status
        <4>. QED
          BY <4>1, RelabelType
      <3>2. CASE SyncDeleted(m)
        <4>1. \A p \in Paths : row[p] \in Rows /\ [status |-> "deleted", sha |-> row[p].sha] \in Rows
          BY DEF TypeOK, Rows, Status
        <4>. QED
          BY <3>2, <4>1 DEF SyncDeleted
      <3>3. CASE CleanRegistry(m)
        BY <3>3 DEF CleanRegistry, Rows, Status
      <3>. QED
        BY <1>5, <3>1, <3>2, <3>3 DEF FinishMaintenance
    <2>2. mop' = [mop EXCEPT ![m] = "none"] /\ UNCHANGED <<files, index, runs, mpath, counters, disturbed>>
      BY <1>5 DEF FinishMaintenance, MarkDropped, SyncDeleted, CleanRegistry
    <2>. QED
      BY <2>1, <2>2 DEF TypeOK, Rows
  <1>6. ASSUME NEW m \in Maintainers, Abandon(m)
        PROVE  TypeOK'
    BY <1>6 DEF TypeOK, Abandon
  <1>. QED
    BY <1>1, <1>2, <1>3, <1>4, <1>5, <1>6

(* Typing is preserved by every step, given what the ingesters hold. *)
LEMMA NextType == TypeOK /\ IngestersOK /\ [Next]_vars => TypeOK'
  <1>1. SUFFICES ASSUME TypeOK, IngestersOK, [Next]_vars
                 PROVE  TypeOK'
    OBVIOUS
  <1>2. CASE UNCHANGED vars
    BY <1>1, <1>2 DEF TypeOK, vars
  <1>3. ASSUME NEW i \in Ingesters,
               (\E p \in Paths : Check(i, p) \/ CheckForced(i, p)) \/ IngestStep(i) \/ Crash(i)
        PROVE  TypeOK'
    BY <1>1, <1>3, IngesterType
  <1>. QED
    BY <1>1, <1>2, <1>3, UpkeepType DEF Next

-----------------------------------------------------------------------------
(* The steps of an ingester *)

(* A step of ingester i about file p is a matter of i and p alone. *)
LEMMA Local ==
  ASSUME Inv, TypeOK', NEW i \in Ingesters, NEW p \in Paths,
         \A k \in Ingesters \ {i} :
           /\ ipc'[k] = ipc[k] /\ ipath'[k] = ipath[k]
           /\ itext'[k] = itext[k] /\ ibatch'[k] = ibatch[k],
         \A q \in Paths \ {p} :
           /\ row'[q] = row[q] /\ index'[q] = index[q] /\ disk'[q] = disk[q]
           /\ disturbed'[q] = disturbed[q]
           /\ ~Writing(i, q) /\ ~Writing(i, q)',
         IngesterOK(i)',
         disturbed'[p] # "others" => FileOK(p)'
  PROVE  Inv'
  <1>1. IngestersOK'
    BY DEF Inv, IngestersOK, IngesterOK
  <1>2. ASSUME NEW q \in Paths \ {p}, disturbed'[q] # "others"
        PROVE  FileOK(q)'
    <2>1. FileOK(q)
      BY <1>2 DEF Inv, FilesOK
    <2>2. \A k \in Ingesters : Writing(k, q)' <=> Writing(k, q)
      BY DEF Writing
    <2>3. Writers(q)' = Writers(q)
      BY <2>2 DEF Writers
    <2>4. \A k \in Ingesters : Writing(k, q) => k # i /\ Written(k)' = Written(k)
      BY DEF Written
    <2>5. \A k \in Ingesters : Writing(k, q) => (itext[k])' = itext[k]
      BY <2>4
    <2>6. Vouches(q, disk[q])' <=> Vouches(q, disk[q])
      BY DEF Vouches
    <2>. QED
      BY <2>1, <2>2, <2>3, <2>4, <2>5, <2>6 DEF FileOK
  <1>. QED
    BY <1>1, <1>2 DEF Inv, FilesOK

(* While it writes no file, i matters to none. *)
LEMMA Quiet ==
  ASSUME Inv, TypeOK', NEW i \in Ingesters,
         \A k \in Ingesters \ {i} :
           /\ ipc'[k] = ipc[k] /\ ipath'[k] = ipath[k]
           /\ itext'[k] = itext[k] /\ ibatch'[k] = ibatch[k],
         UNCHANGED <<disk, row, index, disturbed>>,
         \A q \in Paths : ~Writing(i, q) /\ ~Writing(i, q)',
         IngesterOK(i)'
  PROVE  Inv'
  <1>1. ipath[i] \in Paths
    BY DEF Inv, TypeOK
  <1>2. ASSUME NEW q \in Paths, disturbed[q] # "others"
        PROVE  FileOK(q)'
    <2>1. FileOK(q)
      BY <1>2 DEF Inv, FilesOK
    <2>2. \A k \in Ingesters : Writing(k, q)' <=> Writing(k, q)
      BY DEF Writing
    <2>3. \A k \in Ingesters : Writing(k, q) => Written(k)' = Written(k) /\ itext'[k] = itext[k]
      BY DEF Written
    <2>. QED
      BY <2>1, <2>2, <2>3 DEF FileOK, Writers, Vouches
  <1>. QED
    BY <1>1, <1>2, Local

(* process_file may end in error at any point. *)
LEMMA ErrorInv ==
  ASSUME Inv, TypeOK', NEW i \in Ingesters, EndInError(i),
         UNCHANGED <<disk, index, disturbed>>
  PROVE  Inv'
  <1>0. PICK p \in Paths : p = ipath[i]
    BY DEF Inv, TypeOK
  <1>1. /\ ipc \in [Ingesters -> {"idle", "extract", "delete", "short", "embed", "upsert", "mark"}]
        /\ row \in [Paths -> Rows]
    BY DEF Inv, TypeOK, Rows
  <1>2. ipc'[i] = "idle" /\ row'[p] = ErrorRow(p) /\ ipath' = ipath
    BY <1>0, <1>1 DEF EndInError
  <1>3. \A q \in Paths : ~Writing(i, q)'
    BY <1>2 DEF Writing
  <1>4. ASSUME disturbed[p] # "others"
        PROVE  FileOK(p)'
    <2>1. FileOK(p)
      BY <1>1, <1>4 DEF Inv, FilesOK
    <2>2. \A k \in Ingesters : Writing(k, p)' => Writing(k, p) /\ k # i
      BY <1>3 DEF Writing, EndInError
    <2>3. \A k \in Ingesters \ {i} : Written(k)' = Written(k) /\ itext'[k] = itext[k]
      BY DEF EndInError, Written
    <2>4. row'[p].status = "error" /\ ~Vouches(p, disk[p])'
      BY <1>2 DEF ErrorRow, Vouches
    <2>. QED
      BY <2>1, <2>2, <2>3, <2>4 DEF FileOK, Writers
  <1>5. IngesterOK(i)'
    BY <1>2 DEF IngesterOK
  <1>6. \A q \in Paths \ {p} : row'[q] = row[q] /\ ~Writing(i, q)
    BY <1>0, <1>1 DEF EndInError, Writing
  <1>7. \A k \in Ingesters \ {i} :
          /\ ipc'[k] = ipc[k] /\ ipath'[k] = ipath[k]
          /\ itext'[k] = itext[k] /\ ibatch'[k] = ibatch[k]
    BY DEF EndInError
  <1>. QED
    BY <1>0, <1>3, <1>4, <1>5, <1>6, <1>7, Local

(* Choosing a file to ingest disturbs nothing. *)
LEMMA CheckInv ==
  ASSUME Inv, TypeOK', NEW i \in Ingesters, NEW p \in Paths, Check(i, p) \/ CheckForced(i, p)
  PROVE  Inv'
  <1>1. /\ ipc \in [Ingesters -> {"idle", "extract", "delete", "short", "embed", "upsert", "mark"}]
        /\ ipath \in [Ingesters -> Paths]
    BY DEF Inv, TypeOK
  <1>2. /\ ipc[i] = "idle" /\ ipc' = [ipc EXCEPT ![i] = "extract"]
        /\ ipath' = [ipath EXCEPT ![i] = p]
        /\ UNCHANGED <<disk, row, index, itext, ibatch, disturbed>>
    BY DEF Check, CheckForced, files
  <1>3. ipc'[i] = "extract"
    BY <1>1, <1>2
  <1>4. IngesterOK(i)' /\ \A q \in Paths : ~Writing(i, q) /\ ~Writing(i, q)'
    BY <1>2, <1>3 DEF IngesterOK, Writing
  <1>5. \A k \in Ingesters \ {i} :
          /\ ipc'[k] = ipc[k] /\ ipath'[k] = ipath[k]
          /\ itext'[k] = itext[k] /\ ibatch'[k] = ibatch[k]
    BY <1>1, <1>2
  <1>. QED
    BY <1>2, <1>4, <1>5, Quiet

(* Neither does extracting it, nor failing to. *)
LEMMA ExtractInv ==
  ASSUME Inv, TypeOK', NEW i \in Ingesters, Extract(i)
  PROVE  Inv'
  <1>1. CASE disk[ipath[i]] \notin Texts \cup {Short}
    BY <1>1, ErrorInv DEF Extract, files
  <1>2. CASE disk[ipath[i]] \in Texts \cup {Short}
    <2>1. /\ ipc \in [Ingesters -> {"idle", "extract", "delete", "short", "embed", "upsert", "mark"}]
          /\ itext \in [Ingesters -> Content]
      BY DEF Inv, TypeOK
    <2>2. /\ ipc[i] = "extract" /\ ipc' = [ipc EXCEPT ![i] = "delete"]
          /\ itext' = [itext EXCEPT ![i] = disk[ipath[i]]]
          /\ UNCHANGED <<disk, row, index, ipath, ibatch, disturbed>>
      BY <1>2 DEF Extract, files
    <2>3. ipc'[i] = "delete" /\ itext'[i] \in Texts \cup {Short}
      BY <1>2, <2>1, <2>2
    <2>4. IngesterOK(i)' /\ \A q \in Paths : ~Writing(i, q) /\ ~Writing(i, q)'
      BY <2>2, <2>3 DEF IngesterOK, Writing
    <2>5. \A k \in Ingesters \ {i} :
            /\ ipc'[k] = ipc[k] /\ ipath'[k] = ipath[k]
            /\ itext'[k] = itext[k] /\ ibatch'[k] = ibatch[k]
      BY <2>1, <2>2
    <2>. QED
      BY <2>2, <2>4, <2>5, Quiet
  <1>. QED
    BY <1>1, <1>2

(* The chunks of the old version go; the new one has none yet. *)
LEMMA DeleteOldInv ==
  ASSUME Inv, TypeOK', NEW i \in Ingesters, DeleteOld(i)
  PROVE  Inv'
  <1>1. PICK p \in Paths : p = ipath[i]
    BY DEF Inv, TypeOK
  <1>2. /\ ipc \in [Ingesters -> {"idle", "extract", "delete", "short", "embed", "upsert", "mark"}]
        /\ row \in [Paths -> Rows] /\ index \in [Paths -> [Texts -> [1..Batches -> Nat]]]
    BY DEF Inv, TypeOK, Rows
  <1>3. /\ ipc[i] = "delete" /\ index' = [index EXCEPT ![p] = NoChunks]
        /\ ipc' = [ipc EXCEPT ![i] = IF itext[i] = Short THEN "short" ELSE "embed"]
        /\ disturbed' = IF Writers(p) = {} THEN [disturbed EXCEPT ![p] = "nothing"]
                                           ELSE Disturb(p, "others")
        /\ UNCHANGED <<disk, row, ipath, itext, ibatch>>
    BY <1>1 DEF DeleteOld, files
  <1>4. disturbed \in [Paths -> Reasons]
    BY DEF Inv, TypeOK
  <1>5. itext[i] \in Texts \cup {Short}
    BY <1>3 DEF Inv, IngestersOK, IngesterOK
  <1>6. /\ ipc'[i] = IF itext[i] = Short THEN "short" ELSE "embed"
        /\ IngesterOK(i)'
    BY <1>2, <1>3, <1>5, IngestIndexAssumption DEF IngesterOK
  <1>7. \A k \in Ingesters \ {i} :
          /\ ipc'[k] = ipc[k] /\ ipath'[k] = ipath[k]
          /\ itext'[k] = itext[k] /\ ibatch'[k] = ibatch[k]
    BY <1>2, <1>3
  <1>8. \A q \in Paths \ {p} :
          /\ row'[q] = row[q] /\ index'[q] = index[q] /\ disk'[q] = disk[q]
          /\ disturbed'[q] = disturbed[q]
          /\ ~Writing(i, q) /\ ~Writing(i, q)'
    BY <1>1, <1>2, <1>3, <1>4 DEF Writing, Disturb
  <1>9. ASSUME disturbed'[p] # "others"
        PROVE  FileOK(p)'
    <2>1. Writers(p) = {} /\ disturbed'[p] = "nothing"
      BY <1>3, <1>4, <1>9 DEF Disturb
    <2>2. \A k \in Ingesters : Writing(k, p)' => k = i
      BY <1>7, <2>1 DEF Writing, Writers
    <2>3. index'[p] = NoChunks
      BY <1>2, <1>3
    <2>4. \E t \in Texts, n \in 0..Batches : index'[p] = Part(t, n)
      BY <2>3, NoChunksIsPart, IngestIndexAssumption
    <2>5. i \in Writers(p)' /\ Written(i)' = 0
      BY <1>1, <1>3, <1>6 DEF Writing, Writers, Written
    <2>6. index'[p] = Part(itext'[i], 0)
      BY <2>3, NoChunksIsPart
    <2>. QED
      BY <2>1, <2>2, <2>4, <2>5, <2>6 DEF FileOK
  <1>. QED
    BY <1>6, <1>7, <1>8, <1>9, Local

(* A file none of whose chunks is long enough ends in error. *)
LEMMA MarkShortInv ==
  ASSUME Inv, TypeOK', NEW i \in Ingesters, MarkShort(i)
  PROVE  Inv'
  BY ErrorInv DEF MarkShort, files

(* The embedding leaves the index empty for the file. *)
LEMMA EmbedInv ==
  ASSUME Inv, TypeOK', NEW i \in Ingesters, Embed(i)
  PROVE  Inv'
  <1>1. PICK p \in Paths : p = ipath[i]
    BY DEF Inv, TypeOK
  <1>2. /\ ipc \in [Ingesters -> {"idle", "extract", "delete", "short", "embed", "upsert", "mark"}]
        /\ ibatch \in [Ingesters -> 0..Batches]
    BY DEF Inv, TypeOK
  <1>3. /\ ipc[i] = "embed" /\ ipc' = [ipc EXCEPT ![i] = "upsert"]
        /\ ibatch' = [ibatch EXCEPT ![i] = 0]
        /\ UNCHANGED <<disk, row, index, ipath, itext, disturbed>>
    BY DEF Embed, files
  <1>4. ipc'[i] = "upsert" /\ ibatch'[i] = 0
    BY <1>2, <1>3
  <1>5. IngesterOK(i)'
    BY <1>3, <1>4, IngestIndexAssumption DEF Inv, IngestersOK, IngesterOK
  <1>6. \A k \in Ingesters \ {i} :
          /\ ipc'[k] = ipc[k] /\ ipath'[k] = ipath[k]
          /\ itext'[k] = itext[k] /\ ibatch'[k] = ibatch[k]
    BY <1>2, <1>3
  <1>7. \A q \in Paths \ {p} : ~Writing(i, q) /\ ~Writing(i, q)'
    BY <1>1, <1>3 DEF Writing
  <1>8. \A k \in Ingesters : Writing(k, p)' <=> Writing(k, p)
    BY <1>3, <1>4, <1>6 DEF Writing
  <1>9. \A k \in Ingesters : Writing(k, p) => Written(k)' = Written(k)
    BY <1>3, <1>4, <1>6 DEF Written
  <1>10. disturbed'[p] # "others" => FileOK(p)'
    BY <1>3, <1>8, <1>9 DEF Inv, FilesOK, FileOK, Writers, Vouches
  <1>. QED
    BY <1>3, <1>5, <1>6, <1>7, <1>10, Local

(* The chunks of the file grow by the batch the ingester counts. *)
LEMMA UpsertInv ==
  ASSUME Inv, TypeOK', NEW i \in Ingesters, Upsert(i)
  PROVE  Inv'
  <1>1. PICK p \in Paths : p = ipath[i]
    BY DEF Inv, TypeOK
  <1>2. PICK t \in Texts : t = itext[i]
    BY DEF Upsert, Inv, IngestersOK, IngesterOK
  <1>3. PICK n \in 0..(Batches - 1) : n = ibatch[i]
    BY IngestIndexAssumption DEF Upsert, Inv, TypeOK, IngestersOK, IngesterOK
  <1>4. /\ ipc \in [Ingesters -> {"idle", "extract", "delete", "short", "embed", "upsert", "mark"}]
        /\ ibatch \in [Ingesters -> 0..Batches]
        /\ index \in [Paths -> [Texts -> [1..Batches -> Nat]]]
    BY DEF Inv, TypeOK
  <1>5. /\ ipc[i] = "upsert"
        /\ ipc' = [ipc EXCEPT ![i] = IF n + 1 = Batches THEN "mark" ELSE "upsert"]
        /\ ibatch' = [ibatch EXCEPT ![i] = n + 1]
        /\ index' = [index EXCEPT ![p][t][n + 1] = @ + 1]
        /\ UNCHANGED <<disk, row, ipath, itext, disturbed>>
    BY <1>1, <1>2, <1>3 DEF Upsert, files
  <1>6. ipc'[i] = (IF n + 1 = Batches THEN "mark" ELSE "upsert") /\ ibatch'[i] = n + 1
    BY <1>4, <1>5
  <1>7. IngesterOK(i)'
    BY <1>2, <1>5, <1>6, IngestIndexAssumption DEF IngesterOK
  <1>8. \A k \in Ingesters \ {i} :
          /\ ipc'[k] = ipc[k] /\ ipath'[k] = ipath[k]
          /\ itext'[k] = itext[k] /\ ibatch'[k] = ibatch[k]
    BY <1>4, <1>5
  <1>9. \A q \in Paths \ {p} : index'[q] = index[q] /\ ~Writing(i, q) /\ ~Writing(i, q)'
    BY <1>1, <1>4, <1>5 DEF Writing
  <1>10. ASSUME disturbed[p] # "others"
         PROVE  FileOK(p)'
    <2>1. Writing(i, p) /\ Writing(i, p)'
      BY <1>1, <1>5, <1>6 DEF Writing
    <2>2. \A k \in Ingesters : Writing(k, p) => k = i
      BY <1>10, <2>1 DEF Inv, FilesOK, FileOK
    <2>3. \A k \in Ingesters : Writing(k, p)' => k = i
      BY <1>8, <2>2 DEF Writing
    <2>4. index[p] = Part(t, n)
      BY <1>2, <1>3, <1>5, <1>10, <2>1 DEF Inv, FilesOK, FileOK, Written
    <2>5. index'[p] = [index[p] EXCEPT ![t][n + 1] = @ + 1]
      BY <1>4, <1>5
    <2>6. index'[p] = Part(t, n + 1)
      BY <2>4, <2>5, PartNext
    <2>7. Written(i)' = n + 1
      BY <1>6, IngestIndexAssumption DEF Written
    <2>8. i \in Writers(p)'
      BY <2>1 DEF Writers
    <2>9. n + 1 \in 0..Batches
      BY IngestIndexAssumption
    <2>10. itext'[i] = t
      BY <1>2, <1>5
    <2>11. disturbed'[p] # "crash"
      BY <1>5, <1>10, <2>1 DEF Inv, FilesOK, FileOK, Writers
    <2>. QED
      BY <2>3, <2>6, <2>7, <2>8, <2>9, <2>10, <2>11 DEF FileOK
  <1>. QED
    BY <1>5, <1>7, <1>8, <1>9, <1>10, Local

(* An exception leaves a part of the new version, and the row in error. *)
LEMMA FailInv ==
  ASSUME Inv, TypeOK', NEW i \in Ingesters, Fail(i)
  PROVE  Inv'
  BY ErrorInv DEF Fail, files

(* The row gets the digest of what is on disk, which is what was written   *)
(* unless the file was edited meanwhile.                                   *)
LEMMA MarkOkInv ==
  ASSUME Inv, TypeOK', NEW i \in Ingesters, MarkOk(i)
  PROVE  Inv'
  <1>1. CASE disk[ipath[i]] = Missing
    BY <1>1, ErrorInv DEF MarkOk, files
  <1>2. CASE disk[ipath[i]] # Missing
    <2>1. PICK p \in Paths : p = ipath[i]
      BY DEF Inv, TypeOK
    <2>2. /\ ipc \in [Ingesters -> {"idle", "extract", "delete", "short", "embed", "upsert", "mark"}]
          /\ row \in [Paths -> Rows] /\ disturbed \in [Paths -> Reasons]
      BY DEF Inv, TypeOK, Rows
    <2>3. /\ ipc[i] = "mark" /\ ipc' = [ipc EXCEPT ![i] = "idle"]
          /\ row' = [row EXCEPT ![p] = OkRow(p)]
          /\ disturbed' = IF disk[p] = itext[i] THEN disturbed ELSE Disturb(p, "edit")
          /\ UNCHANGED <<disk, index, ipath, itext, ibatch>>
      BY <1>2, <2>1 DEF MarkOk, files
    <2>4. ipc'[i] = "idle" /\ row'[p] = OkRow(p)
      BY <2>2, <2>3
    <2>5. IngesterOK(i)' /\ \A q \in Paths : ~Writing(i, q)'
      BY <2>4 DEF IngesterOK, Writing
    <2>6. \A k \in Ingesters \ {i} :
            /\ ipc'[k] = ipc[k] /\ ipath'[k] = ipath[k]
            /\ itext'[k] = itext[k] /\ ibatch'[k] = ibatch[k]
      BY <2>2, <2>3
    <2>7. \A q \in Paths \ {p} :
            /\ row'[q] = row[q] /\ disturbed'[q] = disturbed[q] /\ ~Writing(i, q)
      BY <2>1, <2>2, <2>3 DEF Writing, Disturb
    <2>8. ASSUME disturbed'[p] # "others"
          PROVE  FileOK(p)'
      <3>1. /\ disturbed[p] # "others"
            /\ disturbed'[p] = "nothing" => disk[p] = itext[i]
            /\ disturbed'[p] = "crash" => disturbed[p] = "crash"
        BY <2>2, <2>3, <2>8 DEF Disturb
      <3>2. Writing(i, p) /\ itext[i] \in Texts /\ Written(i) = Batches
        BY <2>1, <2>3 DEF Writing, Written, Inv, IngestersOK, IngesterOK
      <3>3. FileOK(p)
        BY <3>1 DEF Inv, FilesOK
      <3>4. index'[p] = Full(itext[i])
        BY <2>3, <3>2, <3>3 DEF FileOK, Full
      <3>5. \A k \in Ingesters : ~Writing(k, p)'
        BY <2>5, <2>6, <3>2, <3>3 DEF FileOK, Writing
      <3>6. disturbed'[p] = "nothing" => row'[p].sha = itext[i]
        BY <2>4, <3>1 DEF OkRow
      <3>7. \E t \in Texts, n \in 0..Batches : index'[p] = Part(t, n)
        BY <2>3, <3>3 DEF FileOK
      <3>8. disturbed'[p] # "crash"
        BY <3>1, <3>2, <3>3 DEF FileOK, Writers
      <3>. QED
        BY <3>2, <3>4, <3>5, <3>6, <3>7, <3>8 DEF FileOK
    <2>. QED
      BY <2>3, <2>5, <2>6, <2>7, <2>8, Local
  <1>. QED
    BY <1>1, <1>2

(* A crash while the file is written leaves a part of it, and the row.     *)
LEMMA CrashInv ==
  ASSUME Inv, TypeOK', NEW i \in Ingesters, Crash(i)
  PROVE  Inv'
  <1>1. PICK p \in Paths : p = ipath[i]
    BY DEF Inv, TypeOK
  <1>2. /\ ipc \in [Ingesters -> {"idle", "extract", "delete", "short", "embed", "upsert", "mark"}]
        /\ disturbed \in [Paths -> Reasons]
    BY DEF Inv, TypeOK
  <1>3. /\ ipc' = [ipc EXCEPT ![i] = "idle"]
        /\ ~Writing(i, p) => disturbed' = disturbed
        /\ Writing(i, p) =>
             disturbed' = Disturb(p, IF Vouches(p, disk[p]) THEN "vouched" ELSE "crash")
        /\ UNCHANGED <<disk, row, index, ipath, itext, ibatch>>
    BY <1>1 DEF Crash, files
  <1>4. ipc'[i] = "idle"
    BY <1>2, <1>3
  <1>5. IngesterOK(i)' /\ \A q \in Paths : ~Writing(i, q)'
    BY <1>4 DEF IngesterOK, Writing
  <1>6. \A k \in Ingesters \ {i} :
          /\ ipc'[k] = ipc[k] /\ ipath'[k] = ipath[k]
          /\ itext'[k] = itext[k] /\ ibatch'[k] = ibatch[k]
    BY <1>2, <1>3
  <1>7. \A q \in Paths \ {p} : disturbed'[q] = disturbed[q] /\ ~Writing(i, q)
    BY <1>1, <1>2, <1>3 DEF Writing, Disturb
  <1>8. CASE Writing(i, p)
    <2>1. ASSUME disturbed'[p] # "others"
          PROVE  FileOK(p)'
      <3>1. /\ disturbed[p] # "others" /\ disturbed'[p] # "nothing"
            /\ disturbed'[p] = "crash" => ~Vouches(p, disk[p])
        BY <1>2, <1>3, <1>8, <2>1 DEF Disturb
      <3>2. FileOK(p)
        BY <3>1 DEF Inv, FilesOK
      <3>3. \A k \in Ingesters : ~Writing(k, p)'
        BY <1>5, <1>6, <1>8, <3>2 DEF FileOK, Writing
      <3>4. Writers(p)' = {}
        BY <3>3 DEF Writers
      <3>5. Vouches(p, disk[p])' <=> Vouches(p, disk[p])
        BY <1>3 DEF Vouches
      <3>6. \E t \in Texts, n \in 0..Batches : index'[p] = Part(t, n)
        BY <1>3, <3>2 DEF FileOK
      <3>. QED
        BY <3>1, <3>3, <3>4, <3>5, <3>6 DEF FileOK
    <2>. QED
      BY <1>3, <1>5, <1>6, <1>7, <2>1, Local
  <1>9. CASE ~Writing(i, p)
    BY <1>3, <1>5, <1>6, <1>7, <1>9, Quiet
  <1>. QED
    BY <1>8, <1>9

-----------------------------------------------------------------------------
(* The steps of users and maintainers *)

(* An edit or a maintenance step either leaves the index alone and makes  *)
(* no row "ok", or puts the files it empties aside.                        *)
LEMMA UpkeepInv ==
  ASSUME Inv, TypeOK',
         \/ \E p \in Paths, c \in Content \cup {Missing} : Edit(p, c)
         \/ \E m \in Maintainers : \/ \E p \in Paths, op \in MaintenanceOps : DropChunks(m, op, p)
                                   \/ SyncList(m) \/ CleanIndex(m)
                                   \/ FinishMaintenance(m) \/ Abandon(m)
  PROVE  Inv'
  <1>1. /\ row \in [Paths -> Rows] /\ disturbed \in [Paths -> Reasons]
        /\ disk \in [Paths -> Content \cup {Missing}]
    BY DEF Inv, TypeOK, Rows
  <1>2. ASSUME NEW p \in Paths, NEW c \in Content \cup {Missing}, Edit(p, c)
        PROVE  Inv'
    <2>1. UNCHANGED <<row, index, runs>>
      BY <1>2 DEF Edit
    <2>2. \A q \in Paths :
            \/ disturbed'[q] = "vouched" /\ disturbed[q] # "others"
            \/ disturbed'[q] = disturbed[q] /\ disk'[q] = disk[q]
            \/ disturbed'[q] = disturbed[q] /\ (disturbed[q] = "crash" => ~Vouches(q, disk'[q]))
      BY <1>1, <1>2 DEF Edit, Disturb
    <2>. QED
      BY <2>1, <2>2, DiskOnly
  <1>3. ASSUME NEW m \in Maintainers, NEW p \in Paths, NEW op \in MaintenanceOps,
               DropChunks(m, op, p)
        PROVE  Inv'
    <2>1. \A q \in Paths \ {p} : index'[q] = index[q] /\ disturbed'[q] = disturbed[q]
      BY <1>1, <1>3 DEF DropChunks, Disturb, Inv, TypeOK
    <2>2. disturbed'[p] = "others"
      BY <1>1, <1>3 DEF DropChunks, Disturb
    <2>3. UNCHANGED <<disk, row, runs>>
      BY <1>3 DEF DropChunks
    <2>4. {p} \in SUBSET Paths /\ \A q \in {p} : disturbed'[q] = "others"
      BY <2>2
    <2>. QED
      BY <2>1, <2>3, <2>4, Dropped
  <1>4. ASSUME NEW m \in Maintainers, CleanIndex(m)
        PROVE  Inv'
    <2>1. (\A q \in Paths : disturbed'[q] = "others") /\ UNCHANGED <<disk, row, runs>>
      BY <1>4 DEF CleanIndex, files
    <2>. QED
      BY <2>1, Dropped
  <1>5. ASSUME NEW m \in Maintainers, SyncList(m) \/ Abandon(m)
        PROVE  Inv'
    BY <1>5, RowOnly DEF SyncList, Abandon, files
  <1>6. ASSUME NEW m \in Maintainers, FinishMaintenance(m)
        PROVE  Inv'
    <2>1. UNCHANGED <<disk, index, runs, disturbed>>
      BY <1>6 DEF FinishMaintenance, MarkDropped, SyncDeleted, CleanRegistry, files
    <2>2. \A p \in Paths : row'[p] = row[p] \/ row'[p].status \in {"none", "deleted", "pending"}
      <3>1. CASE MarkDropped(m)
        <4>1. PICK q \in Paths, s \in {"deleted", "pending"} : row' = WithStatus(q, s)
          BY <3>1 DEF MarkDropped, Inv, TypeOK
        <4>. QED
          BY <1>1, <4>1 DEF WithStatus
      <3>2. CASE SyncDeleted(m)
        BY <3>2 DEF SyncDeleted
      <3>3. CASE CleanRegistry(m)
        BY <3>3 DEF CleanRegistry
      <3>. QED
        BY <1>6, <3>1, <3>2, <3>3 DEF FinishMaintenance
    <2>. QED
      BY <2>1, <2>2, RowOnly
  <1>. QED
    BY <1>2, <1>3, <1>4, <1>5, <1>6

-----------------------------------------------------------------------------
(* The theorems *)

(* Inv holds initially. *)
LEMMA InitInv == Init => Inv
  <1>1. SUFFICES ASSUME Init PROVE Inv
    OBVIOUS
  <1>2. TypeOK
    BY <1>1, InitType
  <1>3. IngestersOK
    BY <1>1 DEF Init, IngestersOK, IngesterOK
  <1>4. ASSUME NEW p \in Paths
        PROVE  FileOK(p)
    <2>1. \A i \in Ingesters : ~Writing(i, p)
      BY <1>1 DEF Init, Writing
    <2>2. row[p].status # "ok" /\ index[p] = NoChunks
      BY <1>1 DEF Init
    <2>3. PICK t \in Texts : index[p] = Part(t, 0)
      BY <2>2, PartType, IngestIndexAssumption
    <2>4. 0 \in 0..Batches
      BY IngestIndexAssumption
    <2>5. disturbed[p] = "nothing"
      BY <1>1 DEF Init
    <2>. QED
      BY <2>1, <2>2, <2>3, <2>4, <2>5 DEF FileOK
  <1>. QED
    BY <1>2, <1>3, <1>4 DEF Inv, FilesOK

(* Every step preserves Inv. *)
LEMMA NextInv == Inv /\ [Next]_vars => Inv'
  <1>1. SUFFICES ASSUME Inv, [Next]_vars
                 PROVE  Inv'
    OBVIOUS
  <1>2. TypeOK'
    BY <1>1, NextType DEF Inv
  <1>3. CASE UNCHANGED vars
    BY <1>1, <1>2, <1>3, RowOnly DEF vars, runs
  <1>4. ASSUME NEW i \in Ingesters,
               (\E p \in Paths : Check(i, p) \/ CheckForced(i, p)) \/ IngestStep(i) \/ Crash(i)
        PROVE  Inv'
    BY <1>1, <1>2, <1>4, CheckInv, ExtractInv, DeleteOldInv, MarkShortInv, EmbedInv, UpsertInv, FailInv,
       MarkOkInv, CrashInv DEF IngestStep
  <1>. QED
    BY <1>1, <1>2, <1>3, <1>4, UpkeepInv DEF Next

(* The strengthened invariant holds in every reachable state. *)
THEOREM Invariance == Spec => []Inv
  BY InitInv, NextInv, PTL DEF Spec

(* Every variable keeps its type: in particular no batch number of         *)
(* upsert_chunks leaves its range.                                         *)
THEOREM Typing == Spec => []TypeOK
  <1>1. Inv => TypeOK
    BY DEF Inv
  <1>. QED
    BY <1>1, Invariance, PTL

(* needs_ingest may trust a row "ok": for any number of files, batches,    *)
(* ingesters, maintainers, failures and crashes, the chunks of a file      *)
(* nothing interfered with are those its row vouches for.                  *)
THEOREM RegistryVouches == Spec => []OkRowDescribesIndex
  <1>1. Inv => OkRowDescribesIndex
    BY DEF Inv, FilesOK, FileOK, OkRowDescribesIndex
  <1>. QED
    BY <1>1, Invariance, PTL

(* delete_document before upsert_chunks: a search never sees two versions  *)
(* of a file only one run at a time worked on, whatever failed or crashed. *)
THEOREM OneVersion == Spec => []OneVersionPerDocument
  <1>1. Inv => OneVersionPerDocument
    BY DEF Inv, FilesOK, FileOK, OneVersionPerDocument
  <1>. QED
    BY <1>1, Invariance, PTL

(* What failed is taken up again: of the files only one run at a time      *)
(* worked on and that did not change under it, one that is not served as   *)
(* it is on disk is ingested by the next run, after exceptions anywhere    *)
(* and after a crash of a run that was not forced, unless the file was put *)
(* back to what its row says.                                              *)
THEOREM FailuresAreTakenUpAgain == Spec => []UnservedIsNoticed
  <1>1. Inv => UnservedIsNoticed
    <2>. SUFFICES ASSUME Inv, NEW p \in Paths, disturbed[p] \in {"nothing", "crash"},
                         Unserved(p), ~NeedsIngest(p)
                  PROVE  FALSE
      BY DEF UnservedIsNoticed
    <2>1. row[p].status = "ok" /\ row[p].sha = disk[p]
      BY DEF Inv, TypeOK, NeedsIngest, Status, Unserved
    <2>2. FileOK(p)
      BY DEF Inv, FilesOK
    <2>3. CASE disturbed[p] = "nothing"
      BY <2>1, <2>2, <2>3 DEF FileOK, Unserved
    <2>4. CASE disturbed[p] = "crash"
      BY <2>1, <2>2, <2>4 DEF FileOK, Vouches
    <2>. QED
      BY <2>3, <2>4
  <1>. QED
    BY <1>1, Invariance, PTL
=============================================================================
