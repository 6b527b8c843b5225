-------------------------------- MODULE Tags --------------------------------
(***************************************************************************)
(* Document tags live twice: in the registry (column files.tags) and in    *)
(* the payload of the document's chunks.  The commands `kb-rag tags        *)
(* update' and `tags delete-tag' (ingest/cli/tags.py) write both, document *)
(* by document, from a list read at their start; the administration pages  *)
(* (kb_server/ui/routes_admin.py) write the registry only; ingestion       *)
(* writes chunks without tags.                                             *)
(*                                                                         *)
(* A command works on one collection of chunks, while the registry lists   *)
(* the documents of all of them.  The collection is abstracted to the set  *)
(* of documents that have their chunks there.                              *)
(***************************************************************************)
EXTENDS Naturals, FiniteSets

CONSTANTS
  Files,       \* documents in the registry
  TagNames,    \* tags, normalised
  Taggers,   \* processes that run a command
  MaxTags,     \* MAX_TAGS_PER_DOC
  MaxFailures  \* bound: writes that fail and commands that are stopped

ASSUME TagsAssumption == MaxTags \in Nat \ {0} /\ MaxFailures \in Nat

VARIABLES
  registered,  \* registered[f]: the tags in the registry
  indexed,     \* indexed[f]: the tags in the chunks
  editing,     \* editing[o]: the command of operator o
  lastEdit,    \* lastEdit[f]: the edit that wrote the chunks of f, until the
               \* registry is written (history)
  diverged,    \* files whose tags something else than one command at a time
               \* has changed since a command last wrote both (history)
  tagFailures

tagVars == <<registered, indexed, editing, lastEdit, diverged, tagFailures>>

(* _validate_tags: normalised, without duplicates, at most MaxTags. *)
TagLists == {T \in SUBSET TagNames : T # {} /\ Cardinality(T) <= MaxTags}

Edits     == [kind : {"add", "remove", "replace"}, tags : TagLists]
Deletions == [kind : {"delete"}, tags : {{t} : t \in TagNames}]

(* What the commands, and the pages, make of the current tags. *)
Edited(edit, current) ==
  CASE edit.kind = "add"                  -> current \cup edit.tags
    [] edit.kind \in {"remove", "delete"} -> current \ edit.tags
    [] edit.kind = "replace"              -> edit.tags

NoCommand == [pc |-> "idle"]
NoEdit    == [kind |-> "none", tags |-> {}]

TagsTypeOK ==
  /\ registered \in [Files -> SUBSET TagNames]
  /\ indexed \in [Files -> SUBSET TagNames]
  /\ \A o \in Taggers :
       \/ editing[o] = NoCommand
       \/ /\ editing[o].pc \in {"chunks", "registry"}
          /\ editing[o].edit \in Edits \cup Deletions
          /\ editing[o].held \subseteq Files
          /\ editing[o].todo \in (SUBSET Files) \ {{}}
          /\ editing[o].read \in [Files -> SUBSET TagNames]
  /\ lastEdit \in [Files -> Edits \cup Deletions \cup {NoEdit}]
  /\ diverged \subseteq Files
  /\ tagFailures \in 0..MaxFailures

TagsInit ==
  /\ registered = [f \in Files |-> {}]
  /\ indexed = [f \in Files |-> {}]
  /\ editing = [o \in Taggers |-> NoCommand]
  /\ lastEdit = [f \in Files |-> NoEdit]
  /\ diverged = {}
  /\ tagFailures = 0

----------------------------------------------------------------------------
(* The commands. *)

(* Variant: the command goes on when no document matches. *)
StartEditOfNone(o, edit, S, held) ==
  /\ editing[o] = NoCommand
  /\ editing' = [editing EXCEPT
       ![o] = [pc |-> "chunks", edit |-> edit, held |-> held, todo |-> S,
               read |-> registered]]
  /\ UNCHANGED <<registered, indexed, lastEdit, diverged, tagFailures>>

(* The collection, list_all, the filter and the confirmation. *)
StartEdit(o, edit, S, held) ==
  /\ editing[o] = NoCommand
  /\ S # {}
  /\ editing' = [editing EXCEPT
       ![o] = [pc |-> "chunks", edit |-> edit, held |-> held, todo |-> S,
               read |-> registered]]
  /\ UNCHANGED <<registered, indexed, lastEdit, diverged, tagFailures>>

UpdateTags(o, edit, S, held) == StartEdit(o, edit, S, held)

(* delete-tag: every document that has the tag in the registry. *)
DeleteTag(o, t, held) ==
  StartEdit(o, [kind |-> "delete", tags |-> {t}],
            {f \in Files : t \in registered[f]}, held)

(* The files that other operators have still to write from what they read, or
   have written since this one read them. *)
Contended(o) ==
  (UNION {editing[p].todo : p \in {q \in Taggers \ {o} : editing[q] # NoCommand}})
    \cup {f \in Files : editing[o].read[f] # registered[f]}

(* The next document of the loop, after f. *)
AfterFile(o, f) ==
  IF editing[o].todo = {f} THEN NoCommand
  ELSE [editing[o] EXCEPT !.pc = "chunks", !.todo = @ \ {f}]

Current(o) == CHOOSE f \in editing[o].todo : TRUE
NewTags(o) == Edited(editing[o].edit, editing[o].read[Current(o)])

(* Too many tags: update skips the document with an error, delete-tag does not
   look. *)
TooMany(o) == editing[o].edit.kind # "delete" /\ Cardinality(NewTags(o)) > MaxTags

SkipFile(o) ==
  /\ editing[o].pc = "chunks"
  /\ TooMany(o)
  /\ editing' = [editing EXCEPT ![o] = AfterFile(o, Current(o))]
  /\ UNCHANGED <<registered, indexed, lastEdit, diverged, tagFailures>>

(* Variant: the registry is written before the chunks. *)
WriteRegistryFirst(o) ==
  LET f == Current(o) IN
  /\ editing[o].pc = "chunks"
  /\ ~TooMany(o)
  /\ registered' = [registered EXCEPT ![f] = NewTags(o)]
  /\ lastEdit' = [lastEdit EXCEPT ![f] = editing[o].edit]
  /\ diverged' = diverged \cup ({f} \cap Contended(o))
  /\ editing' = [editing EXCEPT ![o].pc = "registry"]
  /\ UNCHANGED <<indexed, tagFailures>>

(* VectorStore.update_tags: a document without chunks in the collection is
   passed over without an error. *)
WriteChunks(o) ==
  LET f == Current(o) IN
  /\ editing[o].pc = "chunks"
  /\ ~TooMany(o)
  /\ IF f \in editing[o].held
     THEN /\ indexed' = [indexed EXCEPT ![f] = NewTags(o)]
          /\ lastEdit' = [lastEdit EXCEPT ![f] = editing[o].edit]
          /\ diverged' = diverged \cup ({f} \cap Contended(o))
     ELSE UNCHANGED <<indexed, lastEdit, diverged>>
  /\ editing' = [editing EXCEPT ![o].pc = "registry"]
  /\ UNCHANGED <<registered, tagFailures>>

(* What the write of the registry does to a file: it diverges when its chunks
   are elsewhere, and it is in step again when nobody else was at it. *)
Divergence(o, f) ==
  IF f \notin editing[o].held
    THEN {g \in {f} : NewTags(o) # registered[g]} \cup diverged
  ELSE IF f \in Contended(o) \/ indexed[f] # NewTags(o) THEN diverged
  ELSE diverged \ {f}

(* IngestRegistry.update_file_tags, and the row for tags_history. *)
WriteRegistry(o) ==
  LET f == Current(o) IN
  /\ editing[o].pc = "registry"
  /\ registered' = [registered EXCEPT ![f] = NewTags(o)]
  /\ lastEdit' = [lastEdit EXCEPT ![f] = IF f \in editing[o].held THEN NoEdit ELSE @]
  /\ diverged' = Divergence(o, f)
  /\ editing' = [editing EXCEPT ![o] = AfterFile(o, f)]
  /\ UNCHANGED <<indexed, tagFailures>>

(* A write raises: the error is counted, and the loop goes on with the next
   document; or the process is stopped. *)
FailFile(o) ==
  /\ editing[o] # NoCommand
  /\ tagFailures < MaxFailures
  /\ tagFailures' = tagFailures + 1
  /\ \/ editing' = [editing EXCEPT ![o] = AfterFile(o, Current(o))]
     \/ editing' = [editing EXCEPT ![o] = NoCommand]
  /\ UNCHANGED <<registered, indexed, lastEdit, diverged>>

----------------------------------------------------------------------------
(* The administration pages: one handler each, in one step. *)

(* bulk-add, bulk-remove and bulk-execute, on files chosen or filtered; the
   sum of the tags is not checked against the limit. *)
BulkEdit(edit, S) ==
  /\ S # {}
  /\ registered' = [f \in Files |->
       IF f \in S THEN Edited(edit, registered[f]) ELSE registered[f]]
  /\ diverged' = diverged \cup {f \in S : registered'[f] # registered[f]}
  /\ UNCHANGED <<indexed, editing, lastEdit, tagFailures>>

BulkAdd(tags, S)    == BulkEdit([kind |-> "add", tags |-> tags], S)
BulkRemove(tags, S) == BulkEdit([kind |-> "remove", tags |-> tags], S)
BulkExecute(edit, S) == BulkEdit(edit, S)

(* Ingestion replaces the chunks, without tags; mark_ok leaves the column. *)
Reingest(f) ==
  /\ indexed[f] # {}
  /\ indexed' = [indexed EXCEPT ![f] = {}]
  /\ diverged' = diverged \cup {f}
  /\ UNCHANGED <<registered, editing, lastEdit, tagFailures>>

TagsNext ==
  \/ \E o \in Taggers :
       \/ \E edit \in Edits, S \in SUBSET Files, held \in SUBSET Files :
            UpdateTags(o, edit, S, held)
       \/ \E t \in TagNames, held \in SUBSET Files : DeleteTag(o, t, held)
       \/ SkipFile(o)
       \/ WriteChunks(o)
       \/ WriteRegistry(o)
       \/ FailFile(o)
  \/ \E tags \in TagLists, S \in SUBSET Files : BulkAdd(tags, S) \/ BulkRemove(tags, S)
  \/ \E edit \in Edits, S \in SUBSET Files : BulkExecute(edit, S)
  \/ \E f \in Files : Reingest(f)

TagsSpec == TagsInit /\ [][TagsNext]_tagVars

----------------------------------------------------------------------------
(* The chunks are written before the registry, so that a command that failed
   between them, or was stopped, can be repeated: what the chunks of a file
   have is what the registry has, or what the last edit would make of it when
   it is repeated -- while the pages, ingestion and a second command at the
   same time leave the file alone, and no command of another collection has
   written its row: that one leaves the registry ahead of the chunks, without
   an error, and repeating it repairs nothing. *)
RepeatingRepairs ==
  \A f \in Files \ diverged :
    \/ indexed[f] = registered[f]
    \/ lastEdit[f] # NoEdit /\ indexed[f] = Edited(lastEdit[f], registered[f])
=============================================================================
