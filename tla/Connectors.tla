----------------------------- MODULE Connectors -----------------------------
(***************************************************************************)
(* Incremental synchronisation of one remote source (ingest/connectors):   *)
(* a JIRA site, a Confluence site (server or cloud) or a git repository.   *)
(* fetch_documents(since) returns the documents changed since a checkpoint *)
(* and the next checkpoint; the caller stages the documents as files and   *)
(* hands the checkpoint to its next call.  The code under src has no       *)
(* caller: the caller here keeps the contract of ConnectorBase, and keeps  *)
(* the checkpoint only of a sync without errors.                           *)
(*                                                                         *)
(* Time stamps have the resolution of the checkpoint, one second: several  *)
(* changes can have the same one.  For git, the time is the number of the  *)
(* head commit.                                                            *)
(***************************************************************************)
EXTENDS Naturals, FiniteSets, FiniteSetsExt

CONSTANTS
  Kinds,       \* subset of {"jira", "server", "cloud", "git"}
  Docs,        \* documents, numbers: the order of the result pages
  Projects,    \* projects or spaces of the source
  ProjectOf,   \* project of each document
  FileName,    \* FileName[d]: name of d's staged file, sanitised
  Unparsable,  \* documents whose payload the parser rejects
  Unlisted,    \* spaces after the 200 of the only list a Confluence is asked for
  PageSize,    \* results per page
  MaxChanges,  \* bound: changes of the source
  MaxFaults    \* bound: requests that fail, crashes of the caller

ASSUME ConnectorsAssumption ==
  /\ Kinds \subseteq {"jira", "server", "cloud", "git"}
  /\ Docs \subseteq Nat \ {0} /\ IsFiniteSet(Docs)
  /\ ProjectOf \in [Docs -> Projects]
  /\ DOMAIN FileName = Docs
  /\ Unparsable \subseteq Docs /\ Unlisted \subseteq Projects
  /\ PageSize \in Nat \ {0}
  /\ MaxChanges \in Nat /\ MaxFaults \in Nat

VARIABLES
  kind,       \* the kind of the connector
  remote,     \* remote[d]: is it there, its version, the time of its change
  now,        \* the clock of the source
  changes,    \* changes of the source so far
  sync,       \* the call of fetch_documents, or what it returned
  since,      \* the caller's checkpoint, None before the first
  staged,     \* staged[name]: document of the staged file, 0 when there is none
  delivered,  \* delivered[d]: version last written to a staged file (history)
  disturbed,  \* changed or shifted while pages were read, or left out of a
              \* sync whose checkpoint was kept (history)
  faults      \* requests that failed, crashes

connectorVars == <<kind, remote, now, changes, sync, since, staged, delivered,
                   disturbed, faults>>

None      == MaxChanges + 1
Times     == 0..MaxChanges
Names     == {FileName[d] : d \in Docs}
Nothing   == [d \in Docs |-> None]
NoSync    == [pc |-> "idle", todo |-> {}, project |-> None, start |-> 0,
              got |-> Nothing, checkpoint |-> None, errors |-> FALSE,
              missed |-> {}]
Present   == {d \in Docs : remote[d].there}

ConnectorsTypeOK ==
  /\ kind \in Kinds
  /\ remote \in [Docs -> [there : BOOLEAN, version : Times, updated : Times]]
  /\ {now, changes} \subseteq Times
  /\ sync.pc \in {"idle", "listing", "paging", "fetched", "staged"}
  /\ sync.todo \subseteq Projects /\ sync.project \in Projects \cup {None}
  /\ sync.got \in [Docs -> Times \cup {None}]
  /\ sync.checkpoint \in Times \cup {None} /\ sync.errors \in BOOLEAN
  /\ sync.missed \subseteq Docs   \* left out without an error (history)
  /\ since \in Times \cup {None}
  /\ staged \in [Names -> Docs \cup {0}]
  /\ delivered \in [Docs -> Times \cup {None}]
  /\ disturbed \subseteq Docs
  /\ faults \in 0..MaxFaults

ConnectorsInit ==
  /\ kind \in Kinds
  /\ remote = [d \in Docs |-> [there |-> TRUE, version |-> 0, updated |-> 0]]
  /\ now = 0 /\ changes = 0
  /\ sync = NoSync
  /\ since = None
  /\ staged = [n \in Names |-> 0]
  /\ delivered = Nothing
  /\ disturbed = {}
  /\ faults = 0

----------------------------------------------------------------------------
(* The source. *)

Paging == sync.pc = "paging"

(* An edit; with a commit, time advances by one.  Only an edit between two
   syncs is certain to be seen. *)
ChangeDocument(d) ==
  /\ changes < MaxChanges
  /\ d \in Present
  /\ changes' = changes + 1
  /\ \E t \in {IF kind = "git" THEN now + 1 ELSE now} :
       /\ now' = t
       /\ remote' = [remote EXCEPT ![d].version = changes + 1, ![d].updated = t]
  /\ disturbed' = IF Paging THEN disturbed \cup {d} ELSE disturbed \ {d}
  /\ UNCHANGED <<kind, sync, since, staged, delivered, faults>>

(* What comes after a removed document moves up by one. *)
RemoveDocument(d) ==
  /\ changes < MaxChanges
  /\ d \in Present
  /\ changes' = changes + 1
  /\ now' = IF kind = "git" THEN now + 1 ELSE now
  /\ remote' = [remote EXCEPT ![d].there = FALSE, ![d].updated = now']
  /\ disturbed' = IF Paging
                  THEN disturbed \cup {e \in Docs : ProjectOf[e] = ProjectOf[d]}
                  ELSE disturbed
  /\ UNCHANGED <<kind, sync, since, staged, delivered, faults>>

TimePasses ==
  /\ kind # "git"
  /\ now < MaxChanges
  /\ now' = now + 1
  /\ UNCHANGED <<kind, remote, changes, sync, since, staged, delivered,
                 disturbed, faults>>

----------------------------------------------------------------------------
(* JIRA and Confluence. *)

(* Variant: a change in the very second of the checkpoint is left out. *)
MatchesAfter(p) ==
  {d \in Present : ProjectOf[d] = p /\ (since = None \/ remote[d].updated > since)}
(* _build_jql: the documents of a project updated at or after the checkpoint. *)
Matches(p) ==
  {d \in Present : ProjectOf[d] = p /\ (since = None \/ remote[d].updated >= since)}

(* The results from position start on: by their number for JIRA and a
   Confluence server; a cloud cursor keeps its place among the documents. *)
Position(d, S) == Cardinality({e \in S : e < d})
PageFrom(p, start) ==
  IF kind = "cloud"
  THEN LET S == {d \in Matches(p) : d > start}
       IN {d \in S : Position(d, S) < PageSize}
  ELSE {d \in Matches(p) : Position(d, Matches(p)) \in start..(start + PageSize - 1)}

(* _update_checkpoint: the latest change of a document read. *)
LatestOf(checkpoint, S) ==
  LET times == {remote[d].updated : d \in S}
              \cup (IF checkpoint = None THEN {} ELSE {checkpoint})
  IN IF times = {} THEN None ELSE Max(times)

VersionsOf(got, S) ==
  [d \in Docs |-> IF d \in S THEN remote[d].version ELSE got[d]]

(* The next project, or the end of the call. *)
NextProject(s) ==
  IF s.todo = {} THEN [s EXCEPT !.pc = "fetched", !.project = None, !.start = 0]
  ELSE LET p == CHOOSE p \in s.todo : TRUE
       IN [s EXCEPT !.pc = "paging", !.project = p, !.todo = @ \ {p}, !.start = 0]

StartSync ==
  /\ kind # "git"
  /\ sync.pc = "idle"
  /\ sync' = [NoSync EXCEPT !.pc = "listing"]
  /\ UNCHANGED <<kind, remote, now, changes, since, staged, delivered,
                 disturbed, faults>>

(* One request for the first 200 spaces of a Confluence, all projects of JIRA. *)
Listed == IF kind \in {"server", "cloud"} THEN Projects \ Unlisted ELSE Projects

ListProjects ==
  /\ sync.pc = "listing"
  /\ sync' = NextProject([sync EXCEPT !.todo = Listed])
  /\ UNCHANGED <<kind, remote, now, changes, since, staged, delivered,
                 disturbed, faults>>

(* No list, no documents: the result has only the error. *)
ListingFails ==
  /\ sync.pc = "listing" /\ faults < MaxFaults
  /\ sync' = [sync EXCEPT !.pc = "fetched", !.errors = TRUE]
  /\ faults' = faults + 1
  /\ UNCHANGED <<kind, remote, now, changes, since, staged, delivered, disturbed>>

(* One page is parsed; s is the call with the place where the next page starts,
   last whether this was the last one. *)
ReadPage(s, last) ==
  LET parsed == PageFrom(sync.project, sync.start) \ Unparsable
      read   == [s EXCEPT
                   !.got = VersionsOf(@, parsed),
                   !.checkpoint = LatestOf(@, parsed)]
  IN /\ sync' = IF last THEN NextProject(read) ELSE read
     /\ UNCHANGED <<kind, remote, now, changes, since, staged, delivered,
                    disturbed, faults>>

(* start_at moves by maxResults, up to the total of this response. *)
JiraPage ==
  /\ kind = "jira" /\ Paging
  /\ LET next == sync.start + PageSize
     IN ReadPage([sync EXCEPT !.start = next],
                 next >= Cardinality(Matches(sync.project)))

(* start moves by the size of the page, up to totalSize. *)
ServerPage ==
  /\ kind = "server" /\ Paging
  /\ LET next == sync.start + Cardinality(PageFrom(sync.project, sync.start))
     IN ReadPage([sync EXCEPT !.start = next],
                 next >= Cardinality(Matches(sync.project)))

(* Without total, or totalSize, the response is taken for the last one. *)
PageWithoutTotal ==
  /\ kind \in {"jira", "server"} /\ Paging
  /\ LET next == sync.start + PageSize
         M    == Matches(sync.project)
     IN ReadPage([sync EXCEPT !.start = next,
                    !.missed = @ \cup {d \in M : Position(d, M) >= next}], TRUE)

(* The response names the next page as long as there is one. *)
CloudPage ==
  /\ kind = "cloud" /\ Paging
  /\ LET page == PageFrom(sync.project, sync.start)
         next == Max(page \cup {sync.start})
     IN ReadPage([sync EXCEPT !.start = next],
                 \A d \in Matches(sync.project) : d <= next)

(* A failed page ends its project; the other projects are still read. *)
PageFails ==
  /\ Paging /\ faults < MaxFaults
  /\ sync' = NextProject([sync EXCEPT !.errors = TRUE])
  /\ faults' = faults + 1
  /\ UNCHANGED <<kind, remote, now, changes, since, staged, delivered, disturbed>>

----------------------------------------------------------------------------
(* git. *)

(* git diff since..HEAD, or git ls-tree: removed files are listed by the diff
   and have no content. *)
ChangedFiles == {d \in Docs : since = None \/ remote[d].updated > since}
Readable == (ChangedFiles \cap Present) \ Unparsable

(* Clone or pull, and the files at the head commit.  A `git show' that fails or
   times out gives "", like an empty file, and the file is skipped. *)
GitSync ==
  /\ kind = "git"
  /\ sync.pc = "idle"
  /\ \E unread \in SUBSET Readable :
       sync' = [NoSync EXCEPT !.pc = "fetched",
                  !.got = VersionsOf(@, Readable \ unread),
                  !.checkpoint = now, !.missed = unread]
  /\ UNCHANGED <<kind, remote, now, changes, since, staged, delivered,
                 disturbed, faults>>

(* A failed pull is an error of the result. *)
GitFails ==
  /\ kind = "git"
  /\ sync.pc = "idle" /\ faults < MaxFaults
  /\ sync' = [NoSync EXCEPT !.pc = "fetched", !.errors = TRUE]
  /\ faults' = faults + 1
  /\ UNCHANGED <<kind, remote, now, changes, since, staged, delivered, disturbed>>

----------------------------------------------------------------------------
(* The caller. *)

(* stage_documents, in their order: of the documents with one sanitised name,
   the last one is in the file. *)
StageDocuments ==
  LET fetched(n) == {d \in Docs : FileName[d] = n /\ sync.got[d] # None} IN
  /\ sync.pc = "fetched"
  /\ \E last \in [Names -> Docs \cup {0}] :
       /\ \A n \in Names : IF fetched(n) = {} THEN last[n] = 0
                           ELSE last[n] \in fetched(n)
       /\ staged' = [n \in Names |-> IF last[n] = 0 THEN staged[n] ELSE last[n]]
  /\ delivered' = [d \in Docs |->
                     IF sync.got[d] = None THEN delivered[d] ELSE sync.got[d]]
  /\ sync' = [sync EXCEPT !.pc = "staged", !.got = Nothing]
  /\ UNCHANGED <<kind, remote, now, changes, since, disturbed, faults>>

(* A sync that found nothing returns no checkpoint: the old one stays. *)
KeepCheckpoint ==
  /\ sync.pc = "staged"
  /\ IF sync.errors \/ sync.checkpoint = None
     THEN UNCHANGED <<since, disturbed>>
     ELSE /\ since' = sync.checkpoint
          /\ disturbed' = disturbed \cup sync.missed
  /\ sync' = NoSync
  /\ UNCHANGED <<kind, remote, now, changes, staged, delivered, faults>>

(* cleanup_stale_staging: any file may be older than the limit, whether it was
   ingested or not. *)
CleanupStaging ==
  /\ \E n \in Names :
       /\ staged[n] # 0
       /\ staged' = [staged EXCEPT ![n] = 0]
  /\ UNCHANGED <<kind, remote, now, changes, sync, since, delivered, disturbed,
                 faults>>

(* The caller stops with the result of a sync in its hands. *)
CallerCrashes ==
  /\ sync.pc # "idle" /\ faults < MaxFaults
  /\ sync' = NoSync
  /\ faults' = faults + 1
  /\ UNCHANGED <<kind, remote, now, changes, since, staged, delivered, disturbed>>

ConnectorsNext ==
  \/ \E d \in Docs : ChangeDocument(d) \/ RemoveDocument(d)
  \/ TimePasses
  \/ StartSync \/ ListProjects \/ ListingFails
  \/ JiraPage \/ ServerPage \/ CloudPage \/ PageWithoutTotal \/ PageFails
  \/ GitSync \/ GitFails
  \/ StageDocuments \/ KeepCheckpoint
  \/ CleanupStaging
  \/ CallerCrashes

ConnectorsSpec == ConnectorsInit /\ [][ConnectorsNext]_connectorVars

----------------------------------------------------------------------------
(* No sync returns these. *)
OutOfReach == Unparsable \cup {d \in Docs : ProjectOf[d] \notin Listed}

(* The next sync would return d. *)
WillBeFetched(d) ==
  IF kind = "git" THEN d \in Readable ELSE d \in Matches(ProjectOf[d]) \ OutOfReach

(* fetch_documents: a document whose current version was never staged is found
   by the next sync, so that no reported error, no crash of the caller and no
   change within the second of the checkpoint loses it.  Not covered: the
   documents that changed, or moved to another page, while the pages were read
   (the checkpoint is the latest change that was read, and may be later than
   theirs); those that a sync left out without an error before its checkpoint was
   kept (git show failed, a response had no total), until they change again; and
   those out of reach, in spaces that are never listed or not parsed. *)
UnstagedIsFetched ==
  sync.pc = "idle" =>
    \A d \in Present \ (disturbed \cup OutOfReach) :
      delivered[d] # remote[d].version => WillBeFetched(d)
=============================================================================
