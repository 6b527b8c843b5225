---------------------------- MODULE Experiments ----------------------------
(***************************************************************************)
(* The optimisation experiments (kb_server/optimization, `kb-rag optimize' *)
(* and the parameter sweeps of ExperimentRunner).  A chunking run indexes  *)
(* the documents anew in a collection that all experiments share, and      *)
(* measures the golden queries there; a scoring run measures them in the   *)
(* production collection.  Both save what they measured in one file.       *)
(*                                                                         *)
(* Every runner is a process with a VectorStore of its own.  A collection  *)
(* is a set of points; a chunking run writes two batches of them, and a    *)
(* run's measures are abstracted to the points its queries could find.     *)
(***************************************************************************)
EXTENDS Naturals, Sequences

CONSTANTS
  Runners,      \* processes
  RunIds,       \* names of result files (strategy, size and second, or given)
  Original,     \* the point of the production collection
  Absent,       \* no collection
  MaxRuns,      \* bound: experiments begun
  MaxExpFaults  \* bound: calls that fail, processes that die

ASSUME ExperimentsAssumption == MaxRuns \in Nat /\ MaxExpFaults \in Nat

VARIABLES
  production,   \* points of QDRANT_COLLECTION
  experiment,   \* points of <QDRANT_COLLECTION>_experiment, or Absent
  store,        \* store[r]: the collection that the runner's VectorStore names
  weights,      \* weights[r]: weights of the runner's HybridSearcher
  run,          \* run[r]: the experiment the runner is in
  saved,        \* saved[i]: the result file i, NoFile or Torn
  begun, expFaults

experimentVars == <<production, experiment, store, weights, run, saved, begun, expFaults>>

NoFile == [kind |-> "no file"]
Torn   == [kind |-> "torn"]

Own(n)      == {n} \X {1, 2}
Points      == (1..MaxRuns) \X {1, 2}
ExpCollections == {"production", "experiment"}
Results     == [kind : {"chunking", "scoring"}, of : 1..MaxRuns, alone : BOOLEAN,
                answered : BOOLEAN, count : 0..2, seen : SUBSET (Points \cup {Original})]
MayFail     == expFaults < MaxExpFaults
Fault       == MayFail /\ expFaults' = expFaults + 1

ExperimentsInit ==
  /\ production = {Original}
  /\ experiment = Absent
  /\ store = [r \in Runners |-> "production"]
  /\ weights = [r \in Runners |-> "default"]
  /\ run = [r \in Runners |-> [at |-> "idle", n |-> 0]]
  /\ saved = [i \in RunIds |-> NoFile]
  /\ begun = 0
  /\ expFaults = 0

ExperimentsTypeOK ==
  /\ production \subseteq Points \cup {Original}
  /\ experiment = Absent \/ experiment \subseteq Points
  /\ store \in [Runners -> ExpCollections]
  /\ weights \in [Runners -> {"default", "variant"}]
  /\ saved \in [RunIds -> Results \cup {NoFile, Torn}]
  /\ \A r \in Runners : run[r].n \in 0..MaxRuns
  /\ begun \in 0..MaxRuns /\ expFaults \in 0..MaxExpFaults

Measuring(r) ==
  run[r].at \notin {"idle", "save", "write", "ended"} /\ run[r].kind = "chunking"

(* The runner goes on at another point of its experiment. *)
GoesOn(r, at)  == run' = [run EXCEPT ![r].at = at]

(* What the queries find in a collection: a search of one that is not      *)
(* there fails.                                                            *)
Searched(c) == IF c = "production" THEN production ELSE experiment
IsThere(c)  == Searched(c) # Absent

-----------------------------------------------------------------------------
(* The start of an experiment: `optimize chunk' or `scoring' runs one, a   *)
(* sweep or a caller of ExperimentRunner one after the other, of either    *)
(* kind.  A strategy with a size cannot split when the size or the overlap *)
(* was left out (the options' default, None, is passed on), and documents  *)
(* may give no chunks at all.                                              *)
Splits   == {"error", "none", "some"}
Variants == {"dense_only", "hybrid", "reranked"}

MayBegin(r) == run[r].at = "idle" /\ begun < MaxRuns

(* A chunking run is alone until another one begins.                       *)
BeginChunking(r, id, splits, more) ==
  /\ MayBegin(r)
  /\ begun' = begun + 1
  /\ LET others == {q \in Runners \ {r} : Measuring(q)} IN
     run' = [q \in Runners |->
       IF q = r THEN [at |-> "delete?", kind |-> "chunking", n |-> begun + 1, id |-> id,
                      splits |-> splits, more |-> more, from |-> store[r],
                      alone |-> others = {}, answered |-> FALSE, count |-> 0, seen |-> {}]
       ELSE IF q \in others THEN [run[q] EXCEPT !.alone = FALSE]
       ELSE run[q]]
  /\ UNCHANGED <<production, experiment, store, weights, saved, expFaults>>

(* A scoring run is alone when nothing left its store redirected. *)
BeginScoring(r, id, variant, more) ==
  /\ MayBegin(r)
  /\ begun' = begun + 1
  /\ run' = [run EXCEPT ![r] =
       [at |-> IF variant = "reranked" THEN "warm up" ELSE "search", kind |-> "scoring",
        n |-> begun + 1, id |-> id, variant |-> variant, more |-> more,
        alone |-> store[r] = "production", answered |-> FALSE, count |-> 0, seen |-> {}]]
  /\ UNCHANGED <<production, experiment, store, weights, saved, expFaults>>

(* The end of a runner: it returns, aborts or dies. *)
Ends(r) == run' = [run EXCEPT ![r] = [at |-> "ended", n |-> 0]]

-----------------------------------------------------------------------------
(* A chunking run empties its collection: each of the two calls asks first *)
(* whether the collection is there.                                        *)
DeleteCheck(r) ==
  /\ run[r].at = "delete?"
  /\ GoesOn(r, IF experiment = Absent THEN "create?" ELSE "delete")
  /\ UNCHANGED <<experiment, store, expFaults>>

Delete(r) ==
  /\ run[r].at = "delete"
  /\ experiment' = Absent
  /\ GoesOn(r, "create?")
  /\ UNCHANGED <<store, expFaults>>

CreateCheck(r) ==
  /\ run[r].at = "create?"
  /\ GoesOn(r, IF experiment = Absent THEN "create" ELSE "split")
  /\ UNCHANGED <<experiment, store, expFaults>>

Create(r) ==
  /\ run[r].at = "create"
  /\ experiment = Absent
  /\ experiment' = {}
  /\ GoesOn(r, "split")
  /\ UNCHANGED <<store, expFaults>>

(* An exception in these steps, or in the splitting: the run is saved with *)
(* measures of 0, and a store already redirected stays redirected.         *)
FailClean(r) ==
  /\ \/ run[r].at \in {"delete?", "delete", "create?", "create"} /\ Fault
     \/ run[r].at = "create" /\ experiment # Absent /\ UNCHANGED expFaults
  /\ GoesOn(r, "save")
  /\ UNCHANGED <<experiment, store>>

(* The store is redirected, and the documents are parsed and split before  *)
(* anything is awaited.  Without chunks the redirection ends at once.      *)
RedirectAndSplit(r) ==
  /\ run[r].at = "split"
  /\ store' = [store EXCEPT ![r] = IF run[r].splits = "none" THEN run[r].from
                                   ELSE "experiment"]
  /\ GoesOn(r, CASE run[r].splits = "error" -> "save"
               [] run[r].splits = "none"  -> "query"
               [] run[r].splits = "some"  -> "embed")
  /\ UNCHANGED <<experiment, expFaults>>

(* The embeddings of all chunks; a failure is caught and counts 0 chunks.  *)
Embed(r) ==
  /\ run[r].at = "embed"
  /\ \/ GoesOn(r, "upsert 1") /\ UNCHANGED <<store, expFaults>>
     \/ /\ Fault
        /\ GoesOn(r, "query")
        /\ store' = [store EXCEPT ![r] = run[r].from]
  /\ UNCHANGED experiment

(* One batch of points goes to the collection that the store names; after  *)
(* the last, or a failure, the store names its own collection again.       *)
UpsertBatch(r) ==
  /\ run[r].at \in {"upsert 1", "upsert 2"}
  /\ LET batch == IF run[r].at = "upsert 1" THEN 1 ELSE 2 IN
     \/ /\ IsThere(store[r])
        /\ IF store[r] = "experiment"
           THEN /\ experiment' = experiment \cup {<<run[r].n, batch>>}
                /\ UNCHANGED production
           ELSE /\ production' = production \cup {<<run[r].n, batch>>}
                /\ UNCHANGED experiment
        /\ IF batch = 1
           THEN GoesOn(r, "upsert 2") /\ UNCHANGED store
           ELSE /\ run' = [run EXCEPT ![r].at = "query", ![r].count = 2]
                /\ store' = [store EXCEPT ![r] = run[r].from]
        /\ UNCHANGED expFaults
     \/ /\ Fault \/ (~IsThere(store[r]) /\ UNCHANGED expFaults)
        /\ GoesOn(r, "query")
        /\ store' = [store EXCEPT ![r] = run[r].from]
        /\ UNCHANGED <<production, experiment>>

(* Variant: the queries leave out the name of the collection, and go where *)
(* the store points.                                                       *)
QueryWhereStorePoints(r) ==
  /\ run[r].at = "query"
  /\ \/ /\ IsThere(store[r])
        /\ run' = [run EXCEPT ![r].at = "save", ![r].answered = TRUE,
                              ![r].seen = Searched(store[r])]
        /\ UNCHANGED expFaults
     \/ /\ Fault \/ (~IsThere(store[r]) /\ UNCHANGED expFaults)
        /\ GoesOn(r, "save")
  /\ UNCHANGED <<experiment, store>>

(* The golden queries: one that fails counts as one that found nothing.    *)
Query(r) ==
  /\ run[r].at = "query"
  /\ \/ /\ IsThere("experiment")
        /\ run' = [run EXCEPT ![r].at = "save", ![r].answered = TRUE,
                              ![r].seen = experiment]
        /\ UNCHANGED expFaults
     \/ /\ Fault \/ (~IsThere("experiment") /\ UNCHANGED expFaults)
        /\ GoesOn(r, "save")
  /\ UNCHANGED <<experiment, store>>

-----------------------------------------------------------------------------
(* A scoring run.  The reranker is loaded first; the query is embedded     *)
(* before the weights of the searcher are replaced, and they are put back  *)
(* whether the search succeeds or not.  Nothing catches its failures: the  *)
(* command aborts and saves nothing.  A reranking that fails leaves the    *)
(* results of the search.                                                  *)
WarmUp(r) ==
  /\ run[r].at = "warm up"
  /\ \/ GoesOn(r, "search") /\ UNCHANGED expFaults
     \/ Fault /\ Ends(r)
  /\ UNCHANGED weights

SearchBegins(r) ==
  /\ run[r].at = "search"
  /\ \/ /\ GoesOn(r, "answer")
        /\ weights' = [weights EXCEPT ![r] = IF run[r].variant = "dense_only" THEN @
                                             ELSE "variant"]
        /\ UNCHANGED expFaults
     \/ Fault /\ Ends(r) /\ UNCHANGED weights

SearchReturns(r) ==
  /\ run[r].at = "answer"
  /\ weights' = [weights EXCEPT ![r] = "default"]
  /\ \/ /\ IsThere(store[r])
        /\ run' = [run EXCEPT ![r].at = "save", ![r].answered = TRUE,
                              ![r].seen = Searched(store[r])]
        /\ UNCHANGED expFaults
     \/ (Fault \/ (~IsThere(store[r]) /\ UNCHANGED expFaults)) /\ Ends(r)

-----------------------------------------------------------------------------
(* The result file is opened, which empties it, then written.              *)
OpenFile(r) ==
  /\ run[r].at = "save"
  /\ saved' = [saved EXCEPT ![run[r].id] = Torn]
  /\ GoesOn(r, "write")
  /\ UNCHANGED expFaults

(* A sweep then looks for a baseline, which is never missing: without a    *)
(* file of that name it is the oldest run, and one was just saved.  So the *)
(* automatic baseline is never written; but the oldest run can be torn,    *)
(* which ends the sweep (the order of the files is left out).              *)
BaselineTorn == \E i \in RunIds : saved'[i] = Torn

Write(r) ==
  /\ run[r].at = "write"
  /\ saved' = [saved EXCEPT ![run[r].id] =
       [kind |-> run[r].kind, of |-> run[r].n, alone |-> run[r].alone,
        answered |-> run[r].answered, count |-> run[r].count, seen |-> run[r].seen]]
  /\ \/ /\ run[r].more
        /\ run' = [run EXCEPT ![r] = [at |-> "idle", n |-> 0]]
     \/ (run[r].more => BaselineTorn) /\ Ends(r)
  /\ UNCHANGED expFaults

(* The process dies. *)
RunnerDies(r) ==
  /\ run[r].at \notin {"idle", "ended"}
  /\ Fault
  /\ Ends(r)
  /\ UNCHANGED saved

-----------------------------------------------------------------------------
ChunkingStep(r) ==
  /\ \/ DeleteCheck(r) \/ Delete(r) \/ CreateCheck(r) \/ Create(r) \/ FailClean(r)
     \/ RedirectAndSplit(r) \/ Embed(r) \/ Query(r)
  /\ UNCHANGED <<production, weights, saved, begun>>

ScoringStep(r) ==
  /\ WarmUp(r) \/ SearchBegins(r) \/ SearchReturns(r)
  /\ UNCHANGED <<production, experiment, store, saved, begun>>

SavingStep(r) ==
  /\ OpenFile(r) \/ Write(r) \/ RunnerDies(r)
  /\ UNCHANGED <<production, experiment, store, weights, begun>>

ExperimentsNext ==
  \E r \in Runners :
    \/ \E id \in RunIds, more \in BOOLEAN :
         \/ \E splits \in Splits : BeginChunking(r, id, splits, more)
         \/ \E variant \in Variants : BeginScoring(r, id, variant, more)
    \/ ChunkingStep(r)
    \/ UpsertBatch(r) /\ UNCHANGED <<weights, saved, begun>>
    \/ ScoringStep(r)
    \/ SavingStep(r)

ExperimentsSpec == ExperimentsInit /\ [][ExperimentsNext]_experimentVars

-----------------------------------------------------------------------------
(* What a result file says was measured is what its run is about: a        *)
(* scoring run saw production, without a chunk of any experiment ("a       *)
(* temporary collection to avoid polluting production indexes"), and a     *)
(* chunking run that no other overlapped found nothing but the chunks it   *)
(* had indexed itself, and all of them when it reports that it indexed     *)
(* them.  It is about the deletion before the run, the redirection of the  *)
(* store around the upsert, and everything that fails between them.        *)
(*                                                                         *)
(* The runs that are not alone are outside it: chunking runs that overlap  *)
(* share the collection, and a scoring run that follows a chunking run of  *)
(* the same runner whose splitting failed measures the experiments'        *)
(* collection, for that run left the store redirected.                     *)
MeasuresItsOwnCollection ==
  \A i \in RunIds : saved[i] \notin {NoFile, Torn} =>
    LET result == saved[i] IN
    /\ result.kind = "scoring" /\ result.alone => result.seen = {Original}
    /\ result.kind = "chunking" /\ result.alone =>
         /\ result.seen \subseteq Own(result.of)
         /\ result.answered /\ result.count > 0 => result.seen = Own(result.of)
=============================================================================
