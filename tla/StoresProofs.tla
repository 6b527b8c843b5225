----------------------------- MODULE StoresProofs -----------------------------
(***************************************************************************)
(* Proofs about Connectors and Experiments, for any documents, projects,   *)
(* clocks, strategies, processes and numbers of runs; and that the         *)
(* variables of all the components MCStores composes keep their types.     *)
(***************************************************************************)
EXTENDS MCStores, TablesProofs, Integers, FiniteSetTheorems, WellFoundedInduction,
        TLAPS

(***************************************************************************)
(* Experiments.  While a chunking run is alone, the shared collection is   *)
(* what the run has made of it so far; a store names the shared collection *)
(* whenever a chunking run indexes, and production for a scoring run that  *)
(* found it so; and so no run writes to production, and what a run         *)
(* measured holds its own chunks.                                          *)
(***************************************************************************)
ChunkingPlaces == {"delete?", "delete", "create?", "create", "split", "embed",
                   "upsert 1", "upsert 2", "query"}
Seen == SUBSET (Points \cup {Original})

ChunkingRuns ==
  [at : ChunkingPlaces \cup {"save", "write"}, kind : {"chunking"}, n : 1..MaxRuns,
   id : RunIds, splits : Splits, more : BOOLEAN, from : ExpCollections, alone : BOOLEAN,
   answered : BOOLEAN, count : 0..2, seen : Seen]
ScoringRuns ==
  [at : {"warm up", "search", "answer", "save", "write"}, kind : {"scoring"},
   n : 1..MaxRuns, id : RunIds, variant : Variants, more : BOOLEAN, alone : BOOLEAN,
   answered : BOOLEAN, count : 0..2, seen : Seen]
Outside  == {[at |-> "idle", n |-> 0], [at |-> "ended", n |-> 0]}
RunStates == ChunkingRuns \cup ScoringRuns \cup Outside

ExperimentsTyped ==
  /\ experiment = Absent \/ experiment \subseteq Points
  /\ store \in [Runners -> ExpCollections]
  /\ weights \in [Runners -> {"default", "variant"}]
  /\ saved \in [RunIds -> Results \cup {NoFile, Torn}]
  /\ run \in [Runners -> RunStates]
  /\ begun \in 0..MaxRuns /\ expFaults \in 0..MaxExpFaults

(* Where the store is that a run writes to, or searches. *)
SearchPlaces == {"warm up", "search", "answer"}

StoreOfRun(r) ==
  /\ run[r].at \in SearchPlaces /\ run[r].alone => store[r] = "production"
  /\ run[r].at \in {"embed", "upsert 1", "upsert 2"} => store[r] = "experiment"

(* What a chunking run that no other overlaps has made of the collection. *)
OwnCollection(r) ==
  /\ run[r].at \in {"create?", "create"} => experiment = Absent
  /\ run[r].at \in {"split", "embed", "upsert 1"} => experiment = {}
  /\ run[r].at = "upsert 2" => experiment = {<<run[r].n, 1>>}
  /\ run[r].at = "query" =>
       /\ experiment \subseteq Own(run[r].n)
       /\ run[r].count > 0 => experiment = Own(run[r].n)

AloneOwns(r) ==
  Measuring(r) /\ run[r].alone =>
    OwnCollection(r) /\ \A q \in Runners \ {r} : ~Measuring(q)

(* The measures are taken at the end. *)
NotYetMeasured(r) ==
  run[r].at \in ChunkingPlaces =>
    /\ ~run[r].answered /\ run[r].seen = {}
    /\ run[r].at # "query" => run[r].count = 0

MeasuredOwn(row, n) ==
  /\ row.kind = "scoring" /\ row.alone => row.seen = {Original}
  /\ row.kind = "chunking" /\ row.alone =>
       /\ row.seen \subseteq Own(n)
       /\ row.answered /\ row.count > 0 => row.seen = Own(n)

ToBeSaved(r) == run[r].at \in {"save", "write"} => MeasuredOwn(run[r], run[r].n)

ExperimentsInv ==
  /\ ExperimentsTyped
  /\ production = {Original}
  /\ \A r \in Runners : StoreOfRun(r) /\ AloneOwns(r) /\ NotYetMeasured(r) /\ ToBeSaved(r)
  /\ MeasuresItsOwnCollection

ExperimentsStep == ExperimentsNext \/ UNCHANGED experimentVars

(* The invariant implies the types.                                        *)
LEMMA ExperimentsTypes == ExperimentsInv => ExperimentsTypeOK
<1> SUFFICES ASSUME ExperimentsInv PROVE ExperimentsTypeOK
  OBVIOUS
<1>1. \A r \in Runners : run[r].n \in 0..MaxRuns
  <2> TAKE r \in Runners
  <2>1. run[r] \in RunStates
    BY DEF ExperimentsInv, ExperimentsTyped
  <2>2. MaxRuns \in Nat
    BY ExperimentsAssumption
  <2>3. CASE run[r] \in ChunkingRuns
    BY <2>2, <2>3 DEF ChunkingRuns
  <2>4. CASE run[r] \in ScoringRuns
    <3>1. run[r].n \in 1..MaxRuns
      BY <2>4 DEF ScoringRuns
    <3> QED
      BY <2>2, <3>1
  <2>5. CASE run[r] \in Outside
    BY <2>2, <2>5 DEF Outside
  <2> QED
    BY <2>1, <2>3, <2>4, <2>5 DEF RunStates
<1> QED
  BY <1>1 DEF ExperimentsInv, ExperimentsTyped, ExperimentsTypeOK

(* The invariant holds at first.                                           *)
LEMMA ExperimentsInitInv == ExperimentsInit => ExperimentsInv
<1> SUFFICES ASSUME ExperimentsInit PROVE ExperimentsInv
  OBVIOUS
<1> USE ExperimentsAssumption
<1>1. run \in [Runners -> RunStates]
  BY DEF ExperimentsInit, RunStates, Outside
<1>2. /\ store \in [Runners -> ExpCollections] /\ weights \in [Runners -> {"default", "variant"}]
      /\ saved \in [RunIds -> Results \cup {NoFile, Torn}]
      /\ experiment = Absent /\ begun \in 0..MaxRuns /\ expFaults \in 0..MaxExpFaults
  BY DEF ExperimentsInit, ExpCollections
<1>3. ExperimentsTyped
  BY <1>1, <1>2 DEF ExperimentsTyped
<1>4. \A r \in Runners : run[r].at = "idle" /\ store[r] = "production"
  BY DEF ExperimentsInit
<1>5. \A r \in Runners : StoreOfRun(r) /\ AloneOwns(r) /\ NotYetMeasured(r) /\ ToBeSaved(r)
  BY <1>4 DEF StoreOfRun, AloneOwns, NotYetMeasured, ToBeSaved, Measuring, ChunkingPlaces,
    SearchPlaces
<1>6. MeasuresItsOwnCollection /\ production = {Original}
  BY DEF ExperimentsInit, MeasuresItsOwnCollection
<1> QED
  BY <1>3, <1>5, <1>6 DEF ExperimentsInv

(* A run by its place and its kind. *)
LEMMA RunAt ==
  ASSUME NEW row \in RunStates
  PROVE  /\ row.at \in ChunkingPlaces => row \in ChunkingRuns
         /\ row.at \in {"warm up", "search", "answer"} => row \in ScoringRuns
         /\ row.at \in {"save", "write"} => row \in ChunkingRuns \cup ScoringRuns
         /\ row.at \notin {"idle", "ended"} => row \in ChunkingRuns \cup ScoringRuns
<1>1. row \in ScoringRuns => row.at \in {"warm up", "search", "answer", "save", "write"}
  BY DEF ScoringRuns
<1>2. row \in ChunkingRuns => row.at \in ChunkingPlaces \cup {"save", "write"}
  BY DEF ChunkingRuns
<1>3. row \in Outside => row.at \in {"idle", "ended"} /\ row.n = 0
  BY DEF Outside
<1> QED
  BY <1>1, <1>2, <1>3 DEF RunStates, ChunkingPlaces

(* A chunking run measures from its first step to its queries. *)
LEMMA MeasuringAt ==
  ASSUME NEW r \in Runners, run[r] \in RunStates
  PROVE  /\ Measuring(r) <=> run[r].at \in ChunkingPlaces
         /\ Measuring(r) => run[r] \in ChunkingRuns
<1>1. run[r] \in ScoringRuns => run[r].kind = "scoring"
  BY DEF ScoringRuns
<1>2. run[r] \in ChunkingRuns => run[r].kind = "chunking" /\ run[r].at \in ChunkingPlaces \cup {"save", "write"}
  BY DEF ChunkingRuns
<1>3. run[r].at \in {"idle", "ended"} => ~Measuring(r) /\ run[r].at \notin ChunkingPlaces
  BY DEF Measuring, ChunkingPlaces
<1> QED
  BY <1>1, <1>2, <1>3, RunAt DEF Measuring, ChunkingPlaces

(* The rows of the runs under the changes that the steps make. *)
LEMMA RunRows ==
  /\ \A row \in ChunkingRuns :
       /\ \A at \in ChunkingPlaces \cup {"save", "write"} : [row EXCEPT !.at = at] \in ChunkingRuns
       /\ [row EXCEPT !.alone = FALSE] \in ChunkingRuns
       /\ [row EXCEPT !.count = 2] \in ChunkingRuns
       /\ [row EXCEPT !.answered = TRUE] \in ChunkingRuns
       /\ \A S \in Seen : [row EXCEPT !.seen = S] \in ChunkingRuns
  /\ \A row \in ScoringRuns :
       /\ \A at \in {"warm up", "search", "answer", "save", "write"} :
            [row EXCEPT !.at = at] \in ScoringRuns
       /\ [row EXCEPT !.answered = TRUE] \in ScoringRuns
       /\ \A S \in Seen : [row EXCEPT !.seen = S] \in ScoringRuns
<1>1. ASSUME NEW row \in ChunkingRuns, NEW at \in ChunkingPlaces \cup {"save", "write"}
      PROVE [row EXCEPT !.at = at] \in ChunkingRuns
  BY DEF ChunkingRuns
<1>2. ASSUME NEW row \in ChunkingRuns PROVE [row EXCEPT !.alone = FALSE] \in ChunkingRuns
  BY DEF ChunkingRuns
<1>8. ASSUME NEW row \in ChunkingRuns PROVE [row EXCEPT !.count = 2] \in ChunkingRuns
  <2>1. 2 \in 0..2
    OBVIOUS
  <2> QED
    BY <2>1 DEF ChunkingRuns
<1>3. ASSUME NEW row \in ChunkingRuns PROVE [row EXCEPT !.answered = TRUE] \in ChunkingRuns
  BY DEF ChunkingRuns
<1>4. ASSUME NEW row \in ChunkingRuns, NEW S \in Seen PROVE [row EXCEPT !.seen = S] \in ChunkingRuns
  BY DEF ChunkingRuns
<1>5. ASSUME NEW row \in ScoringRuns, NEW at \in {"warm up", "search", "answer", "save", "write"}
      PROVE [row EXCEPT !.at = at] \in ScoringRuns
  BY DEF ScoringRuns
<1>6. ASSUME NEW row \in ScoringRuns PROVE [row EXCEPT !.answered = TRUE] \in ScoringRuns
  BY DEF ScoringRuns
<1>7. ASSUME NEW row \in ScoringRuns, NEW S \in Seen PROVE [row EXCEPT !.seen = S] \in ScoringRuns
  BY DEF ScoringRuns
<1> QED
  BY <1>1, <1>2, <1>3, <1>4, <1>5, <1>6, <1>7, <1>8

(* The two kinds of runs are told apart by their field.                    *)
LEMMA KindOfRun ==
  /\ \A row \in ChunkingRuns : row.kind = "chunking" /\ row \notin ScoringRuns
  /\ \A row \in ScoringRuns : row.kind = "scoring" /\ row \notin ChunkingRuns
<1>1. \A row \in ChunkingRuns : row.kind = "chunking"
  BY DEF ChunkingRuns
<1>2. \A row \in ScoringRuns : row.kind = "scoring"
  BY DEF ScoringRuns
<1> QED
  BY <1>1, <1>2

(* The fields that the properties read, as they are in two states. *)
SameRun(row, new) ==
  /\ new.kind = row.kind /\ new.n = row.n /\ new.alone = row.alone
  /\ new.id = row.id /\ new.more = row.more

SameMeasures(row, new) ==
  new.answered = row.answered /\ new.seen = row.seen

(* A run that goes on keeps what it has measured. *)
LEMMA GoesOnMoves ==
  ASSUME run \in [Runners -> RunStates], NEW r \in Runners, NEW at, GoesOn(r, at),
         \/ run[r] \in ChunkingRuns /\ at \in ChunkingPlaces \cup {"save", "write"}
         \/ run[r] \in ScoringRuns /\ at \in {"warm up", "search", "answer", "save", "write"}
  PROVE  /\ run' \in [Runners -> RunStates]
         /\ run'[r].at = at /\ SameRun(run[r], run'[r]) /\ SameMeasures(run[r], run'[r])
         /\ run'[r].count = run[r].count
         /\ run[r] \in ChunkingRuns => run'[r] \in ChunkingRuns
         /\ run[r] \in ScoringRuns => run'[r] \in ScoringRuns
         /\ \A q \in Runners \ {r} : run'[q] = run[q]
<1>1. run' = [run EXCEPT ![r] = [run[r] EXCEPT !.at = at]]
  BY DEF GoesOn
<1>2. run'[r] = [run[r] EXCEPT !.at = at] /\ \A q \in Runners \ {r} : run'[q] = run[q]
  BY <1>1
<1>3. /\ run[r] \in ChunkingRuns => run'[r] \in ChunkingRuns
      /\ run[r] \in ScoringRuns => run'[r] \in ScoringRuns
  <2>1. CASE run[r] \in ChunkingRuns /\ at \in ChunkingPlaces \cup {"save", "write"}
    <3>1. [run[r] EXCEPT !.at = at] \in ChunkingRuns
      BY <2>1, RunRows
    <3> QED
      BY <1>2, <2>1, <3>1, KindOfRun
  <2>2. CASE run[r] \in ScoringRuns /\ at \in {"warm up", "search", "answer", "save", "write"}
    <3>1. [run[r] EXCEPT !.at = at] \in ScoringRuns
      BY <2>2, RunRows
    <3> QED
      BY <1>2, <2>2, <3>1, KindOfRun
  <2> QED
    BY <2>1, <2>2
<1>4. run'[r].at = at /\ SameRun(run[r], run'[r]) /\ SameMeasures(run[r], run'[r])
      /\ run'[r].count = run[r].count
  <2>1. CASE run[r] \in ChunkingRuns
    BY <1>2, <2>1 DEF ChunkingRuns, SameRun, SameMeasures
  <2>2. CASE run[r] \in ScoringRuns
    BY <1>2, <2>2 DEF ScoringRuns, SameRun, SameMeasures
  <2> QED
    BY <2>1, <2>2
<1> QED
  BY <1>1, <1>2, <1>3, <1>4 DEF RunStates

(* A run that has measured. *)
LEMMA MeasureMoves ==
  ASSUME run \in [Runners -> RunStates], NEW r \in Runners, NEW S \in Seen,
         run' = [run EXCEPT ![r].at = "save", ![r].answered = TRUE, ![r].seen = S],
         run[r] \in ChunkingRuns \cup ScoringRuns
  PROVE  /\ run' \in [Runners -> RunStates]
         /\ run'[r].at = "save" /\ SameRun(run[r], run'[r]) /\ run'[r].count = run[r].count
         /\ run'[r].seen = S
         /\ run[r] \in ChunkingRuns => run'[r] \in ChunkingRuns
         /\ run[r] \in ScoringRuns => run'[r] \in ScoringRuns
         /\ \A q \in Runners \ {r} : run'[q] = run[q]
<1> DEFINE a == [run[r] EXCEPT !.at = "save"]
           b == [a EXCEPT !.answered = TRUE]
           c == [b EXCEPT !.seen = S]
<1>1. run'[r] = c /\ \A q \in Runners \ {r} : run'[q] = run[q]
  OBVIOUS
<1>2. /\ run[r] \in ChunkingRuns => a \in ChunkingRuns
      /\ run[r] \in ScoringRuns => a \in ScoringRuns
      /\ a.at = "save" /\ SameRun(run[r], a) /\ a.count = run[r].count
  <2>1. CASE run[r] \in ChunkingRuns
    BY <2>1, RunRows, KindOfRun DEF ChunkingRuns, SameRun
  <2>2. CASE run[r] \in ScoringRuns
    BY <2>2, RunRows, KindOfRun DEF ScoringRuns, SameRun
  <2> QED
    BY <2>1, <2>2
<1>3. /\ a \in ChunkingRuns => b \in ChunkingRuns
      /\ a \in ScoringRuns => b \in ScoringRuns
      /\ b.at = a.at /\ SameRun(a, b) /\ b.count = a.count
  <2> HIDE DEF a
  <2> QED
    <3>1. CASE a \in ChunkingRuns
      <4>1. b \in ChunkingRuns
        BY <3>1, RunRows
      <4>2. a \notin ScoringRuns
        BY <3>1, KindOfRun
      <4>3. b.at = a.at /\ SameRun(a, b) /\ b.count = a.count
        BY <3>1 DEF ChunkingRuns, SameRun
      <4> QED
        BY <4>1, <4>2, <4>3
    <3>2. CASE a \in ScoringRuns
      <4>1. b \in ScoringRuns
        BY <3>2, RunRows
      <4>2. a \notin ChunkingRuns
        BY <3>2, KindOfRun
      <4>3. b.at = a.at /\ SameRun(a, b) /\ b.count = a.count
        BY <3>2 DEF ScoringRuns, SameRun
      <4> QED
        BY <4>1, <4>2, <4>3
    <3> QED
      BY <1>2, <3>1, <3>2
<1>4. /\ b \in ChunkingRuns => c \in ChunkingRuns
      /\ b \in ScoringRuns => c \in ScoringRuns
      /\ c.at = b.at /\ SameRun(b, c) /\ c.count = b.count /\ c.seen = S
  <2> HIDE DEF a, b
  <2> QED
    <3>1. CASE b \in ChunkingRuns
      <4>1. c \in ChunkingRuns
        BY <3>1, RunRows
      <4>2. b \notin ScoringRuns
        BY <3>1, KindOfRun
      <4>3. c.at = b.at /\ SameRun(b, c) /\ c.count = b.count /\ c.seen = S
        BY <3>1 DEF ChunkingRuns, SameRun
      <4> QED
        BY <4>1, <4>2, <4>3
    <3>2. CASE b \in ScoringRuns
      <4>1. c \in ScoringRuns
        BY <3>2, RunRows
      <4>2. b \notin ChunkingRuns
        BY <3>2, KindOfRun
      <4>3. c.at = b.at /\ SameRun(b, c) /\ c.count = b.count /\ c.seen = S
        BY <3>2 DEF ScoringRuns, SameRun
      <4> QED
        BY <4>1, <4>2, <4>3
    <3> QED
      BY <1>2, <1>3, <3>1, <3>2
<1> HIDE DEF a, b, c
<1>5. run' \in [Runners -> RunStates]
  <2>1. c \in RunStates
    BY <1>2, <1>3, <1>4 DEF RunStates
  <2>2. DOMAIN run' = Runners
    OBVIOUS
  <2>3. run' = [q \in Runners |-> run'[q]]
    BY <2>2
  <2> QED
    BY <1>1, <2>1, <2>3
<1> QED
  BY <1>1, <1>2, <1>3, <1>4, <1>5 DEF SameRun

(* A batch more, the last one. *)
LEMMA IndexedMoves ==
  ASSUME run \in [Runners -> RunStates], NEW r \in Runners,
         run' = [run EXCEPT ![r].at = "query", ![r].count = 2], run[r] \in ChunkingRuns
  PROVE  /\ run' \in [Runners -> RunStates]
         /\ run'[r].at = "query" /\ SameRun(run[r], run'[r]) /\ SameMeasures(run[r], run'[r])
         /\ run'[r].count = 2
         /\ run'[r] \in ChunkingRuns
         /\ \A q \in Runners \ {r} : run'[q] = run[q]
<1> DEFINE a == [run[r] EXCEPT !.at = "query"]
           b == [a EXCEPT !.count = 2]
<1>1. run'[r] = b /\ \A q \in Runners \ {r} : run'[q] = run[q]
  OBVIOUS
<1>2. a \in ChunkingRuns /\ a.at = "query" /\ SameRun(run[r], a) /\ SameMeasures(run[r], a)
  BY RunRows DEF ChunkingRuns, SameRun, SameMeasures, ChunkingPlaces
<1>3. /\ b \in ChunkingRuns /\ b.at = a.at /\ SameRun(a, b) /\ SameMeasures(a, b)
      /\ b.count = 2
  <2> HIDE DEF a
  <2> QED
    BY <1>2, RunRows DEF ChunkingRuns, SameRun, SameMeasures
<1> HIDE DEF a, b
<1>4. run' \in [Runners -> RunStates]
  <2>1. run' = [q \in Runners |-> run'[q]]
    OBVIOUS
  <2> QED
    BY <1>1, <1>3, <2>1 DEF RunStates
<1> QED
  BY <1>1, <1>2, <1>3, <1>4 DEF SameRun, SameMeasures

(* A run that ends, ends alone.                                            *)
LEMMA EndsMoves ==
  ASSUME run \in [Runners -> RunStates], NEW r \in Runners, Ends(r)
  PROVE  /\ run' \in [Runners -> RunStates] /\ run'[r].at = "ended" /\ run'[r].n = 0
         /\ \A q \in Runners \ {r} : run'[q] = run[q]
BY DEF Ends, RunStates, Outside

(* The facts about one run, which a step of another one keeps. *)
RunFacts(r) == StoreOfRun(r) /\ AloneOwns(r) /\ NotYetMeasured(r) /\ ToBeSaved(r)

(* What is asked of the run that moves. *)
MovesWell(r) ==
  /\ run' \in [Runners -> RunStates]
  /\ \A q \in Runners \ {r} : run'[q] = run[q] /\ store'[q] = store[q]
  /\ experiment' = experiment \/ Measuring(r)
  /\ StoreOfRun(r)' /\ NotYetMeasured(r)' /\ ToBeSaved(r)'
  /\ Measuring(r)' => Measuring(r)
  /\ Measuring(r)' /\ run'[r].alone => run[r].alone /\ OwnCollection(r)'

(* When one run moves as it should, the facts about all runs are kept.     *)
LEMMA OneRunMoves ==
  ASSUME \A q \in Runners : RunFacts(q), NEW r \in Runners, MovesWell(r)
  PROVE  \A q \in Runners : RunFacts(q)'
<1>1. \A q \in Runners \ {r} : Measuring(q)' <=> Measuring(q)
  BY DEF MovesWell, Measuring
<1>2. RunFacts(r)'
  <2>1. AloneOwns(r)'
    <3> SUFFICES ASSUME Measuring(r)', run'[r].alone
                 PROVE OwnCollection(r)' /\ \A q \in Runners \ {r} : ~Measuring(q)'
      BY DEF AloneOwns
    <3>1. Measuring(r) /\ run[r].alone /\ OwnCollection(r)'
      BY DEF MovesWell
    <3>2. \A q \in Runners \ {r} : ~Measuring(q)
      BY <3>1 DEF RunFacts, AloneOwns
    <3> QED
      BY <3>1, <3>2, <1>1
  <2> QED
    BY <2>1 DEF MovesWell, RunFacts
<1>3. ASSUME NEW q \in Runners \ {r} PROVE RunFacts(q)'
  <2>1. run'[q] = run[q] /\ store'[q] = store[q] /\ RunFacts(q)
    BY DEF MovesWell
  <2>2. StoreOfRun(q)' /\ NotYetMeasured(q)' /\ ToBeSaved(q)'
    BY <2>1 DEF RunFacts, StoreOfRun, NotYetMeasured, ToBeSaved
  <2>3. AloneOwns(q)'
    <3> SUFFICES ASSUME Measuring(q)', run'[q].alone
                 PROVE OwnCollection(q)' /\ \A p \in Runners \ {q} : ~Measuring(p)'
      BY DEF AloneOwns
    <3>1. OwnCollection(q) /\ \A p \in Runners \ {q} : ~Measuring(p)
      BY <1>1, <2>1 DEF RunFacts, AloneOwns
    <3>2. experiment' = experiment /\ ~Measuring(r)'
      BY <3>1 DEF MovesWell
    <3>3. OwnCollection(q)'
      BY <2>1, <3>1, <3>2 DEF OwnCollection
    <3> QED
      BY <1>1, <3>1, <3>2, <3>3
  <2> QED
    BY <2>2, <2>3 DEF RunFacts
<1> QED
  BY <1>2, <1>3

(* The points of one run. *)
LEMMA OwnPoints ==
  ASSUME NEW n \in 1..MaxRuns
  PROVE  /\ Own(n) = {<<n, 1>>, <<n, 2>>} /\ Own(n) \subseteq Points
         /\ <<n, 1>> \in Points /\ <<n, 2>> \in Points
BY DEF Own, Points

(* A chunking run that goes on to another place in its cleaning, splitting  *)
(* and indexing, with what it leaves in the collection.                     *)
LEMMA ChunkingMoves ==
  ASSUME run \in [Runners -> RunStates], \A q \in Runners : RunFacts(q),
         NEW r \in Runners, run[r].at \in ChunkingPlaces,
         NEW at \in ChunkingPlaces \cup {"save"}, GoesOn(r, at), at \notin {"query", "save"} => run[r].at # "query",
         \A q \in Runners \ {r} : store'[q] = store[q],
         StoreOfRun(r)',
         at # "save" /\ run[r].alone /\ OwnCollection(r) => OwnCollection(r)'
  PROVE  MovesWell(r)
<1>1. run[r] \in ChunkingRuns /\ Measuring(r)
  BY RunAt, MeasuringAt
<1>2. /\ run' \in [Runners -> RunStates] /\ run'[r].at = at
      /\ SameRun(run[r], run'[r]) /\ SameMeasures(run[r], run'[r]) /\ run'[r].count = run[r].count
      /\ run'[r] \in ChunkingRuns /\ \A q \in Runners \ {r} : run'[q] = run[q]
  BY <1>1, GoesOnMoves
<1>3. ~run[r].answered /\ run[r].seen = {} /\ (run[r].at # "query" => run[r].count = 0)
  BY DEF RunFacts, NotYetMeasured
<1>4. NotYetMeasured(r)'
  <2>1. "save" \notin ChunkingPlaces
    BY DEF ChunkingPlaces
  <2> QED
    BY <1>2, <1>3, <2>1 DEF NotYetMeasured, SameMeasures
<1>5. ToBeSaved(r)'
  <2>1. run'[r].kind = "chunking" /\ ~run'[r].answered /\ run'[r].seen = {}
    BY <1>1, <1>2, <1>3, KindOfRun DEF SameMeasures, SameRun
  <2> QED
    BY <2>1 DEF ToBeSaved, MeasuredOwn
<1>6. Measuring(r)' /\ run'[r].alone => run[r].alone /\ OwnCollection(r)'
  <2> SUFFICES ASSUME Measuring(r)', run'[r].alone PROVE run[r].alone /\ OwnCollection(r)'
    OBVIOUS
  <2>1. run[r].alone
    BY <1>2 DEF SameRun
  <2>2. at # "save"
    BY <1>2 DEF Measuring
  <2>3. OwnCollection(r)
    BY <1>1, <2>1 DEF RunFacts, AloneOwns
  <2> QED
    BY <2>1, <2>2, <2>3
<1> QED
  BY <1>1, <1>2, <1>4, <1>5, <1>6 DEF MovesWell

(* A fault is counted, and faults are bounded.                             *)
LEMMA FaultsBounded ==
  ASSUME expFaults \in 0..MaxExpFaults, Fault \/ UNCHANGED expFaults
  PROVE  expFaults' \in 0..MaxExpFaults
<1>1. MaxExpFaults \in Nat
  BY ExperimentsAssumption
<1> QED
  BY <1>1 DEF Fault, MayFail

(* StoreOfRun, for a run whose store stays, or is given back. *)
LEMMA StoreStays ==
  ASSUME NEW r \in Runners, run[r] \in ChunkingRuns, run'[r] \in ChunkingRuns,
         run'[r].at \in {"embed", "upsert 1", "upsert 2"} => store'[r] = "experiment"
  PROVE  StoreOfRun(r)'
<1>1. run'[r].at \in ChunkingPlaces \cup {"save", "write"}
  BY DEF ChunkingRuns
<1>2. run'[r].at \notin SearchPlaces
  BY <1>1 DEF ChunkingPlaces, SearchPlaces
<1> QED
  BY <1>2 DEF StoreOfRun

(* Two facts about numbers that steps with sets need.                      *)
LEMMA Numbers == ~(0 > 0) /\ ~(2 = 1)
OBVIOUS

(* A collection that its run has emptied, or filled to the end. *)
LEMMA EmptyIsOwn ==
  ASSUME NEW r \in Runners, experiment' = {}, run'[r].count = 0,
         run'[r].at \in {"split", "embed", "upsert 1", "query"}
  PROVE  OwnCollection(r)'
<1>1. {} \subseteq Own(run'[r].n)
  OBVIOUS
<1>2. ~(run'[r].count > 0)
  BY Numbers
<1>3. /\ run'[r].at \notin {"create?", "create"}
      /\ run'[r].at # "upsert 2"
  OBVIOUS
<1> QED
  BY <1>1, <1>2, <1>3 DEF OwnCollection

(* A run that asks its questions has its own points before it.             *)
LEMMA QueryingOwn ==
  ASSUME NEW r \in Runners, run'[r].at = "query", experiment' \subseteq Own(run'[r].n),
         run'[r].count = 0 \/ experiment' = Own(run'[r].n)
  PROVE  OwnCollection(r)'
<1>2. run'[r].count = 0 => ~(run'[r].count > 0)
  OBVIOUS
<1>3. /\ run'[r].at \notin {"create?", "create"}
      /\ run'[r].at \notin {"split", "embed", "upsert 1"}
      /\ run'[r].at # "upsert 2"
  OBVIOUS
<1> QED
  BY <1>2, <1>3 DEF OwnCollection

(* The steps of a chunking run up to its measurement move it as they       *)
(* should.                                                                 *)
LEMMA ChunkingStepMoves ==
  ASSUME ExperimentsTyped, \A q \in Runners : RunFacts(q), NEW r \in Runners,
         DeleteCheck(r) \/ Delete(r) \/ CreateCheck(r) \/ Create(r) \/ FailClean(r)
           \/ RedirectAndSplit(r) \/ Embed(r)
  PROVE  /\ MovesWell(r)
         /\ experiment' = Absent \/ experiment' \subseteq Points
         /\ store' \in [Runners -> ExpCollections]
         /\ expFaults' \in 0..MaxExpFaults
<1> USE ExperimentsAssumption
<1>t. /\ run \in [Runners -> RunStates] /\ store \in [Runners -> ExpCollections]
      /\ experiment = Absent \/ experiment \subseteq Points
      /\ expFaults \in 0..MaxExpFaults
  BY DEF ExperimentsTyped
<1>p. run[r].at \in ChunkingPlaces /\ run[r].at # "query"
  BY DEF DeleteCheck, Delete, CreateCheck, Create, FailClean, RedirectAndSplit, Embed, ChunkingPlaces
<1>c. run[r] \in ChunkingRuns /\ run[r].from \in ExpCollections
  <2>1. run[r] \in ChunkingRuns
    BY <1>t, <1>p, RunAt
  <2> QED
    BY <2>1 DEF ChunkingRuns
<1>s. run[r].at \in {"embed", "upsert 1", "upsert 2"} => store[r] = "experiment"
  BY DEF RunFacts, StoreOfRun
<1>z. run[r].count = 0
  BY <1>p DEF RunFacts, NotYetMeasured
<1>0. \A S : {} \subseteq S
  OBVIOUS
(* A step that leaves the stores. *)
<1>g. ASSUME NEW at \in ChunkingPlaces \cup {"save"}, GoesOn(r, at),
             \A q \in Runners \ {r} : store'[q] = store[q],
             at \in {"embed", "upsert 1", "upsert 2"} => store'[r] = "experiment",
             at # "save" /\ run[r].alone /\ OwnCollection(r) => OwnCollection(r)'
      PROVE MovesWell(r)
  <2>1. run'[r] \in ChunkingRuns /\ run'[r].at = at
    BY <1>t, <1>c, <1>g, GoesOnMoves
  <2>2. StoreOfRun(r)'
    BY <1>c, <1>g, <2>1, StoreStays
  <2> QED
    BY <1>t, <1>p, <1>g, <2>2, ChunkingMoves
<1>h. ASSUME NEW at \in ChunkingPlaces, GoesOn(r, at)
      PROVE run'[r].at = at /\ run'[r].n = run[r].n /\ run'[r].count = 0
  BY <1>t, <1>c, <1>z, <1>h, GoesOnMoves DEF SameRun
<1>1. CASE DeleteCheck(r)
  <2>1. PICK at \in {"create?", "delete"} : GoesOn(r, at) /\ (at = "create?" => experiment = Absent)
    BY <1>1 DEF DeleteCheck
  <2>2. at \in ChunkingPlaces
    BY <2>1 DEF ChunkingPlaces
  <2>3. OwnCollection(r)'
    BY <1>1, <1>h, <2>1, <2>2 DEF DeleteCheck, OwnCollection
  <2>4. MovesWell(r)
    BY <1>1, <1>g, <2>1, <2>2, <2>3 DEF DeleteCheck
  <2> QED
    BY <1>1, <1>t, <2>4 DEF DeleteCheck
<1>2. CASE Delete(r)
  <2>1. "create?" \in ChunkingPlaces
    BY DEF ChunkingPlaces
  <2>2. OwnCollection(r)'
    BY <1>2, <1>h, <2>1 DEF Delete, OwnCollection
  <2>3. MovesWell(r)
    BY <1>2, <1>g, <2>1, <2>2 DEF Delete
  <2> QED
    BY <1>2, <1>t, <2>3 DEF Delete
<1>3. CASE CreateCheck(r)
  <2>1. PICK at \in {"create", "split"} : GoesOn(r, at) /\ (at = "split" => experiment # Absent)
    BY <1>3 DEF CreateCheck
  <2>2. at \in ChunkingPlaces
    BY <2>1 DEF ChunkingPlaces
  <2>3. OwnCollection(r) => OwnCollection(r)'
    BY <1>3, <1>h, <2>1, <2>2 DEF CreateCheck, OwnCollection
  <2>4. MovesWell(r)
    BY <1>3, <1>g, <2>1, <2>2, <2>3 DEF CreateCheck
  <2> QED
    BY <1>3, <1>t, <2>4 DEF CreateCheck
<1>4. CASE Create(r)
  <2>1. "split" \in ChunkingPlaces
    BY DEF ChunkingPlaces
  <2>2. OwnCollection(r)'
    BY <1>4, <1>h, <2>1 DEF Create, OwnCollection
  <2>3. MovesWell(r)
    BY <1>4, <1>g, <2>1, <2>2 DEF Create
  <2> QED
    BY <1>4, <1>t, <2>3 DEF Create
<1>5. CASE FailClean(r)
  <2>1. MovesWell(r)
    BY <1>5, <1>g DEF FailClean
  <2>2. expFaults' \in 0..MaxExpFaults
    BY <1>5, <1>t DEF FailClean, Fault, MayFail
  <2> QED
    BY <1>5, <1>t, <2>1, <2>2 DEF FailClean
<1>6. CASE RedirectAndSplit(r)
  <2>1. run[r].splits \in {"error", "none", "some"}
    BY <1>c DEF ChunkingRuns, Splits
  <2>2. PICK at \in {"save", "query", "embed"} :
          GoesOn(r, at) /\ (at = "embed" => run[r].splits = "some")
    BY <1>6, <2>1 DEF RedirectAndSplit
  <2>3. store'[r] \in ExpCollections /\ (at = "embed" => store'[r] = "experiment")
    BY <1>6, <1>t, <1>c, <2>2 DEF RedirectAndSplit, ExpCollections
  <2>4. store' \in [Runners -> ExpCollections] /\ \A q \in Runners \ {r} : store'[q] = store[q]
    BY <1>6, <1>t, <2>3 DEF RedirectAndSplit
  <2>5. at \in ChunkingPlaces \cup {"save"}
    BY <2>2 DEF ChunkingPlaces
  <2>6. at # "save" /\ OwnCollection(r) => OwnCollection(r)'
    <3> SUFFICES ASSUME at # "save", OwnCollection(r) PROVE OwnCollection(r)'
      OBVIOUS
    <3>1. experiment' = {}
      BY <1>6 DEF RedirectAndSplit, OwnCollection
    <3>2. run'[r].at = at /\ run'[r].count = 0
      BY <1>h, <2>2, <2>5
    <3> QED
      BY <2>2, <3>1, <3>2, EmptyIsOwn
  <2>7. MovesWell(r)
    BY <1>g, <2>2, <2>3, <2>4, <2>5, <2>6
  <2> QED
    BY <1>6, <1>t, <2>4, <2>7 DEF RedirectAndSplit
<1>7. CASE Embed(r)
  <2>1. PICK at \in {"upsert 1", "query"} : GoesOn(r, at) /\ (at = "upsert 1" => store' = store)
    BY <1>7 DEF Embed
  <2>2. store' \in [Runners -> ExpCollections] /\ \A q \in Runners \ {r} : store'[q] = store[q]
    BY <1>7, <1>t, <1>c DEF Embed
  <2>3. at \in ChunkingPlaces
    BY <2>1 DEF ChunkingPlaces
  <2>4. OwnCollection(r) => OwnCollection(r)'
    <3> SUFFICES ASSUME OwnCollection(r) PROVE OwnCollection(r)'
      OBVIOUS
    <3>1. experiment' = {}
      BY <1>7 DEF Embed, OwnCollection
    <3>2. run'[r].at = at /\ run'[r].count = 0
      BY <1>h, <2>1, <2>3
    <3> QED
      BY <2>1, <3>1, <3>2, EmptyIsOwn
  <2>5. at = "upsert 1" => store'[r] = "experiment"
    BY <1>7, <1>s, <2>1 DEF Embed
  <2>6. MovesWell(r)
    BY <1>g, <2>1, <2>2, <2>3, <2>4, <2>5
  <2>7. expFaults' \in 0..MaxExpFaults
    <3>1. expFaults' = expFaults \/ Fault
      BY <1>7 DEF Embed
    <3> QED
      BY <1>t, <3>1, FaultsBounded
  <2> QED
    BY <1>7, <1>t, <2>2, <2>6, <2>7 DEF Embed
<1> QED
  BY <1>1, <1>2, <1>3, <1>4, <1>5, <1>6, <1>7
(* A batch goes to the shared collection: the store names it all the while. *)
LEMMA UpsertMoves ==
  ASSUME ExperimentsTyped, \A q \in Runners : RunFacts(q), NEW r \in Runners, UpsertBatch(r)
  PROVE  /\ MovesWell(r)
         /\ experiment' = Absent \/ experiment' \subseteq Points
         /\ store' \in [Runners -> ExpCollections]
         /\ expFaults' \in 0..MaxExpFaults
         /\ production' = production
<1> USE ExperimentsAssumption
<1>0. \A S : {} \subseteq S
  OBVIOUS
<1>t. /\ run \in [Runners -> RunStates] /\ store \in [Runners -> ExpCollections]
      /\ experiment = Absent \/ experiment \subseteq Points
      /\ expFaults \in 0..MaxExpFaults
  BY DEF ExperimentsTyped
<1>p. run[r].at \in {"upsert 1", "upsert 2"} /\ run[r].at \in ChunkingPlaces
  BY DEF UpsertBatch, ChunkingPlaces
<1>c. run[r] \in ChunkingRuns
  BY <1>t, <1>p, RunAt
<1>f. run[r].from \in ExpCollections /\ run[r].n \in 1..MaxRuns
  BY <1>c DEF ChunkingRuns
<1>s. store[r] = "experiment"
  BY <1>p DEF RunFacts, StoreOfRun
<1>z. ~run[r].answered /\ run[r].seen = {} /\ run[r].count = 0
  BY <1>p DEF RunFacts, NotYetMeasured
<1>o. /\ Own(run[r].n) = {<<run[r].n, 1>>, <<run[r].n, 2>>}
      /\ <<run[r].n, 1>> \in Points /\ <<run[r].n, 2>> \in Points
  BY <1>f, OwnPoints
<1>1. CASE GoesOn(r, "query") /\ store' = [store EXCEPT ![r] = run[r].from]
           /\ UNCHANGED <<production, experiment>>
           /\ (Fault \/ UNCHANGED expFaults)
  <2>1. run'[r].at = "query" /\ run'[r].n = run[r].n /\ run'[r].count = 0 /\ run'[r] \in ChunkingRuns
    BY <1>1, <1>t, <1>c, <1>z, GoesOnMoves DEF SameRun, ChunkingPlaces
  <2>2. OwnCollection(r) => OwnCollection(r)'
    <3> SUFFICES ASSUME OwnCollection(r) PROVE OwnCollection(r)'
      OBVIOUS
    <3>1. experiment' = {} \/ experiment' = {<<run[r].n, 1>>}
      BY <1>1, <1>p DEF OwnCollection
    <3>2. experiment' \subseteq Own(run'[r].n)
      BY <1>0, <1>o, <2>1, <3>1
    <3> QED
      BY <2>1, <3>2, QueryingOwn
  <2>3. StoreOfRun(r)'
    BY <1>c, <2>1, StoreStays
  <2>4. \A q \in Runners \ {r} : store'[q] = store[q]
    BY <1>1, <1>t
  <2>5. MovesWell(r)
    BY <1>1, <1>t, <1>p, <2>2, <2>3, <2>4, ChunkingMoves DEF ChunkingPlaces
  <2>6. expFaults' \in 0..MaxExpFaults
    BY <1>1, <1>t DEF Fault, MayFail
  <2>7. store' \in [Runners -> ExpCollections]
    BY <1>1, <1>t, <1>f
  <2> QED
    BY <1>1, <1>t, <2>5, <2>6, <2>7
<1>2. CASE run[r].at = "upsert 1" /\ GoesOn(r, "upsert 2") /\ UNCHANGED <<store, expFaults, production>>
           /\ experiment' = experiment \cup {<<run[r].n, 1>>} /\ experiment # Absent
  <2>1. run'[r].at = "upsert 2" /\ run'[r].n = run[r].n /\ run'[r] \in ChunkingRuns
    BY <1>2, <1>t, <1>c, GoesOnMoves DEF SameRun, ChunkingPlaces
  <2>2. OwnCollection(r) => OwnCollection(r)'
    BY <1>2, <2>1 DEF OwnCollection
  <2>3. StoreOfRun(r)'
    BY <1>2, <1>c, <1>s, <2>1, StoreStays
  <2>4. MovesWell(r)
    BY <1>2, <1>t, <1>p, <2>2, <2>3, ChunkingMoves DEF ChunkingPlaces
  <2>5. experiment' \subseteq Points
    BY <1>2, <1>t, <1>o
  <2> QED
    BY <1>2, <1>t, <2>4, <2>5
<1>3. CASE /\ run[r].at = "upsert 2"
           /\ run' = [run EXCEPT ![r].at = "query", ![r].count = 2]
           /\ store' = [store EXCEPT ![r] = run[r].from] /\ UNCHANGED <<expFaults, production>>
           /\ experiment' = experiment \cup {<<run[r].n, 2>>} /\ experiment # Absent
  <2>1. /\ run' \in [Runners -> RunStates]
        /\ run'[r].at = "query" /\ SameRun(run[r], run'[r]) /\ SameMeasures(run[r], run'[r])
        /\ run'[r] \in ChunkingRuns /\ \A q \in Runners \ {r} : run'[q] = run[q]
    BY <1>3, <1>t, <1>c, IndexedMoves
  <2>2. OwnCollection(r) => OwnCollection(r)'
    <3> SUFFICES ASSUME OwnCollection(r) PROVE OwnCollection(r)'
      OBVIOUS
    <3>1. experiment' = {<<run[r].n, 1>>, <<run[r].n, 2>>}
      BY <1>3 DEF OwnCollection
    <3>2. run'[r].n = run[r].n
      BY <2>1 DEF SameRun
    <3>3. experiment' = Own(run'[r].n)
      BY <1>o, <3>1, <3>2
    <3> QED
      BY <2>1, <3>3 DEF OwnCollection
  <2>3. StoreOfRun(r)'
    BY <1>c, <2>1, StoreStays
  <2>4. Measuring(r) /\ NotYetMeasured(r)' /\ ToBeSaved(r)'
    BY <1>t, <1>p, <1>z, <2>1, MeasuringAt DEF NotYetMeasured, SameMeasures, ToBeSaved
  <2>5. Measuring(r)' /\ run'[r].alone => run[r].alone /\ OwnCollection(r)'
    <3>1. run[r].alone /\ Measuring(r) => OwnCollection(r)
      BY DEF RunFacts, AloneOwns
    <3> QED
      BY <2>1, <2>2, <2>4, <3>1 DEF SameRun
  <2>6. \A q \in Runners \ {r} : store'[q] = store[q]
    BY <1>3, <1>t
  <2>7. MovesWell(r)
    BY <2>1, <2>3, <2>4, <2>5, <2>6 DEF MovesWell
  <2>8. experiment' \subseteq Points
    BY <1>3, <1>t, <1>o
  <2>9. store' \in [Runners -> ExpCollections]
    BY <1>3, <1>t, <1>f
  <2> QED
    BY <1>3, <1>t, <2>7, <2>8, <2>9
<1> QED
  <2>1. IsThere(store[r]) <=> experiment # Absent
    BY <1>s DEF IsThere, Searched
  <2>2. CASE run[r].at = "upsert 1"
    BY <1>1, <1>2, <1>s, <2>1, <2>2 DEF UpsertBatch
  <2>3. CASE run[r].at = "upsert 2"
    <3>1. run[r].at # "upsert 1"
      BY <2>3
    <3>2. \/ /\ experiment # Absent
             /\ experiment' = experiment \cup {<<run[r].n, 2>>} /\ UNCHANGED production
             /\ run' = [run EXCEPT ![r].at = "query", ![r].count = 2]
             /\ store' = [store EXCEPT ![r] = run[r].from] /\ UNCHANGED expFaults
          \/ /\ Fault \/ UNCHANGED expFaults
             /\ GoesOn(r, "query") /\ store' = [store EXCEPT ![r] = run[r].from]
             /\ UNCHANGED <<production, experiment>>
      BY <1>s, <2>1, <2>3, <3>1, Numbers, Zenon DEF UpsertBatch
    <3> QED
      BY <1>1, <1>3, <2>3, <3>2
  <2> QED
    BY <1>p, <2>2, <2>3

(* The queries: of a run that was alone, over its own chunks. *)
LEMMA QueryMoves ==
  ASSUME ExperimentsTyped, \A q \in Runners : RunFacts(q), NEW r \in Runners, Query(r)
  PROVE  MovesWell(r) /\ expFaults' \in 0..MaxExpFaults
<1> USE ExperimentsAssumption
<1>t. /\ run \in [Runners -> RunStates] /\ store \in [Runners -> ExpCollections]
      /\ experiment = Absent \/ experiment \subseteq Points
      /\ expFaults \in 0..MaxExpFaults
  BY DEF ExperimentsTyped
<1>p. run[r].at = "query" /\ run[r].at \in ChunkingPlaces /\ UNCHANGED <<experiment, store>>
  BY DEF Query, ChunkingPlaces
<1>c. run[r] \in ChunkingRuns /\ Measuring(r)
  BY <1>t, <1>p, RunAt, MeasuringAt
<1>1. CASE GoesOn(r, "save") /\ (Fault \/ UNCHANGED expFaults)
  <2>1. run'[r] \in ChunkingRuns /\ run'[r].at = "save"
    BY <1>1, <1>t, <1>c, GoesOnMoves
  <2>2. StoreOfRun(r)'
    BY <1>c, <2>1, StoreStays
  <2>3. MovesWell(r)
    <3>1. "save" \in ChunkingPlaces \cup {"save"} /\ "save" # "query"
      OBVIOUS
    <3>2. \A q \in Runners \ {r} : store'[q] = store[q]
      BY <1>p
    <3> QED
      BY <1>1, <1>t, <1>p, <2>2, <3>1, <3>2, ChunkingMoves
  <2>4. expFaults' \in 0..MaxExpFaults
    BY <1>1, <1>t, FaultsBounded
  <2> QED
    BY <2>3, <2>4
<1>2. CASE /\ experiment # Absent /\ UNCHANGED expFaults
           /\ run' = [run EXCEPT ![r].at = "save", ![r].answered = TRUE, ![r].seen = experiment]
  <2>1. experiment \in Seen
    BY <1>2, <1>t DEF Seen
  <2>2. /\ run' \in [Runners -> RunStates]
        /\ run'[r].at = "save" /\ SameRun(run[r], run'[r]) /\ run'[r].count = run[r].count
        /\ run'[r].seen = experiment /\ run'[r] \in ChunkingRuns
        /\ \A q \in Runners \ {r} : run'[q] = run[q]
    BY <1>2, <1>t, <1>c, <2>1, MeasureMoves
  <2>3. StoreOfRun(r)'
    BY <1>c, <2>2, StoreStays
  <2>4. ToBeSaved(r)'
    <3>1. run'[r].kind = "chunking" /\ run'[r].n = run[r].n /\ run'[r].alone = run[r].alone
      BY <2>2, KindOfRun DEF SameRun
    <3>2. run[r].alone => OwnCollection(r)
      BY <1>c DEF RunFacts, AloneOwns
    <3>3. run[r].alone =>
            /\ experiment \subseteq Own(run[r].n)
            /\ run[r].count > 0 => experiment = Own(run[r].n)
      BY <1>p, <3>2 DEF OwnCollection
    <3> QED
      BY <2>2, <3>1, <3>3 DEF ToBeSaved, MeasuredOwn
  <2>5. NotYetMeasured(r)' /\ ~Measuring(r)'
    BY <2>2 DEF NotYetMeasured, ChunkingPlaces, Measuring
  <2> QED
    BY <1>2, <1>t, <1>p, <2>2, <2>3, <2>4, <2>5 DEF MovesWell
<1> QED
  BY <1>1, <1>2 DEF Query, IsThere, Searched

(* A scoring run sees production, if its store named it from the start. *)
LEMMA ScoringStepMoves ==
  ASSUME ExperimentsTyped, production = {Original}, \A q \in Runners : RunFacts(q),
         NEW r \in Runners, WarmUp(r) \/ SearchBegins(r) \/ SearchReturns(r),
         UNCHANGED <<experiment, store>>
  PROVE  /\ MovesWell(r) /\ expFaults' \in 0..MaxExpFaults
         /\ weights' \in [Runners -> {"default", "variant"}]
<1> USE ExperimentsAssumption
<1>t. /\ run \in [Runners -> RunStates] /\ store \in [Runners -> ExpCollections]
      /\ weights \in [Runners -> {"default", "variant"}]
      /\ expFaults \in 0..MaxExpFaults
  BY DEF ExperimentsTyped
<1>x. experiment = Absent \/ experiment \subseteq Points
  BY DEF ExperimentsTyped
<1>p. run[r].at \in {"warm up", "search", "answer"}
  BY DEF WarmUp, SearchBegins, SearchReturns
<1>c. run[r] \in ScoringRuns /\ run[r].kind = "scoring"
  BY <1>t, <1>p, RunAt, KindOfRun
<1>s. run[r].alone => store[r] = "production"
  BY <1>p DEF RunFacts, StoreOfRun, SearchPlaces
<1>w. weights' \in [Runners -> {"default", "variant"}] /\ expFaults' \in 0..MaxExpFaults
  <2>1. weights' \in [Runners -> {"default", "variant"}]
    BY <1>t DEF WarmUp, SearchBegins, SearchReturns
  <2>2. expFaults' = expFaults \/ Fault
    BY DEF WarmUp, SearchBegins, SearchReturns
  <2> QED
    BY <1>t, <2>1, <2>2 DEF Fault, MayFail
<1>1. CASE Ends(r)
  <2>1. /\ run' \in [Runners -> RunStates] /\ run'[r].at = "ended"
        /\ \A q \in Runners \ {r} : run'[q] = run[q]
    BY <1>1, <1>t, EndsMoves
  <2>2. /\ StoreOfRun(r)' /\ NotYetMeasured(r)' /\ ToBeSaved(r)' /\ ~Measuring(r)'
    BY <2>1 DEF StoreOfRun, NotYetMeasured, ToBeSaved, Measuring, ChunkingPlaces, SearchPlaces
  <2> QED
    BY <1>w, <2>1, <2>2 DEF MovesWell
<1>2. CASE \E at \in {"search", "answer"} : GoesOn(r, at)
  <2>1. PICK at \in {"search", "answer"} : GoesOn(r, at)
    BY <1>2
  <2>2. /\ run' \in [Runners -> RunStates] /\ run'[r].at = at /\ SameRun(run[r], run'[r])
        /\ \A q \in Runners \ {r} : run'[q] = run[q]
    BY <1>t, <1>c, <2>1, GoesOnMoves
  <2>3. /\ StoreOfRun(r)' /\ NotYetMeasured(r)' /\ ToBeSaved(r)' /\ ~Measuring(r)'
    BY <1>c, <1>s, <2>1, <2>2 DEF StoreOfRun, NotYetMeasured, ToBeSaved, Measuring,
      ChunkingPlaces, SameRun
  <2> QED
    BY <1>w, <2>2, <2>3 DEF MovesWell
<1>3. CASE /\ run' = [run EXCEPT ![r].at = "save", ![r].answered = TRUE, ![r].seen = Searched(store[r])]
           /\ IsThere(store[r])
  <2>1. /\ Searched(store[r]) \in Seen
        /\ run[r].alone => Searched(store[r]) = {Original}
    <3>1. Searched(store[r]) = {Original} \/ (Searched(store[r]) = experiment /\ ~run[r].alone)
      BY <1>s DEF Searched
    <3>2. Searched(store[r]) # Absent
      BY <1>3 DEF IsThere
    <3>3. {Original} \in Seen /\ (experiment \subseteq Points => experiment \in Seen)
      BY DEF Seen
    <3> QED
      BY <1>x, <3>1, <3>2, <3>3
  <2>2. /\ run' \in [Runners -> RunStates]
        /\ run'[r].at = "save" /\ SameRun(run[r], run'[r]) /\ run'[r].seen = Searched(store[r])
        /\ \A q \in Runners \ {r} : run'[q] = run[q]
    BY <1>3, <1>t, <1>c, <2>1, MeasureMoves
  <2>3. /\ StoreOfRun(r)' /\ NotYetMeasured(r)' /\ ToBeSaved(r)' /\ ~Measuring(r)'
    BY <1>c, <2>1, <2>2 DEF StoreOfRun, NotYetMeasured, ToBeSaved, MeasuredOwn, Measuring,
      ChunkingPlaces, SearchPlaces, SameRun
  <2> QED
    BY <1>w, <2>2, <2>3 DEF MovesWell
<1> QED
  BY <1>1, <1>2, <1>3 DEF WarmUp, SearchBegins, SearchReturns

(* A runner begins to index: the runs it overlaps are alone no longer. *)
LEMMA BeginChunkingMoves ==
  ASSUME ExperimentsTyped, \A q \in Runners : RunFacts(q), NEW r \in Runners, NEW id \in RunIds,
         NEW splits \in Splits, NEW more \in BOOLEAN, BeginChunking(r, id, splits, more)
  PROVE  run' \in [Runners -> RunStates] /\ begun' \in 0..MaxRuns /\ \A q \in Runners : RunFacts(q)'
<1> DEFINE others == {q \in Runners \ {r} : Measuring(q)}
           new == [at |-> "delete?", kind |-> "chunking", n |-> begun + 1, id |-> id,
                   splits |-> splits, more |-> more, from |-> store[r],
                   alone |-> others = {}, answered |-> FALSE, count |-> 0, seen |-> {}]
<1>t. /\ run \in [Runners -> RunStates] /\ store \in [Runners -> ExpCollections]
      /\ begun \in 0..MaxRuns
  BY DEF ExperimentsTyped
<1>1. run' = [q \in Runners |-> IF q = r THEN new ELSE IF q \in others
                                THEN [run[q] EXCEPT !.alone = FALSE] ELSE run[q]]
  BY DEF BeginChunking
<1>2. begun + 1 \in 1..MaxRuns /\ begun' \in 0..MaxRuns
  <2>1. MaxRuns \in Nat
    BY ExperimentsAssumption
  <2>2. begun < MaxRuns /\ begun' = begun + 1
    BY DEF BeginChunking, MayBegin
  <2> QED
    BY <1>t, <2>1, <2>2
<1>3. new \in ChunkingRuns
  <2>1. {} \in Seen /\ 0 \in 0..2 /\ (others = {}) \in BOOLEAN
    BY DEF Seen
  <2>2. "delete?" \in ChunkingPlaces \cup {"save", "write"}
    BY DEF ChunkingPlaces
  <2> HIDE DEF others
  <2> QED
    BY <1>t, <1>2, <2>1, <2>2 DEF ChunkingRuns
<1>4. /\ run'[r] = new /\ \A q \in others : run'[q] = [run[q] EXCEPT !.alone = FALSE]
      /\ \A q \in Runners \ {r} : q \notin others => run'[q] = run[q]
      /\ store' = store /\ experiment' = experiment
  BY <1>1 DEF BeginChunking
<1>5. ASSUME NEW q \in others
      PROVE  /\ run[q] \in ChunkingRuns /\ run'[q] \in ChunkingRuns /\ run'[q].at = run[q].at
             /\ run[q].at \in ChunkingPlaces
             /\ run'[q].n = run[q].n /\ run'[q].kind = run[q].kind /\ ~run'[q].alone
             /\ run'[q].answered = run[q].answered /\ run'[q].seen = run[q].seen
             /\ run'[q].count = run[q].count
  <2>1. run[q] \in ChunkingRuns /\ run[q].at \in ChunkingPlaces
    BY <1>t, MeasuringAt
  <2>2. run'[q] = [run[q] EXCEPT !.alone = FALSE] /\ run'[q] \in ChunkingRuns
    BY <1>4, <2>1, RunRows
  <2> QED
    BY <2>1, <2>2 DEF ChunkingRuns
<1>6. run' \in [Runners -> RunStates]
  <2>1. \A q \in Runners : run'[q] \in RunStates
    <3> TAKE q \in Runners
    <3>1. CASE q = r
      BY <1>3, <1>4, <3>1 DEF RunStates
    <3>2. CASE q \in others
      BY <1>5, <3>2 DEF RunStates
    <3>3. CASE q # r /\ q \notin others
      BY <1>t, <1>4, <3>3
    <3> QED
      BY <3>1, <3>2, <3>3
  <2>2. run' = [q \in Runners |-> run'[q]]
    BY <1>1
  <2> QED
    BY <2>1, <2>2
<1>7. RunFacts(r)'
  <2>1. /\ run'[r].at = "delete?" /\ run'[r].n = begun + 1 /\ run'[r].kind = "chunking"
        /\ ~run'[r].answered /\ run'[r].seen = {} /\ run'[r].count = 0
        /\ run'[r].alone = (others = {})
    BY <1>4
  <2>2. StoreOfRun(r)'
    BY <2>1 DEF StoreOfRun, SearchPlaces
  <2>3. NotYetMeasured(r)' /\ ToBeSaved(r)'
    BY <2>1 DEF NotYetMeasured, ToBeSaved
  <2>4. OwnCollection(r)'
    BY <2>1 DEF OwnCollection
  <2>5. run'[r].alone => \A q \in Runners \ {r} : ~Measuring(q)'
    <3> SUFFICES ASSUME others = {}, NEW q \in Runners \ {r} PROVE ~Measuring(q)'
      BY <2>1
    <3>1. run'[q] = run[q] /\ ~Measuring(q)
      BY <1>4
    <3> QED
      BY <3>1 DEF Measuring
  <2> QED
    BY <2>2, <2>3, <2>4, <2>5 DEF RunFacts, AloneOwns
<1>8. ASSUME NEW q \in others PROVE RunFacts(q)'
  <2>1. StoreOfRun(q)' /\ NotYetMeasured(q)'
    <3>1. StoreOfRun(q) /\ NotYetMeasured(q) /\ q \in Runners
      BY DEF RunFacts
    <3>2. store'[q] = store[q]
      BY <1>4
    <3>3. StoreOfRun(q)'
      BY <1>5, <3>1, <3>2 DEF StoreOfRun, SearchPlaces
    <3>4. NotYetMeasured(q)'
      BY <1>5, <3>1 DEF NotYetMeasured
    <3> QED
      BY <3>3, <3>4
  <2>2. ToBeSaved(q)'
    BY <1>5 DEF ToBeSaved, ChunkingPlaces
  <2>3. AloneOwns(q)'
    BY <1>5 DEF AloneOwns
  <2> QED
    BY <2>1, <2>2, <2>3 DEF RunFacts
<1>9. ASSUME NEW q \in Runners \ {r}, q \notin others PROVE RunFacts(q)'
  <2>1. run'[q] = run[q] /\ store' = store /\ ~Measuring(q)
    BY <1>4, <1>9
  <2>2. StoreOfRun(q)' /\ NotYetMeasured(q)' /\ ToBeSaved(q)'
    BY <2>1 DEF RunFacts, StoreOfRun, NotYetMeasured, ToBeSaved
  <2>3. AloneOwns(q)'
    BY <2>1 DEF AloneOwns, Measuring
  <2> QED
    BY <2>2, <2>3 DEF RunFacts
<1> HIDE DEF others, new
<1> QED
  BY <1>2, <1>6, <1>7, <1>8, <1>9

(* A runner that does not index, or no more. *)
LEMMA NotIndexing ==
  ASSUME NEW r \in Runners, run' \in [Runners -> RunStates],
         \A q \in Runners \ {r} : run'[q] = run[q], UNCHANGED <<experiment, store>>,
         run'[r].at \notin ChunkingPlaces, StoreOfRun(r)', ToBeSaved(r)'
  PROVE  MovesWell(r)
<1>1. ~Measuring(r)' /\ NotYetMeasured(r)'
  <2>1. ~Measuring(r)'
    <3>1. run'[r] \in RunStates
      OBVIOUS
    <3>2. run'[r] \in ChunkingRuns => run'[r].at \in {"save", "write"}
      BY DEF ChunkingRuns
    <3>3. run'[r] \in ScoringRuns => run'[r].kind = "scoring"
      BY KindOfRun
    <3>4. run'[r].at \in {"idle", "save", "write", "ended"} \/ run'[r].kind = "scoring"
      BY <3>1, <3>2, <3>3, RunAt
    <3> QED
      BY <3>4 DEF Measuring
  <2> QED
    BY <2>1 DEF NotYetMeasured
<1> QED
  BY <1>1 DEF MovesWell

(* A scoring run begins.                                                   *)
LEMMA BeginScoringMoves ==
  ASSUME ExperimentsTyped, \A q \in Runners : RunFacts(q), NEW r \in Runners, NEW id \in RunIds,
         NEW variant \in Variants, NEW more \in BOOLEAN, BeginScoring(r, id, variant, more)
  PROVE  MovesWell(r) /\ begun' \in 0..MaxRuns
<1> DEFINE at == IF variant = "reranked" THEN "warm up" ELSE "search"
           new == [at |-> at, kind |-> "scoring",
                   n |-> begun + 1, id |-> id, variant |-> variant, more |-> more,
                   alone |-> store[r] = "production", answered |-> FALSE, count |-> 0,
                   seen |-> {}]
<1>t. /\ run \in [Runners -> RunStates] /\ store \in [Runners -> ExpCollections]
      /\ begun \in 0..MaxRuns
  BY DEF ExperimentsTyped
<1>1. run' = [run EXCEPT ![r] = new]
  BY DEF BeginScoring
<1>2. begun + 1 \in 1..MaxRuns /\ begun' \in 0..MaxRuns
  <2>1. MaxRuns \in Nat
    BY ExperimentsAssumption
  <2>2. begun < MaxRuns /\ begun' = begun + 1
    BY DEF BeginScoring, MayBegin
  <2> QED
    BY <1>t, <2>1, <2>2
<1>3. at \in {"warm up", "search"}
  OBVIOUS
<1>4. new \in ScoringRuns
  <2>1. {} \in Seen /\ 0 \in 0..2 /\ (store[r] = "production") \in BOOLEAN
    BY DEF Seen
  <2> HIDE DEF at
  <2> QED
    BY <1>2, <1>3, <2>1 DEF ScoringRuns
<1>5. /\ run'[r] = new /\ \A q \in Runners \ {r} : run'[q] = run[q]
      /\ UNCHANGED <<experiment, store>>
  BY <1>1, <1>t DEF BeginScoring
<1>6. run' \in [Runners -> RunStates]
  BY <1>1, <1>4, <1>t DEF RunStates
<1>7. run'[r].at \in {"warm up", "search"}
  <2> HIDE DEF at
  <2>1. new.at = at
    OBVIOUS
  <2> QED
    BY <1>3, <1>5, <2>1
<1>8. run'[r].alone => store'[r] = "production"
  <2> HIDE DEF at
  <2>1. new.alone => store[r] = "production"
    OBVIOUS
  <2> HIDE DEF new
  <2> QED
    BY <1>5, <2>1
<1>9. StoreOfRun(r)' /\ ToBeSaved(r)' /\ run'[r].at \notin ChunkingPlaces
  BY <1>7, <1>8 DEF StoreOfRun, ToBeSaved, ChunkingPlaces, SearchPlaces
<1> HIDE DEF at, new
<1> QED
  BY <1>2, <1>5, <1>6, <1>9, NotIndexing

(* What a run measured is written as it is. *)
LEMMA SavingMoves ==
  ASSUME ExperimentsTyped, \A q \in Runners : RunFacts(q), MeasuresItsOwnCollection,
         NEW r \in Runners, SavingStep(r)
  PROVE  /\ MovesWell(r) /\ expFaults' \in 0..MaxExpFaults
         /\ saved' \in [RunIds -> Results \cup {NoFile, Torn}]
         /\ MeasuresItsOwnCollection'
<1>t. /\ run \in [Runners -> RunStates] /\ store \in [Runners -> ExpCollections]
      /\ saved \in [RunIds -> Results \cup {NoFile, Torn}]
      /\ expFaults \in 0..MaxExpFaults
  BY DEF ExperimentsTyped
<1>u. UNCHANGED <<production, experiment, store, weights, begun>>
  BY DEF SavingStep
<1>e. Ends(r) => MovesWell(r)
  <2> SUFFICES ASSUME Ends(r) PROVE MovesWell(r)
    OBVIOUS
  <2>1. /\ run' \in [Runners -> RunStates] /\ run'[r].at = "ended"
        /\ \A q \in Runners \ {r} : run'[q] = run[q]
    BY <1>t, EndsMoves
  <2>2. StoreOfRun(r)' /\ ToBeSaved(r)' /\ run'[r].at \notin ChunkingPlaces
    BY <2>1 DEF StoreOfRun, ToBeSaved, ChunkingPlaces, SearchPlaces
  <2> QED
    BY <1>u, <2>1, <2>2, NotIndexing
<1>s. run[r].at \in {"save", "write"} =>
        /\ run[r] \in ChunkingRuns \cup ScoringRuns /\ run[r].id \in RunIds
        /\ run[r].n \in 1..MaxRuns /\ run[r].kind \in {"chunking", "scoring"}
        /\ run[r].alone \in BOOLEAN /\ run[r].answered \in BOOLEAN
        /\ run[r].count \in 0..2 /\ run[r].seen \in Seen
        /\ MeasuredOwn(run[r], run[r].n)
  <2> SUFFICES ASSUME run[r].at \in {"save", "write"}
      PROVE /\ run[r] \in ChunkingRuns \cup ScoringRuns /\ run[r].id \in RunIds
            /\ run[r].n \in 1..MaxRuns /\ run[r].kind \in {"chunking", "scoring"}
            /\ run[r].alone \in BOOLEAN /\ run[r].answered \in BOOLEAN
            /\ run[r].count \in 0..2 /\ run[r].seen \in Seen
            /\ MeasuredOwn(run[r], run[r].n)
    OBVIOUS
  <2>1. run[r] \in ChunkingRuns \cup ScoringRuns
    BY <1>t, RunAt
  <2>2. MeasuredOwn(run[r], run[r].n)
    BY DEF RunFacts, ToBeSaved
  <2>3. CASE run[r] \in ChunkingRuns
    BY <2>1, <2>2, <2>3 DEF ChunkingRuns
  <2>4. CASE run[r] \in ScoringRuns
    BY <2>1, <2>2, <2>4 DEF ScoringRuns
  <2> QED
    BY <2>1, <2>3, <2>4
<1>1. CASE OpenFile(r)
  <2>1. run[r].at = "save" /\ saved' = [saved EXCEPT ![run[r].id] = Torn] /\ GoesOn(r, "write")
        /\ expFaults' = expFaults
    BY <1>1 DEF OpenFile
  <2>2. /\ run' \in [Runners -> RunStates] /\ run'[r].at = "write" /\ SameRun(run[r], run'[r])
        /\ SameMeasures(run[r], run'[r]) /\ run'[r].count = run[r].count
        /\ \A q \in Runners \ {r} : run'[q] = run[q]
    BY <1>t, <1>s, <2>1, GoesOnMoves
  <2>3. StoreOfRun(r)' /\ run'[r].at \notin ChunkingPlaces
    BY <2>2 DEF StoreOfRun, ChunkingPlaces, SearchPlaces
  <2>4. ToBeSaved(r)'
    BY <1>s, <2>1, <2>2 DEF ToBeSaved, MeasuredOwn, SameRun, SameMeasures
  <2>5. MovesWell(r)
    BY <1>u, <2>2, <2>3, <2>4, NotIndexing
  <2>6. saved' \in [RunIds -> Results \cup {NoFile, Torn}]
    BY <1>t, <2>1
  <2>7. MeasuresItsOwnCollection'
    <3> SUFFICES ASSUME NEW i \in RunIds, saved'[i] \notin {NoFile, Torn}
                 PROVE  MeasuredOwn(saved'[i], saved'[i].of)
      BY DEF MeasuresItsOwnCollection, MeasuredOwn
    <3>1. saved'[i] = saved[i]
      BY <1>t, <2>1
    <3> QED
      BY <3>1 DEF MeasuresItsOwnCollection, MeasuredOwn
  <2> QED
    BY <1>t, <2>1, <2>5, <2>6, <2>7
<1>2. CASE Write(r)
  <2> DEFINE result == [kind |-> run[r].kind, of |-> run[r].n, alone |-> run[r].alone,
                        answered |-> run[r].answered, count |-> run[r].count, seen |-> run[r].seen]
  <2>1. run[r].at = "write" /\ saved' = [saved EXCEPT ![run[r].id] = result] /\ expFaults' = expFaults
    BY <1>2 DEF Write
  <2>2. result \in Results /\ MeasuredOwn(result, result.of)
    <3>1. result \in Results
      BY <1>s, <2>1 DEF Results, Seen
    <3>2. MeasuredOwn(result, result.of)
      BY <1>s, <2>1 DEF MeasuredOwn
    <3> QED
      BY <3>1, <3>2
  <2> HIDE DEF result
  <2>3. saved' \in [RunIds -> Results \cup {NoFile, Torn}]
    BY <1>t, <2>1, <2>2
  <2>4. MeasuresItsOwnCollection'
    <3> SUFFICES ASSUME NEW i \in RunIds, saved'[i] \notin {NoFile, Torn}
                 PROVE  MeasuredOwn(saved'[i], saved'[i].of)
      BY DEF MeasuresItsOwnCollection, MeasuredOwn
    <3>1. CASE i = run[r].id
      BY <1>t, <2>1, <2>2, <3>1
    <3>2. CASE i # run[r].id
      <4>1. saved'[i] = saved[i]
        BY <1>t, <2>1, <3>2
      <4> QED
        BY <4>1 DEF MeasuresItsOwnCollection, MeasuredOwn
    <3> QED
      BY <3>1, <3>2
  <2>5. CASE run' = [run EXCEPT ![r] = [at |-> "idle", n |-> 0]]
    <3> DEFINE pause == [at |-> "idle", n |-> 0]
    <3>1. pause \in RunStates /\ pause.at = "idle"
      BY DEF RunStates, Outside
    <3>2. run' = [run EXCEPT ![r] = pause]
      BY <2>5
    <3> HIDE DEF pause
    <3>3. /\ run' \in [Runners -> RunStates] /\ run'[r] = pause
          /\ \A q \in Runners \ {r} : run'[q] = run[q]
      BY <1>t, <3>1, <3>2
    <3>4. StoreOfRun(r)' /\ ToBeSaved(r)' /\ run'[r].at \notin ChunkingPlaces
      BY <3>1, <3>3 DEF StoreOfRun, ToBeSaved, ChunkingPlaces, SearchPlaces
    <3> QED
      BY <1>t, <1>u, <2>1, <2>3, <2>4, <3>3, <3>4, NotIndexing
  <2>6. CASE Ends(r)
    BY <1>t, <1>e, <2>1, <2>3, <2>4, <2>6
  <2> QED
    BY <1>2, <2>5, <2>6 DEF Write
<1>3. CASE RunnerDies(r)
  <2>1. Fault /\ Ends(r) /\ saved' = saved
    BY <1>3 DEF RunnerDies
  <2>2. MeasuresItsOwnCollection'
    BY <2>1 DEF MeasuresItsOwnCollection
  <2>3. expFaults' \in 0..MaxExpFaults
    BY <1>t, <2>1, FaultsBounded
  <2> QED
    BY <1>t, <1>e, <2>1, <2>2, <2>3
<1> QED
  BY <1>1, <1>2, <1>3 DEF SavingStep

(* Every step keeps the invariant.                                         *)
LEMMA ExperimentsStepInv == ExperimentsInv /\ ExperimentsStep => ExperimentsInv'
<1> SUFFICES ASSUME ExperimentsInv, ExperimentsStep PROVE ExperimentsInv'
  OBVIOUS
<1>i. /\ ExperimentsTyped /\ production = {Original} /\ MeasuresItsOwnCollection
      /\ \A r \in Runners : RunFacts(r)
  BY DEF ExperimentsInv, RunFacts
<1>t. /\ run \in [Runners -> RunStates] /\ store \in [Runners -> ExpCollections]
      /\ saved \in [RunIds -> Results \cup {NoFile, Torn}]
      /\ weights \in [Runners -> {"default", "variant"}]
      /\ experiment = Absent \/ experiment \subseteq Points
      /\ begun \in 0..MaxRuns /\ expFaults \in 0..MaxExpFaults
  BY <1>i DEF ExperimentsTyped
<1> DEFINE Facts == \A r \in Runners : RunFacts(r)
<1>f. Facts' /\ ExperimentsTyped' /\ production' = {Original} /\ MeasuresItsOwnCollection'
      => ExperimentsInv'
  BY DEF ExperimentsInv, RunFacts
<1>m. saved' = saved => MeasuresItsOwnCollection'
  BY <1>i DEF MeasuresItsOwnCollection
<1>1. ASSUME NEW r \in Runners, NEW id \in RunIds, NEW more \in BOOLEAN, NEW splits \in Splits,
             BeginChunking(r, id, splits, more)
      PROVE ExperimentsInv'
  <2>1. run' \in [Runners -> RunStates] /\ begun' \in 0..MaxRuns /\ Facts'
    BY <1>1, <1>i, BeginChunkingMoves
  <2>2. UNCHANGED <<production, experiment, store, weights, saved, expFaults>>
    BY <1>1 DEF BeginChunking
  <2> HIDE DEF Facts
  <2>3. ExperimentsTyped'
    BY <1>t, <2>1, <2>2 DEF ExperimentsTyped
  <2> QED
    BY <1>i, <1>f, <1>m, <2>1, <2>2, <2>3
<1>2. ASSUME NEW r \in Runners, NEW id \in RunIds, NEW more \in BOOLEAN, NEW variant \in Variants,
             BeginScoring(r, id, variant, more)
      PROVE ExperimentsInv'
  <2>1. MovesWell(r) /\ begun' \in 0..MaxRuns
    BY <1>2, <1>i, BeginScoringMoves
  <2>2. UNCHANGED <<production, experiment, store, weights, saved, expFaults>>
    BY <1>2 DEF BeginScoring
  <2>3. Facts'
    BY <1>i, <2>1, OneRunMoves
  <2> HIDE DEF Facts
  <2>4. ExperimentsTyped'
    BY <1>t, <2>1, <2>2 DEF ExperimentsTyped, MovesWell
  <2> QED
    BY <1>i, <1>f, <1>m, <2>2, <2>3, <2>4
<1>3. ASSUME NEW r \in Runners, ChunkingStep(r) PROVE ExperimentsInv'
  <2>1. UNCHANGED <<production, weights, saved, begun>>
    BY <1>3 DEF ChunkingStep
  <2>2. CASE Query(r)
    <3>1. MovesWell(r) /\ expFaults' \in 0..MaxExpFaults /\ UNCHANGED <<experiment, store>>
      BY <1>i, <2>2, QueryMoves DEF Query
    <3>2. Facts'
      BY <1>i, <3>1, OneRunMoves
    <3> HIDE DEF Facts
    <3>3. ExperimentsTyped'
      BY <1>t, <2>1, <3>1 DEF ExperimentsTyped, MovesWell
    <3> QED
      BY <1>i, <1>f, <1>m, <2>1, <3>2, <3>3
  <2>3. CASE ~Query(r)
    <3>1. /\ MovesWell(r)
          /\ experiment' = Absent \/ experiment' \subseteq Points
          /\ store' \in [Runners -> ExpCollections] /\ expFaults' \in 0..MaxExpFaults
      BY <1>3, <1>i, <2>3, ChunkingStepMoves DEF ChunkingStep
    <3>2. Facts'
      BY <1>i, <3>1, OneRunMoves
    <3> HIDE DEF Facts
    <3>3. ExperimentsTyped'
      BY <1>t, <2>1, <3>1 DEF ExperimentsTyped, MovesWell
    <3> QED
      BY <1>i, <1>f, <1>m, <2>1, <3>2, <3>3
  <2> QED
    BY <2>2, <2>3
<1>4. ASSUME NEW r \in Runners, UpsertBatch(r), UNCHANGED <<weights, saved, begun>>
      PROVE ExperimentsInv'
  <2>1. /\ MovesWell(r)
        /\ experiment' = Absent \/ experiment' \subseteq Points
        /\ store' \in [Runners -> ExpCollections] /\ expFaults' \in 0..MaxExpFaults
        /\ production' = production
    BY <1>4, <1>i, UpsertMoves
  <2>2. Facts'
    BY <1>i, <2>1, OneRunMoves
  <2> HIDE DEF Facts
  <2>3. ExperimentsTyped'
    BY <1>4, <1>t, <2>1 DEF ExperimentsTyped, MovesWell
  <2> QED
    BY <1>4, <1>i, <1>f, <1>m, <2>1, <2>2, <2>3
<1>5. ASSUME NEW r \in Runners, ScoringStep(r) PROVE ExperimentsInv'
  <2>1. UNCHANGED <<production, experiment, store, saved, begun>>
    BY <1>5 DEF ScoringStep
  <2>2. /\ MovesWell(r) /\ expFaults' \in 0..MaxExpFaults
        /\ weights' \in [Runners -> {"default", "variant"}]
    BY <1>5, <1>i, <2>1, ScoringStepMoves DEF ScoringStep
  <2>3. Facts'
    BY <1>i, <2>2, OneRunMoves
  <2> HIDE DEF Facts
  <2>4. ExperimentsTyped'
    BY <1>t, <2>1, <2>2 DEF ExperimentsTyped, MovesWell
  <2> QED
    BY <1>i, <1>f, <1>m, <2>1, <2>3, <2>4
<1>6. ASSUME NEW r \in Runners, SavingStep(r) PROVE ExperimentsInv'
  <2>1. UNCHANGED <<production, experiment, store, weights, begun>>
    BY <1>6 DEF SavingStep
  <2>2. /\ MovesWell(r) /\ expFaults' \in 0..MaxExpFaults
        /\ saved' \in [RunIds -> Results \cup {NoFile, Torn}] /\ MeasuresItsOwnCollection'
    BY <1>6, <1>i, SavingMoves
  <2>3. Facts'
    BY <1>i, <2>2, OneRunMoves
  <2> HIDE DEF Facts
  <2>4. ExperimentsTyped'
    BY <1>t, <2>1, <2>2 DEF ExperimentsTyped, MovesWell
  <2> QED
    BY <1>i, <1>f, <2>1, <2>2, <2>3, <2>4
<1>7. CASE UNCHANGED experimentVars
  <2>1. UNCHANGED <<production, experiment, store, weights, run, saved, begun, expFaults>>
    BY <1>7 DEF experimentVars
  <2>2. ExperimentsTyped'
    BY <1>t, <2>1 DEF ExperimentsTyped
  <2>3. Facts'
    BY <1>i, <2>1 DEF RunFacts, StoreOfRun, AloneOwns, NotYetMeasured, ToBeSaved, Measuring,
      OwnCollection, SearchPlaces
  <2> HIDE DEF Facts
  <2> QED
    BY <1>i, <1>f, <1>m, <2>1, <2>2, <2>3
<1> QED
  BY <1>1, <1>2, <1>3, <1>4, <1>5, <1>6, <1>7 DEF ExperimentsStep, ExperimentsNext

(* Whatever the runners do, the shared collection is what the only run of  *)
(* the moment has made of it, and no run writes to production.             *)
THEOREM ExperimentsInvariant == ExperimentsSpec => []ExperimentsInv
<1>1. ExperimentsInv /\ [ExperimentsNext]_experimentVars => ExperimentsInv'
  BY ExperimentsStepInv DEF ExperimentsStep
<1> QED
  BY <1>1, ExperimentsInitInv, PTL DEF ExperimentsSpec

(* What a result file says was measured is what its run is about: a        *)
(* scoring run whose store named production when it began saw production   *)
(* alone, a chunking run that no other overlapped its own chunks alone.    *)
THEOREM RunsMeasureTheirOwn == ExperimentsSpec => []MeasuresItsOwnCollection
<1>1. ExperimentsInv => MeasuresItsOwnCollection
  BY DEF ExperimentsInv
<1> QED
  BY <1>1, ExperimentsInvariant, PTL

-----------------------------------------------------------------------------
(***************************************************************************)
(* Natural numbers: the least of a set, the largest of a bounded one.      *)
(***************************************************************************)
Below == {pair \in Nat \X Nat : pair[1] < pair[2]}

(* A set of numbers that is not empty has a least one.                     *)
LEMMA LeastNatural ==
  ASSUME NEW S \in SUBSET Nat, S # {}
  PROVE  \E n \in S : \A m \in S : n <= m
<1>1. IsWellFoundedOn(Below, Nat)
  BY NatLessThanWellFounded DEF OpToRel, Below
<1>2. PICK n \in S : \A m \in S : ~(<<m, n>> \in Below)
  BY <1>1, WFMin
<1>3. ASSUME NEW m \in S PROVE n <= m
  <2>1. ~(<<m, n>> \in Below) /\ m \in Nat /\ n \in Nat
    BY <1>2
  <2>2. m < n => <<m, n>> \in Below
    BY <2>1 DEF Below
  <2> QED
    BY <2>1, <2>2
<1> QED
  BY <1>3

(* One that is bounded has a largest one, and Max returns it.              *)
LEMMA LargestNatural ==
  ASSUME NEW S \in SUBSET Nat, S # {}, NEW bound \in Nat, \A n \in S : n <= bound
  PROVE  Max(S) \in S /\ \A n \in S : n <= Max(S)
<1> DEFINE rest == {bound - n : n \in S}
<1>1. rest \in SUBSET Nat /\ rest # {}
  <2>1. ASSUME NEW n \in S PROVE bound - n \in Nat
    <3>1. n \in Nat /\ n <= bound
      OBVIOUS
    <3> QED
      BY <3>1
  <2> QED
    BY <2>1
<1>2. PICK least \in rest : \A o \in rest : least <= o
  BY <1>1, LeastNatural
<1>3. PICK n \in S : least = bound - n
  BY <1>2
<1>4. ASSUME NEW m \in S PROVE n >= m
  <2>1. least <= bound - m
    BY <1>2
  <2>2. n \in Nat /\ m \in Nat
    OBVIOUS
  <2> QED
    BY <1>3, <2>1, <2>2
<1>5. Max(S) \in S /\ \A m \in S : Max(S) >= m
  BY <1>4 DEF Max
<1>6. Max(S) \in Nat
  BY <1>5
<1> QED
  BY <1>5, <1>6

(* A finite set of natural numbers has a bound: of its subsets without     *)
(* one, a smallest would have an element too many.                         *)
LEMMA FinitelyBounded ==
  ASSUME NEW S \in SUBSET Nat, IsFiniteSet(S)
  PROVE  \E bound \in Nat : \A n \in S : n <= bound
<1> DEFINE Bounded(T) == \E bound \in Nat : \A n \in T : n <= bound
           unbounded  == {T \in FiniteSubsetsOf(S) : ~Bounded(T)}
<1>1. SUFFICES unbounded = {}
  BY <1>1 DEF FiniteSubsetsOf
<1>2. SUFFICES ASSUME unbounded # {} PROVE FALSE
  OBVIOUS
<1>3. PICK T \in unbounded : \A U \in unbounded : <<U, T>> \notin StrictSubsetOrdering(S)
  <2>1. unbounded \subseteq FiniteSubsetsOf(S)
    OBVIOUS
  <2>2. IsWellFoundedOn(StrictSubsetOrdering(S), FiniteSubsetsOf(S))
    BY FS_StrictSubsetOrderingWellFounded
  <2> HIDE DEF unbounded
  <2> QED
    BY <1>2, <2>1, <2>2, WFMin
<1>4. T \in SUBSET S /\ IsFiniteSet(T) /\ ~Bounded(T)
  BY DEF FiniteSubsetsOf
<1>5. T # {}
  <2> SUFFICES ASSUME T = {} PROVE FALSE
    OBVIOUS
  <2>1. \A n \in T : n <= 0
    OBVIOUS
  <2>2. 0 \in Nat
    OBVIOUS
  <2> QED
    BY <1>4, <2>1, <2>2
<1>6. PICK x \in T : TRUE
  BY <1>5
<1>7. T \ {x} \in FiniteSubsetsOf(S) /\ <<T \ {x}, T>> \in StrictSubsetOrdering(S)
  <2>1. IsFiniteSet(T \ {x})
    BY <1>4, FS_RemoveElement
  <2>2. T \ {x} \in SUBSET S /\ T \in SUBSET S /\ T \ {x} # T
    BY <1>4, <1>6
  <2> QED
    BY <2>1, <2>2 DEF FiniteSubsetsOf, StrictSubsetOrdering
<1>8. Bounded(T \ {x})
  BY <1>3, <1>7
<1>9. PICK bound \in Nat : \A n \in T \ {x} : n <= bound
  BY <1>8
<1>10. x \in Nat
  BY <1>4, <1>6
<1>11. \A n \in T : n <= bound + x
  <2> TAKE n \in T
  <2>1. n \in Nat
    BY <1>4
  <2>2. CASE n = x
    BY <1>9, <1>10, <2>2
  <2>3. CASE n # x
    <3>1. n <= bound
      BY <1>9, <2>3
    <3> QED
      BY <1>9, <1>10, <2>1, <3>1
  <2> QED
    BY <2>2, <2>3
<1>12. bound + x \in Nat
  BY <1>9, <1>10
<1> QED
  BY <1>4, <1>11, <1>12

(***************************************************************************)
(* Connectors.  A document that no change disturbed is changed after the   *)
(* checkpoint, or its version was delivered; and in a call without errors, *)
(* what was passed on the pages of a project was read, unless it was left  *)
(* out of a response.                                                      *)
(***************************************************************************)
SyncStates ==
  [pc : {"idle", "listing", "paging", "fetched", "staged"}, todo : SUBSET Projects,
   project : Projects \cup {None}, start : Nat, got : [Docs -> Times \cup {None}],
   checkpoint : Times \cup {None}, errors : BOOLEAN, missed : SUBSET Docs]

ConnectorsTyped ==
  /\ kind \in Kinds
  /\ remote \in [Docs -> [there : BOOLEAN, version : Times, updated : Times]]
  /\ now \in Times /\ changes \in Times
  /\ sync \in SyncStates
  /\ since \in Times \cup {None}
  /\ staged \in [Names -> Docs \cup {0}]
  /\ delivered \in [Docs -> Times \cup {None}]
  /\ disturbed \subseteq Docs
  /\ faults \in 0..MaxFaults
  /\ kind = "git" => now = changes

(* Nothing is later than now. *)
Past(t) == t # None => t <= now
Clock == Past(since) /\ Past(sync.checkpoint) /\ \A d \in Docs : remote[d].updated <= now

Good(d) == d \in Present \ (disturbed \cup OutOfReach)

After(d, t) ==
  t = None \/ IF kind = "git" THEN remote[d].updated > t ELSE remote[d].updated >= t

NotLost(d) == Good(d) /\ delivered[d] # remote[d].version => After(d, since)

FetchedLater(d) == sync.got[d] # None => After(d, since)

(* What a call has passed. *)
Passed(s, d) ==
  IF kind = "cloud" THEN d <= s.start ELSE Position(d, Matches(s.project)) < s.start
Done(s, d) ==
  \/ ProjectOf[d] \notin s.todo \cup {s.project}
  \/ ProjectOf[d] = s.project /\ Passed(s, d)

ReadSoFar(s, d) ==
  s.pc = "paging" /\ After(d, since) /\ Done(s, d) => s.got[d] = remote[d].version
ReadAll(s, d) ==
  s.pc = "fetched" /\ s.checkpoint # None =>
    \/ s.got[d] = remote[d].version
    \/ After(d, s.checkpoint)
    \/ s.got[d] = None /\ delivered[d] = remote[d].version
HandedOver(s, d) ==
  s.pc = "staged" /\ s.checkpoint # None =>
    delivered[d] = remote[d].version \/ After(d, s.checkpoint)

Collected(s, d) ==
  Good(d) /\ ~s.errors /\ d \notin s.missed =>
    ReadSoFar(s, d) /\ ReadAll(s, d) /\ HandedOver(s, d)

ConnectorsInv ==
  /\ ConnectorsTyped /\ Clock
  /\ \A d \in Docs : NotLost(d) /\ FetchedLater(d) /\ Collected(sync, d)

ConnectorsStep == ConnectorsNext \/ UNCHANGED connectorVars

(* What the assumption says of the constants, in parts.                    *)
LEMMA Bounds ==
  /\ MaxChanges \in Nat /\ MaxFaults \in Nat /\ PageSize \in Nat \ {0}
  /\ Docs \subseteq Nat \ {0} /\ IsFiniteSet(Docs) /\ ProjectOf \in [Docs -> Projects]
  /\ Times \subseteq Nat /\ None \in Nat /\ None \notin Times
  /\ \A t \in Times : t <= MaxChanges
  /\ 0 \in Times
BY ConnectorsAssumption DEF Times, None

(* The state of a connector that does not synchronise.                     *)
LEMMA NoSyncTyped ==
  /\ NoSync \in SyncStates /\ NoSync.pc = "idle" /\ NoSync.got = Nothing
  /\ NoSync.checkpoint = None /\ NoSync.errors = FALSE /\ NoSync.missed = {}
  /\ Nothing \in [Docs -> Times \cup {None}] /\ \A d \in Docs : Nothing[d] = None
BY Bounds DEF NoSync, SyncStates, Nothing

(* The invariant implies the types.                                        *)
LEMMA ConnectorsTypes == ConnectorsInv => ConnectorsTypeOK
<1> SUFFICES ASSUME ConnectorsInv PROVE ConnectorsTypeOK
  OBVIOUS
<1>1. sync \in SyncStates
  BY DEF ConnectorsInv, ConnectorsTyped
<1>2. /\ sync.pc \in {"idle", "listing", "paging", "fetched", "staged"}
      /\ sync.todo \subseteq Projects /\ sync.project \in Projects \cup {None}
      /\ sync.got \in [Docs -> Times \cup {None}]
      /\ sync.checkpoint \in Times \cup {None} /\ sync.errors \in BOOLEAN
      /\ sync.missed \subseteq Docs
  BY <1>1 DEF SyncStates
<1> QED
  BY <1>2 DEF ConnectorsInv, ConnectorsTyped, ConnectorsTypeOK

(* Between two syncs, what is not lost will be fetched. *)
LEMMA NotLostIsFetched == ConnectorsInv => UnstagedIsFetched
<1> SUFFICES ASSUME ConnectorsInv, NEW d \in Docs, Good(d), delivered[d] # remote[d].version
             PROVE  WillBeFetched(d)
  BY DEF UnstagedIsFetched, Good, Present
<1>1. After(d, since)
  BY DEF ConnectorsInv, NotLost
<1>2. d \in Present /\ d \notin Unparsable /\ d \notin OutOfReach
  BY DEF Good, OutOfReach
<1> QED
  BY <1>1, <1>2 DEF WillBeFetched, After, Readable, ChangedFiles, Matches

(* The invariant holds at first.                                           *)
LEMMA ConnectorsInitInv == ConnectorsInit => ConnectorsInv
<1> SUFFICES ASSUME ConnectorsInit PROVE ConnectorsInv
  OBVIOUS
<1>1. /\ kind \in Kinds /\ now = 0 /\ changes = 0 /\ sync = NoSync /\ since = None
      /\ staged = [n \in Names |-> 0] /\ delivered = Nothing /\ disturbed = {} /\ faults = 0
      /\ remote = [d \in Docs |-> [there |-> TRUE, version |-> 0, updated |-> 0]]
  BY DEF ConnectorsInit
<1>2. remote \in [Docs -> [there : BOOLEAN, version : Times, updated : Times]]
  BY <1>1, Bounds
<1>3. ConnectorsTyped
  BY <1>1, <1>2, Bounds, NoSyncTyped DEF ConnectorsTyped
<1>4. Clock
  BY <1>1, Bounds, NoSyncTyped DEF Clock, Past
<1>5. \A d \in Docs : NotLost(d) /\ FetchedLater(d) /\ Collected(sync, d)
  <2> TAKE d \in Docs
  <2>1. After(d, since)
    BY <1>1 DEF After
  <2>2. sync.pc = "idle"
    BY <1>1, NoSyncTyped
  <2> QED
    BY <2>1, <2>2 DEF NotLost, FetchedLater, Collected, ReadSoFar, ReadAll, HandedOver
<1> QED
  BY <1>3, <1>4, <1>5 DEF ConnectorsInv

-----------------------------------------------------------------------------
(* Positions among the results. *)
LEMMA Positions ==
  ASSUME NEW S \in SUBSET Docs
  PROVE  /\ IsFiniteSet(S) /\ Cardinality(S) \in Nat
         /\ \A d \in Nat : Position(d, S) \in Nat
         /\ \A d \in S : Position(d, S) < Cardinality(S)
         /\ \A d, e \in S : d < e => Position(d, S) < Position(e, S)
<1>1. IsFiniteSet(S) /\ Cardinality(S) \in Nat
  BY Bounds, FS_Subset, FS_CardinalityType
<1>2. ASSUME NEW d \in Nat PROVE Position(d, S) \in Nat /\ IsFiniteSet({e \in S : e < d})
  <2>1. {e \in S : e < d} \in SUBSET S
    OBVIOUS
  <2>2. IsFiniteSet({e \in S : e < d})
    BY <1>1, <2>1, FS_Subset
  <2> QED
    BY <2>2, FS_CardinalityType DEF Position
<1>3. ASSUME NEW d \in S PROVE Position(d, S) < Cardinality(S)
  <2>1. {e \in S : e < d} \in SUBSET S /\ d \in Nat
    BY Bounds
  <2>2. {e \in S : e < d} # S
    BY <2>1
  <2>3. Cardinality({e \in S : e < d}) <= Cardinality(S)
        /\ Cardinality({e \in S : e < d}) # Cardinality(S)
    BY <1>1, <2>1, <2>2, FS_Subset
  <2> QED
    BY <1>1, <1>2, <2>1, <2>3 DEF Position
<1>4. ASSUME NEW d \in S, NEW e \in S, d < e PROVE Position(d, S) < Position(e, S)
  <2>0. d \in Nat /\ e \in Nat /\ S \subseteq Nat
    BY Bounds
  <2>1. {x \in S : x < d} \in SUBSET {x \in S : x < e}
    <3>1. ASSUME NEW x \in S, x < d PROVE x < e
      <4>1. x \in Nat
        BY <2>0
      <4> QED
        BY <1>4, <2>0, <3>1, <4>1
    <3> QED
      BY <3>1
  <2>2. d \in {x \in S : x < e} /\ d \notin {x \in S : x < d}
    BY <1>4, <2>0
  <2>3. IsFiniteSet({x \in S : x < e}) /\ Position(d, S) \in Nat /\ Position(e, S) \in Nat
    BY <1>2, <2>0
  <2>4. Cardinality({x \in S : x < d}) <= Cardinality({x \in S : x < e})
        /\ Cardinality({x \in S : x < d}) # Cardinality({x \in S : x < e})
    BY <2>1, <2>2, <2>3, FS_Subset
  <2> QED
    BY <2>3, <2>4 DEF Position
<1> QED
  BY <1>1, <1>2, <1>3, <1>4

(* A page holds at most PageSize documents. *)
LEMMA PageIsBounded ==
  ASSUME NEW S \in SUBSET Docs, NEW first \in Nat
  PROVE  LET page == {d \in S : Position(d, S) \in first..(first + PageSize - 1)} IN
         Cardinality(page) \in Nat /\ Cardinality(page) <= PageSize
<1> DEFINE page  == {d \in S : Position(d, S) \in first..(first + PageSize - 1)}
           range == first..(first + PageSize - 1)
           place == [d \in page |-> Position(d, S)]
<1>1. IsFiniteSet(page) /\ Cardinality(page) \in Nat
  <2>1. page \in SUBSET S
    OBVIOUS
  <2> QED
    BY <2>1, Positions, FS_Subset, FS_CardinalityType
<1>2. IsFiniteSet(range) /\ Cardinality(range) = PageSize
  <2>1. first \in Int /\ first + PageSize - 1 \in Int /\ ~(first > first + PageSize - 1)
    BY Bounds
  <2>2. IsFiniteSet(range) /\ Cardinality(range) = (first + PageSize - 1) - first + 1
    BY <2>1, FS_Interval
  <2> QED
    BY <2>2, Bounds
<1>3. place \in Injection(page, range)
  <2>1. place \in [page -> range]
    OBVIOUS
  <2>2. ASSUME NEW d \in page, NEW e \in page, place[d] = place[e] PROVE d = e
    <3>1. d \in S /\ e \in S /\ d \in Nat /\ e \in Nat /\ Position(d, S) = Position(e, S)
      BY <2>2, Bounds
    <3>2. Position(d, S) \in Nat /\ Position(e, S) \in Nat
      BY <3>1, Positions
    <3>3. ~(d < e) /\ ~(e < d)
      <4>1. d < e => Position(d, S) < Position(e, S)
        BY <3>1, Positions
      <4>2. e < d => Position(e, S) < Position(d, S)
        BY <3>1, Positions
      <4> QED
        BY <3>1, <3>2, <4>1, <4>2
    <3> QED
      BY <3>1, <3>3
  <2> HIDE DEF place, page, range
  <2> QED
    BY <2>1, <2>2 DEF Injection, IsInjective
<1>4. Cardinality(page) <= Cardinality(range)
  <2> HIDE DEF place, page, range
  <2> QED
    BY <1>2, <1>3, FS_Injection
<1> QED
  BY <1>1, <1>2, <1>4

-----------------------------------------------------------------------------
(* Only the call of the connector moves. *)
LEMMA SyncMoves ==
  ASSUME ConnectorsInv, NEW new \in SyncStates, sync' = new,
         kind' = kind, remote' = remote, now' = now, changes' = changes, since' = since,
         staged' = staged, delivered' = delivered, disturbed' = disturbed,
         faults' \in 0..MaxFaults, Past(new.checkpoint),
         \A d \in Docs : (new.got[d] # None => After(d, since)) /\ Collected(new, d)
  PROVE  ConnectorsInv'
<1>1. ConnectorsTyped'
  BY DEF ConnectorsInv, ConnectorsTyped
<1>2. Clock'
  BY DEF ConnectorsInv, Clock, Past
<1>3. ASSUME NEW d \in Docs PROVE NotLost(d)' /\ FetchedLater(d)' /\ Collected(sync, d)'
  <2>1. \A e, t : After(e, t)' <=> After(e, t)
    BY DEF After
  <2>2. \A e : Good(e)' <=> Good(e)
    BY DEF Good, Present, OutOfReach, Listed
  <2>3. \A p : Matches(p)' = Matches(p)
    BY DEF Matches, Present
  <2>4. Passed(sync, d)' <=> Passed(new, d)
    BY <2>3 DEF Passed, Position
  <2>5. Done(sync, d)' <=> Done(new, d)
    BY <2>4 DEF Done
  <2>6. NotLost(d)' /\ FetchedLater(d)'
    BY <2>1, <2>2 DEF ConnectorsInv, NotLost, FetchedLater
  <2>7. Collected(new, d)
    OBVIOUS
  <2>8. Collected(sync, d)'
    BY <2>1, <2>2, <2>5, <2>7 DEF Collected, ReadSoFar, ReadAll, HandedOver
  <2> QED
    BY <2>6, <2>8
<1> QED
  BY <1>1, <1>2, <1>3 DEF ConnectorsInv

(* A call that has not begun, or has ended, or has failed. *)
LEMMA EmptySync ==
  ASSUME ConnectorsInv, NEW new \in SyncStates, sync' = new,
         kind' = kind, remote' = remote, now' = now, changes' = changes, since' = since,
         staged' = staged, delivered' = delivered, disturbed' = disturbed,
         faults' \in 0..MaxFaults,
         \/ new.got = Nothing /\ new.checkpoint = None
         \/ new.got = sync.got /\ new.checkpoint = sync.checkpoint,
         new.errors \/ new.pc \in {"idle", "listing"}
  PROVE  ConnectorsInv'
<1>1. Past(new.checkpoint)
  BY DEF ConnectorsInv, Clock, Past
<1>2. ASSUME NEW d \in Docs PROVE (new.got[d] # None => After(d, since)) /\ Collected(new, d)
  <2>1. new.got[d] # None => After(d, since)
    BY NoSyncTyped DEF ConnectorsInv, FetchedLater
  <2>2. Collected(new, d)
    BY DEF Collected, ReadSoFar, ReadAll, HandedOver
  <2> QED
    BY <2>1, <2>2
<1> QED
  BY <1>1, <1>2, SyncMoves

(* The next project: nothing of it is passed, and what is left belongs to  *)
(* the projects that were read to their end.                               *)
LEMMA NextProjectTyped ==
  ASSUME NEW s \in SyncStates
  PROVE  /\ NextProject(s) \in SyncStates
         /\ NextProject(s).got = s.got /\ NextProject(s).checkpoint = s.checkpoint
         /\ NextProject(s).errors = s.errors /\ NextProject(s).missed = s.missed
         /\ s.todo = {} => NextProject(s).pc = "fetched"
         /\ s.todo # {} => /\ NextProject(s).pc = "paging" /\ NextProject(s).start = 0
                           /\ NextProject(s).todo \cup {NextProject(s).project} = s.todo
<1>1. CASE s.todo = {}
  <2> DEFINE a == [s EXCEPT !.pc = "fetched"]
             b == [a EXCEPT !.project = None]
             c == [b EXCEPT !.start = 0]
  <2>1. NextProject(s) = c
    BY <1>1 DEF NextProject
  <2>2. a \in SyncStates /\ a.got = s.got /\ a.checkpoint = s.checkpoint /\ a.errors = s.errors /\ a.missed = s.missed
        /\ a.pc = "fetched"
    BY DEF SyncStates
  <2> HIDE DEF a
  <2>3. b \in SyncStates /\ b.got = a.got /\ b.checkpoint = a.checkpoint /\ b.errors = a.errors /\ b.missed = a.missed
        /\ b.pc = a.pc
    BY <2>2 DEF SyncStates
  <2> HIDE DEF b
  <2>4. c \in SyncStates /\ c.got = b.got /\ c.checkpoint = b.checkpoint /\ c.errors = b.errors /\ c.missed = b.missed
        /\ c.pc = b.pc
    BY <2>3 DEF SyncStates
  <2> HIDE DEF c
  <2> QED
    BY <1>1, <2>1, <2>2, <2>3, <2>4
<1>2. CASE s.todo # {}
  <2> DEFINE p == CHOOSE p \in s.todo : TRUE
             a == [s EXCEPT !.pc = "paging"]
             b == [a EXCEPT !.project = p]
             c == [b EXCEPT !.todo = s.todo \ {p}]
             e == [c EXCEPT !.start = 0]
  <2>0. p \in s.todo /\ p \in Projects /\ s.todo \subseteq Projects
    BY <1>2 DEF SyncStates
  <2> HIDE DEF p
  <2>1. NextProject(s) = e
    BY <1>2 DEF NextProject, p
  <2>2. a \in SyncStates /\ a.got = s.got /\ a.checkpoint = s.checkpoint /\ a.errors = s.errors /\ a.missed = s.missed
        /\ a.pc = "paging"
    BY DEF SyncStates
  <2> HIDE DEF a
  <2>3. b \in SyncStates /\ b.got = a.got /\ b.checkpoint = a.checkpoint /\ b.errors = a.errors /\ b.missed = a.missed
        /\ b.pc = a.pc /\ b.project = p
    BY <2>0, <2>2 DEF SyncStates
  <2> HIDE DEF b
  <2>4. c \in SyncStates /\ c.got = b.got /\ c.checkpoint = b.checkpoint /\ c.errors = b.errors /\ c.missed = b.missed
        /\ c.pc = b.pc /\ c.project = b.project /\ c.todo = s.todo \ {p}
    BY <2>0, <2>3 DEF SyncStates
  <2> HIDE DEF c
  <2>5. e \in SyncStates /\ e.got = c.got /\ e.checkpoint = c.checkpoint /\ e.errors = c.errors /\ e.missed = c.missed
        /\ e.pc = c.pc /\ e.project = c.project /\ e.todo = c.todo /\ e.start = 0
    BY <2>4 DEF SyncStates
  <2> HIDE DEF e
  <2>6. e.todo \cup {e.project} = s.todo
    BY <2>0, <2>3, <2>4, <2>5
  <2> QED
    BY <1>2, <2>1, <2>2, <2>3, <2>4, <2>5, <2>6
<1> QED
  BY <1>1, <1>2

(* Going on to the next project of a sync keeps what was collected.        *)
LEMMA NextProjectCollects ==
  ASSUME ConnectorsInv, NEW s \in SyncStates, NEW d \in Docs,
         s.got[d] # None => After(d, since),
         Good(d) /\ ~s.errors /\ d \notin s.missed /\ After(d, since) /\ ProjectOf[d] \notin s.todo
           => s.got[d] = remote[d].version
  PROVE  Collected(NextProject(s), d)
<1> DEFINE new == NextProject(s)
<1>t. /\ new \in SyncStates /\ new.got = s.got /\ new.errors = s.errors /\ new.missed = s.missed
      /\ s.todo = {} => new.pc = "fetched"
      /\ s.todo # {} => new.pc = "paging" /\ new.start = 0 /\ new.todo \cup {new.project} = s.todo
  BY NextProjectTyped
<1> HIDE DEF new
<1> SUFFICES ASSUME Good(d), ~new.errors, d \notin new.missed
             PROVE  ReadSoFar(new, d) /\ ReadAll(new, d) /\ HandedOver(new, d)
  BY DEF Collected, new
<1>1. CASE s.todo = {}
  <2>1. CASE After(d, since)
    <3>1. new.got[d] = remote[d].version
      BY <1>1, <1>t, <2>1
    <3> QED
      BY <1>1, <1>t, <3>1 DEF ReadSoFar, ReadAll, HandedOver
  <2>2. CASE ~After(d, since)
    <3>1. new.got[d] = None /\ delivered[d] = remote[d].version
      BY <1>t, <2>2 DEF ConnectorsInv, NotLost
    <3> QED
      BY <1>1, <1>t, <3>1 DEF ReadSoFar, ReadAll, HandedOver
  <2> QED
    BY <2>1, <2>2
<1>2. CASE s.todo # {}
  <2>1. ~Passed(new, d)
    <3>1. d \in Nat \ {0} /\ Matches(new.project) \in SUBSET Docs
      BY Bounds DEF Matches, Present
    <3>2. Position(d, Matches(new.project)) \in Nat
      BY <3>1, Positions
    <3>3. new.start = 0
      BY <1>2, <1>t
    <3>4. ~(d <= new.start) /\ ~(Position(d, Matches(new.project)) < new.start)
      BY <3>1, <3>2, <3>3
    <3> QED
      BY <3>4 DEF Passed
  <2>2. Done(new, d) => ProjectOf[d] \notin s.todo
    BY <1>2, <1>t, <2>1 DEF Done
  <2> QED
    BY <1>2, <1>t, <2>2 DEF ReadSoFar, ReadAll, HandedOver
<1> QED
  BY <1>1, <1>2

(* The latest change of what is read is in the past. *)
LEMMA LatestIsPast ==
  ASSUME ConnectorsInv, NEW S \in SUBSET Docs, NEW t \in Times \cup {None}, Past(t)
  PROVE  LatestOf(t, S) \in Times \cup {None} /\ Past(LatestOf(t, S))
<1> DEFINE times == {remote[d].updated : d \in S} \cup (IF t = None THEN {} ELSE {t})
<1>t. now \in Times /\ \A d \in Docs : remote[d].updated \in Times /\ remote[d].updated <= now
  BY DEF ConnectorsInv, ConnectorsTyped, Clock
<1>1. \A u \in times : u \in Times /\ u <= now
  BY <1>t DEF Past
<1>2. LatestOf(t, S) = IF times = {} THEN None ELSE Max(times)
  BY DEF LatestOf
<1> HIDE DEF times
<1>3. CASE times = {}
  BY <1>2, <1>3 DEF Past
<1>4. CASE times # {}
  <2>1. times \in SUBSET Nat /\ now \in Nat
    BY <1>1, <1>t, Bounds
  <2>2. Max(times) \in times
    BY <1>1, <1>4, <2>1, LargestNatural
  <2> QED
    BY <1>1, <1>2, <1>4, <2>2 DEF Past
<1> QED
  BY <1>3, <1>4

(* What one page adds, when start moves to next and everything of the      *)
(* project that is passed then is on the page, or was passed.              *)
LEMMA PageKeeps ==
  ASSUME ConnectorsInv, kind # "git", Paging, NEW next \in Nat, NEW last \in BOOLEAN,
         NEW s \in SyncStates, s.pc = sync.pc, s.todo = sync.todo, s.project = sync.project,
         s.got = sync.got, s.checkpoint = sync.checkpoint, s.errors = sync.errors,
         s.start = next, sync.missed \subseteq s.missed,
         ReadPage(s, last),
         \A d \in Matches(sync.project) \ s.missed :
           /\ Passed(s, d) =>
                Passed(sync, d) \/ d \in PageFrom(sync.project, sync.start)
           /\ last => Passed(s, d)
  PROVE  ConnectorsInv'
<1> DEFINE parsed == PageFrom(sync.project, sync.start) \ Unparsable
           a      == [s EXCEPT !.got = VersionsOf(s.got, parsed)]
           read   == [a EXCEPT !.checkpoint = LatestOf(a.checkpoint, parsed)]
<1>t. sync \in SyncStates /\ ConnectorsTyped
  BY DEF ConnectorsInv, ConnectorsTyped
<1>1. /\ s \in SyncStates /\ s.pc = sync.pc /\ s.todo = sync.todo /\ s.project = sync.project
      /\ s.got = sync.got /\ s.checkpoint = sync.checkpoint /\ s.errors = sync.errors
      /\ s.start = next
  OBVIOUS
<1>2. /\ sync' = IF last THEN NextProject(read) ELSE read
      /\ UNCHANGED <<kind, remote, now, changes, since, staged, delivered, disturbed, faults>>
  BY DEF ReadPage
<1>m. \A d \in Matches(sync.project) \ s.missed :
           /\ Passed(s, d) => Passed(sync, d) \/ d \in PageFrom(sync.project, sync.start)
           /\ last => Passed(s, d)
  OBVIOUS
<1>3. parsed \subseteq Matches(sync.project) /\ parsed \subseteq Docs
  BY DEF PageFrom, Matches, Present
<1>p. \A d \in Matches(sync.project) \ (Unparsable \cup s.missed) : Passed(s, d) => Passed(sync, d) \/ d \in parsed
  BY <1>m
<1> HIDE DEF parsed
<1>4. VersionsOf(s.got, parsed) \in [Docs -> Times \cup {None}]
  <2>1. \A d \in Docs : remote[d].version \in Times /\ sync.got[d] \in Times \cup {None}
    BY <1>t DEF ConnectorsTyped, SyncStates
  <2> QED
    BY <1>1, <2>1 DEF VersionsOf
<1>5. \A d \in Docs : VersionsOf(s.got, parsed)[d] =
        IF d \in parsed THEN remote[d].version ELSE sync.got[d]
  BY <1>1 DEF VersionsOf
<1>6. /\ a \in SyncStates /\ a.pc = s.pc /\ a.todo = s.todo /\ a.project = s.project
      /\ a.got = VersionsOf(s.got, parsed) /\ a.checkpoint = s.checkpoint /\ a.errors = s.errors
      /\ a.start = s.start /\ a.missed = s.missed
  BY <1>1, <1>4 DEF SyncStates
<1> HIDE DEF a
<1>7. LatestOf(a.checkpoint, parsed) \in Times \cup {None} /\ Past(LatestOf(a.checkpoint, parsed))
  <2>1. sync.checkpoint \in Times \cup {None} /\ Past(sync.checkpoint)
    BY <1>t DEF SyncStates, ConnectorsInv, Clock
  <2> QED
    BY <1>1, <1>3, <1>6, <2>1, LatestIsPast
<1>8. /\ read \in SyncStates /\ read.pc = sync.pc /\ read.todo = sync.todo
      /\ read.project = sync.project /\ read.got = a.got /\ read.errors = sync.errors
      /\ read.start = next /\ Past(read.checkpoint) /\ read.missed = s.missed
  BY <1>1, <1>6, <1>7 DEF SyncStates
<1> HIDE DEF read
<1>9. ASSUME NEW d \in Docs
      PROVE  /\ read.got[d] # None => After(d, since)
             /\ Collected(read, d)
             /\ last => Collected(NextProject(read), d)
  <2>1. read.got[d] = IF d \in parsed THEN remote[d].version ELSE sync.got[d]
    BY <1>5, <1>6, <1>8
  <2>2. d \in parsed => After(d, since)
    BY <1>3 DEF Matches, After
  <2>3. read.got[d] # None => After(d, since)
    BY <2>1, <2>2 DEF ConnectorsInv, FetchedLater
  <2>4. ASSUME Good(d), ~read.errors, d \notin read.missed, After(d, since),
               ProjectOf[d] = sync.project, Passed(s, d)
        PROVE  read.got[d] = remote[d].version
    <3>1. d \in Matches(sync.project) \ (Unparsable \cup s.missed)
      BY <1>8, <2>4 DEF Matches, Good, After, OutOfReach
    <3>2. CASE d \in parsed
      BY <2>1, <3>2
    <3>3. CASE Passed(sync, d)
      <4>1. Done(sync, d) /\ ~sync.errors /\ d \notin sync.missed
        BY <1>8, <2>4, <3>3 DEF Done
      <4>2. sync.got[d] = remote[d].version
        BY <2>4, <4>1 DEF ConnectorsInv, Collected, ReadSoFar, Paging
      <4> QED
        BY <2>1, <4>2
    <3> QED
      BY <1>p, <2>4, <3>1, <3>2, <3>3
  <2>5. ASSUME Good(d), ~read.errors, d \notin read.missed, After(d, since),
               ProjectOf[d] \notin sync.todo \cup {sync.project}
        PROVE  read.got[d] = remote[d].version
    <3>1. Done(sync, d) /\ ~sync.errors /\ d \notin sync.missed
      BY <1>8, <2>5 DEF Done
    <3>2. sync.got[d] = remote[d].version
      BY <2>5, <3>1 DEF ConnectorsInv, Collected, ReadSoFar, Paging
    <3> QED
      BY <2>1, <3>2
  <2>6. Passed(read, d) <=> Passed(s, d)
    BY <1>1, <1>8 DEF Passed
  <2>7. Collected(read, d)
    <3>1. read.pc = "paging"
      BY <1>8 DEF Paging
    <3>2. Good(d) /\ ~read.errors /\ d \notin read.missed /\ After(d, since) /\ Done(read, d)
            => read.got[d] = remote[d].version
      BY <1>8, <2>4, <2>5, <2>6 DEF Done
    <3> QED
      BY <3>1, <3>2 DEF Collected, ReadSoFar, ReadAll, HandedOver
  <2>8. last => Collected(NextProject(read), d)
    <3> SUFFICES ASSUME last PROVE Collected(NextProject(read), d)
      OBVIOUS
    <3>1. Good(d) /\ ~read.errors /\ d \notin read.missed /\ After(d, since)
            /\ ProjectOf[d] \notin read.todo
            => read.got[d] = remote[d].version
      <4> SUFFICES ASSUME Good(d), ~read.errors, d \notin read.missed, After(d, since),
                          ProjectOf[d] \notin read.todo
                   PROVE read.got[d] = remote[d].version
        OBVIOUS
      <4>1. CASE ProjectOf[d] = sync.project
        <5>1. d \in Matches(sync.project) \ s.missed
          BY <1>8, <4>1 DEF Matches, Good, After
        <5> QED
          BY <1>m, <2>4, <4>1, <5>1
      <4>2. CASE ProjectOf[d] # sync.project
        BY <1>8, <2>5, <4>2
      <4> QED
        BY <4>1, <4>2
    <3> QED
      BY <1>8, <2>3, <3>1, NextProjectCollects
  <2> QED
    BY <2>3, <2>7, <2>8
<1>10. faults' \in 0..MaxFaults
  BY <1>2, <1>t DEF ConnectorsTyped
<1>11. CASE last
  <2>1. /\ NextProject(read) \in SyncStates /\ NextProject(read).got = read.got
        /\ NextProject(read).checkpoint = read.checkpoint
    BY <1>8, NextProjectTyped
  <2> QED
    BY <1>2, <1>8, <1>9, <1>10, <1>11, <2>1, SyncMoves
<1>12. CASE ~last
  BY <1>2, <1>8, <1>9, <1>10, <1>12, SyncMoves
<1> QED
  BY <1>11, <1>12

(* start_at moves by maxResults. *)
LEMMA JiraPageKeeps == ConnectorsInv /\ JiraPage => ConnectorsInv'
<1> SUFFICES ASSUME ConnectorsInv, JiraPage PROVE ConnectorsInv'
  OBVIOUS
<1> DEFINE next == sync.start + PageSize
           last == next >= Cardinality(Matches(sync.project))
           s    == [sync EXCEPT !.start = next]
<1>t. sync \in SyncStates
  BY DEF ConnectorsInv, ConnectorsTyped
<1>1. kind = "jira" /\ Paging /\ ReadPage(s, last)
  BY DEF JiraPage
<1>2. next \in Nat /\ sync.start \in Nat /\ last \in BOOLEAN
  BY <1>t, Bounds DEF SyncStates
<1>3. /\ s \in SyncStates /\ s.start = next /\ s.project = sync.project /\ s.pc = sync.pc
      /\ s.todo = sync.todo /\ s.got = sync.got /\ s.checkpoint = sync.checkpoint
      /\ s.errors = sync.errors /\ s.missed = sync.missed
  <2>1. next \in Nat
    BY <1>2
  <2> HIDE DEF next
  <2> QED
    BY <1>t, <2>1 DEF SyncStates
<1>4. ASSUME NEW d \in Matches(sync.project)
      PROVE  /\ Passed(s, d) => Passed(sync, d) \/ d \in PageFrom(sync.project, sync.start)
             /\ last => Passed(s, d)
  <2> DEFINE S == Matches(sync.project)
  <2>1. S \in SUBSET Docs /\ d \in Nat
    BY Bounds DEF Matches, Present
  <2>2. Position(d, S) \in Nat /\ Position(d, S) < Cardinality(S) /\ Cardinality(S) \in Nat
    BY <2>1, Positions
  <2>3. Passed(s, d) <=> Position(d, S) < next
    BY <1>1, <1>3 DEF Passed
  <2>4. Passed(sync, d) <=> Position(d, S) < sync.start
    BY <1>1 DEF Passed
  <2>5. Position(d, S) \in sync.start..(sync.start + PageSize - 1)
          => d \in PageFrom(sync.project, sync.start)
    BY <1>1 DEF PageFrom
  <2>6. Position(d, S) < next /\ ~(Position(d, S) < sync.start)
          => Position(d, S) \in sync.start..(sync.start + PageSize - 1)
    BY <1>2, <2>2, Bounds
  <2>7. last => Position(d, S) < next
    BY <1>2, <2>2
  <2> HIDE DEF next, last, S
  <2> QED
    BY <2>3, <2>4, <2>5, <2>6, <2>7
<1> HIDE DEF last, s
<1> QED
  BY <1>1, <1>2, <1>3, <1>4, PageKeeps

(* start moves by the size of the page, which is PageSize or less. *)
LEMMA ServerPageKeeps == ConnectorsInv /\ ServerPage => ConnectorsInv'
<1> SUFFICES ASSUME ConnectorsInv, ServerPage PROVE ConnectorsInv'
  OBVIOUS
<1> DEFINE page == PageFrom(sync.project, sync.start)
           next == sync.start + Cardinality(page)
           last == next >= Cardinality(Matches(sync.project))
           s    == [sync EXCEPT !.start = next]
           S    == Matches(sync.project)
<1>t. sync \in SyncStates
  BY DEF ConnectorsInv, ConnectorsTyped
<1>1. kind = "server" /\ Paging /\ ReadPage(s, last)
  BY DEF ServerPage
<1>s. S \in SUBSET Docs
  BY DEF Matches, Present
<1>p. page = {d \in S : Position(d, S) \in sync.start..(sync.start + PageSize - 1)}
  BY <1>1 DEF PageFrom
<1>n. sync.start \in Nat
  BY <1>t DEF SyncStates
<1>c. Cardinality(page) \in Nat /\ Cardinality(page) <= PageSize
  <2> HIDE DEF page, S
  <2> QED
    BY <1>n, <1>p, <1>s, PageIsBounded
<1>2. next \in Nat /\ last \in BOOLEAN
  <2> HIDE DEF page
  <2> QED
    BY <1>n, <1>c
<1>3. /\ s \in SyncStates /\ s.start = next /\ s.project = sync.project /\ s.pc = sync.pc
      /\ s.todo = sync.todo /\ s.got = sync.got /\ s.checkpoint = sync.checkpoint
      /\ s.errors = sync.errors /\ s.missed = sync.missed
  <2>1. next \in Nat
    BY <1>2
  <2> HIDE DEF next
  <2> QED
    BY <1>t, <2>1 DEF SyncStates
<1>4. ASSUME NEW d \in Matches(sync.project)
      PROVE  /\ Passed(s, d) => Passed(sync, d) \/ d \in PageFrom(sync.project, sync.start)
             /\ last => Passed(s, d)
  <2>1. d \in Nat /\ d \in S
    BY <1>s, Bounds
  <2>2. Position(d, S) \in Nat /\ Position(d, S) < Cardinality(S) /\ Cardinality(S) \in Nat
    BY <1>s, <2>1, Positions
  <2>3. Passed(s, d) <=> Position(d, S) < next
    BY <1>1, <1>3 DEF Passed
  <2>4. Passed(sync, d) <=> Position(d, S) < sync.start
    BY <1>1 DEF Passed
  <2> HIDE DEF page, S
  <2>6. Position(d, S) < next /\ ~(Position(d, S) < sync.start)
          => Position(d, S) \in sync.start..(sync.start + PageSize - 1)
    BY <1>c, <1>n, <1>2, <2>2, Bounds
  <2>5. Position(d, S) < next /\ ~(Position(d, S) < sync.start) => d \in page
    BY <1>p, <2>1, <2>6
  <2>7. last => Position(d, S) < next
    BY <1>2, <2>2 DEF S
  <2> HIDE DEF next, last
  <2> QED
    BY <2>3, <2>4, <2>5, <2>7 DEF page
<1> HIDE DEF next, last, s
<1> QED
  BY <1>1, <1>2, <1>3, <1>4, PageKeeps

(* A response without its total ends its project: what is after the page   *)
(* is left out.                                                            *)
LEMMA PageWithoutTotalKeeps == ConnectorsInv /\ PageWithoutTotal => ConnectorsInv'
<1> SUFFICES ASSUME ConnectorsInv, PageWithoutTotal PROVE ConnectorsInv'
  OBVIOUS
<1> DEFINE next == sync.start + PageSize
           M    == Matches(sync.project)
           left == sync.missed \cup {d \in M : Position(d, M) >= next}
           a    == [sync EXCEPT !.start = next]
           s    == [a EXCEPT !.missed = left]
<1>t. sync \in SyncStates
  BY DEF ConnectorsInv, ConnectorsTyped
<1>s. M \in SUBSET Docs
  BY DEF Matches, Present
<1>1. kind \in {"jira", "server"} /\ Paging /\ ReadPage(s, TRUE)
  BY DEF PageWithoutTotal
<1>n. next \in Nat /\ sync.start \in Nat /\ left \subseteq Docs
  BY <1>s, <1>t, Bounds DEF SyncStates
<1>2. /\ a \in SyncStates /\ a.start = next /\ a.project = sync.project /\ a.pc = sync.pc
      /\ a.todo = sync.todo /\ a.got = sync.got /\ a.checkpoint = sync.checkpoint
      /\ a.errors = sync.errors
  BY <1>n, <1>t DEF SyncStates
<1> HIDE DEF a
<1>3. /\ s \in SyncStates /\ s.start = next /\ s.project = sync.project /\ s.pc = sync.pc
      /\ s.todo = sync.todo /\ s.got = sync.got /\ s.checkpoint = sync.checkpoint
      /\ s.errors = sync.errors /\ s.missed = left
  <2> HIDE DEF left
  <2> QED
    BY <1>2, <1>n DEF SyncStates
<1> HIDE DEF s
<1>4. ASSUME NEW d \in Matches(sync.project) \ s.missed
      PROVE  /\ Passed(s, d) => Passed(sync, d) \/ d \in PageFrom(sync.project, sync.start)
             /\ TRUE => Passed(s, d)
  <2>1. d \in M /\ d \notin left
    BY <1>3
  <2>2. Position(d, M) \in Nat
    BY <1>s, <2>1, Bounds, Positions
  <2>3. Position(d, M) < next
    BY <1>n, <2>1, <2>2
  <2>4. Passed(s, d)
    BY <1>1, <1>3, <2>3 DEF Passed
  <2>5. Passed(sync, d) <=> Position(d, M) < sync.start
    BY <1>1 DEF Passed
  <2>6. Position(d, M) \in sync.start..(sync.start + PageSize - 1)
          => d \in PageFrom(sync.project, sync.start)
    BY <1>1, <2>1 DEF PageFrom
  <2>7. ~(Position(d, M) < sync.start)
          => Position(d, M) \in sync.start..(sync.start + PageSize - 1)
    <3> HIDE DEF M
    <3> QED
      BY <1>n, <2>2, <2>3, Bounds
  <2> QED
    BY <2>4, <2>5, <2>6, <2>7
<1>5. kind # "git" /\ sync.missed \subseteq s.missed
  BY <1>1, <1>3
<1> HIDE DEF next, left, M
<1> QED
  BY <1>1, <1>n, <1>3, <1>4, <1>5, PageKeeps

(* The cursor of a cloud moves to the last document of the page. *)
LEMMA CloudPageKeeps == ConnectorsInv /\ CloudPage => ConnectorsInv'
<1> SUFFICES ASSUME ConnectorsInv, CloudPage PROVE ConnectorsInv'
  OBVIOUS
<1> DEFINE page == PageFrom(sync.project, sync.start)
           next == Max(page \cup {sync.start})
           last == \A d \in Matches(sync.project) : d <= next
           s    == [sync EXCEPT !.start = next]
           S    == {d \in Matches(sync.project) : d > sync.start}
<1>t. sync \in SyncStates
  BY DEF ConnectorsInv, ConnectorsTyped
<1>1. kind = "cloud" /\ Paging /\ ReadPage(s, last)
  BY DEF CloudPage
<1>s. S \in SUBSET Docs
  BY DEF Matches, Present
<1>p. page = {d \in S : Position(d, S) < PageSize}
  BY <1>1 DEF PageFrom
<1>n. sync.start \in Nat
  BY <1>t DEF SyncStates
<1>2. /\ next \in page \cup {sync.start} /\ next \in Nat
      /\ \A d \in page \cup {sync.start} : d <= next
  <2>1. page \subseteq Docs
    BY <1>s, <1>p
  <2> HIDE DEF page, S
  <2>2. IsFiniteSet(page \cup {sync.start})
    BY <2>1, Bounds, FS_Subset, FS_AddElement
  <2>3. page \cup {sync.start} \in SUBSET Nat
    BY <1>n, <2>1, Bounds
  <2>4. \E bound \in Nat : \A d \in page \cup {sync.start} : d <= bound
    BY <2>2, <2>3, FinitelyBounded
  <2> QED
    BY <2>3, <2>4, LargestNatural
<1>b. last \in BOOLEAN
  OBVIOUS
<1>3. /\ s \in SyncStates /\ s.start = next /\ s.project = sync.project /\ s.pc = sync.pc
      /\ s.todo = sync.todo /\ s.got = sync.got /\ s.checkpoint = sync.checkpoint
      /\ s.errors = sync.errors /\ s.missed = sync.missed
  <2>1. next \in Nat
    BY <1>2
  <2> HIDE DEF next
  <2> QED
    BY <1>t, <2>1 DEF SyncStates
<1> HIDE DEF next
<1>4. ASSUME NEW d \in Matches(sync.project)
      PROVE  /\ Passed(s, d) => Passed(sync, d) \/ d \in PageFrom(sync.project, sync.start)
             /\ last => Passed(s, d)
  <2>1. d \in Nat
    BY Bounds DEF Matches, Present
  <2>2. Passed(s, d) <=> d <= next
    BY <1>1, <1>3 DEF Passed
  <2>3. Passed(sync, d) <=> d <= sync.start
    BY <1>1 DEF Passed
  <2>4. ASSUME d <= next, ~(d <= sync.start) PROVE d \in page
    <3>1. d \in S
      BY <1>n, <2>1, <2>4
    <3>2. next \in page
      BY <1>2, <1>n, <2>1, <2>4
    <3>3. next \in S /\ Position(next, S) < PageSize
      BY <1>p, <3>2
    <3>4. Position(d, S) <= Position(next, S)
      <4>1. CASE d = next
        <5>1. Position(d, S) \in Nat
          BY <1>s, <2>1, Positions
        <5> QED
          BY <4>1, <5>1
      <4>2. CASE d < next
        <5>1. Position(d, S) \in Nat /\ Position(next, S) \in Nat
          BY <1>2, <1>s, <2>1, Positions
        <5>2. Position(d, S) < Position(next, S)
          BY <1>s, <3>1, <3>3, <4>2, Positions
        <5> QED
          BY <5>1, <5>2
      <4> QED
        BY <1>2, <2>1, <2>4, <4>1, <4>2
    <3>5. Position(d, S) < PageSize
      <4>1. Position(d, S) \in Nat /\ Position(next, S) \in Nat
        BY <1>2, <1>s, <2>1, Positions
      <4> QED
        BY <3>3, <3>4, <4>1, Bounds
    <3> QED
      BY <1>p, <3>1, <3>5
  <2> QED
    BY <2>2, <2>3, <2>4
<1> HIDE DEF last, s
<1> QED
  BY <1>1, <1>2, <1>b, <1>3, <1>4, PageKeeps

(* The first project, or none: then there are no documents. *)
LEMMA ListProjectsKeeps == ConnectorsInv /\ ListProjects => ConnectorsInv'
<1> SUFFICES ASSUME ConnectorsInv, ListProjects PROVE ConnectorsInv'
  OBVIOUS
<1> DEFINE s == [sync EXCEPT !.todo = Listed]
<1>t. sync \in SyncStates /\ Past(sync.checkpoint) /\ faults \in 0..MaxFaults
  BY DEF ConnectorsInv, ConnectorsTyped, Clock
<1>1. s \in SyncStates /\ s.todo = Listed /\ s.got = sync.got /\ s.checkpoint = sync.checkpoint
  <2>1. Listed \in SUBSET Projects
    BY DEF Listed
  <2> QED
    BY <1>t, <2>1 DEF SyncStates
<1>2. /\ sync' = NextProject(s)
      /\ UNCHANGED <<kind, remote, now, changes, since, staged, delivered, disturbed, faults>>
  BY DEF ListProjects
<1> HIDE DEF s
<1>3. /\ NextProject(s) \in SyncStates /\ NextProject(s).got = s.got
      /\ NextProject(s).checkpoint = s.checkpoint
  BY <1>1, NextProjectTyped
<1>4. ASSUME NEW d \in Docs
      PROVE (NextProject(s).got[d] # None => After(d, since)) /\ Collected(NextProject(s), d)
  <2>1. s.got[d] # None => After(d, since)
    BY <1>1 DEF ConnectorsInv, FetchedLater
  <2>2. Good(d) => ProjectOf[d] \in s.todo
    BY <1>1 DEF Good, OutOfReach
  <2>3. Collected(NextProject(s), d)
    BY <1>1, <2>1, <2>2, NextProjectCollects
  <2> QED
    BY <1>3, <2>1, <2>3
<1> QED
  BY <1>1, <1>2, <1>3, <1>4, <1>t, SyncMoves

(* What ends a call without its documents: an error, a crash; and its start. *)
LEMMA FailingKeeps ==
  ASSUME ConnectorsInv, StartSync \/ ListingFails \/ PageFails \/ GitFails \/ CallerCrashes
  PROVE  ConnectorsInv'
<1>t. sync \in SyncStates /\ faults \in 0..MaxFaults
  BY DEF ConnectorsInv, ConnectorsTyped
<1>u. UNCHANGED <<kind, remote, now, changes, since, staged, delivered, disturbed>>
  BY DEF StartSync, ListingFails, PageFails, GitFails, CallerCrashes
<1>f. faults' \in 0..MaxFaults
  <2>1. faults' = faults \/ (faults < MaxFaults /\ faults' = faults + 1)
    BY DEF StartSync, ListingFails, PageFails, GitFails, CallerCrashes
  <2> QED
    BY <1>t, <2>1, Bounds
<1>1. CASE StartSync
  <2> DEFINE new == [NoSync EXCEPT !.pc = "listing"]
  <2>1. new \in SyncStates /\ new.got = Nothing /\ new.checkpoint = None /\ new.pc = "listing"
    BY NoSyncTyped DEF SyncStates
  <2>2. sync' = new
    BY <1>1 DEF StartSync
  <2> HIDE DEF new
  <2> QED
    BY <1>u, <1>f, <2>1, <2>2, EmptySync
<1>2. CASE ListingFails
  <2> DEFINE a   == [sync EXCEPT !.pc = "fetched"]
             new == [a EXCEPT !.errors = TRUE]
  <2>1. a \in SyncStates /\ a.got = sync.got /\ a.checkpoint = sync.checkpoint
    BY <1>t DEF SyncStates
  <2>2. sync' = new
    BY <1>2 DEF ListingFails
  <2> HIDE DEF a
  <2>3. new \in SyncStates /\ new.got = a.got /\ new.checkpoint = a.checkpoint /\ new.errors
    BY <2>1 DEF SyncStates
  <2> HIDE DEF new
  <2> QED
    BY <1>u, <1>f, <2>1, <2>2, <2>3, EmptySync
<1>3. CASE PageFails
  <2> DEFINE s == [sync EXCEPT !.errors = TRUE]
  <2>1. s \in SyncStates /\ s.got = sync.got /\ s.checkpoint = sync.checkpoint /\ s.errors
    BY <1>t DEF SyncStates
  <2>2. sync' = NextProject(s)
    BY <1>3 DEF PageFails
  <2> HIDE DEF s
  <2>3. /\ NextProject(s) \in SyncStates /\ NextProject(s).got = s.got
        /\ NextProject(s).checkpoint = s.checkpoint /\ NextProject(s).errors
    BY <2>1, NextProjectTyped
  <2> QED
    BY <1>u, <1>f, <2>1, <2>2, <2>3, EmptySync
<1>4. CASE GitFails
  <2> DEFINE a   == [NoSync EXCEPT !.pc = "fetched"]
             new == [a EXCEPT !.errors = TRUE]
  <2>1. a \in SyncStates /\ a.got = Nothing /\ a.checkpoint = None
    BY NoSyncTyped DEF SyncStates
  <2>2. sync' = new
    BY <1>4 DEF GitFails
  <2> HIDE DEF a
  <2>3. new \in SyncStates /\ new.got = a.got /\ new.checkpoint = a.checkpoint /\ new.errors
    BY <2>1 DEF SyncStates
  <2> HIDE DEF new
  <2> QED
    BY <1>u, <1>f, <2>1, <2>2, <2>3, EmptySync
<1>5. CASE CallerCrashes
  <2>1. sync' = NoSync
    BY <1>5 DEF CallerCrashes
  <2> QED
    BY <1>u, <1>f, <2>1, NoSyncTyped, EmptySync
<1> QED
  BY <1>1, <1>2, <1>3, <1>4, <1>5

(* git: the files at the head commit that changed after the checkpoint. *)
LEMMA GitSyncKeeps == ConnectorsInv /\ GitSync => ConnectorsInv'
<1> SUFFICES ASSUME ConnectorsInv, GitSync PROVE ConnectorsInv'
  OBVIOUS
<1>t. ConnectorsTyped
  BY DEF ConnectorsInv
<1>g. kind = "git"
  BY DEF GitSync
<1>2. PICK unread \in SUBSET Readable :
        sync' = [NoSync EXCEPT !.pc = "fetched", !.got = VersionsOf(NoSync.got, Readable \ unread),
                   !.checkpoint = now, !.missed = unread]
  BY DEF GitSync
<1>k. UNCHANGED <<kind, remote, now, changes, since, staged, delivered, disturbed, faults>>
  BY DEF GitSync
<1> DEFINE read == Readable \ unread
           v    == VersionsOf(NoSync.got, read)
           a    == [NoSync EXCEPT !.pc = "fetched"]
           b    == [a EXCEPT !.got = v]
           c    == [b EXCEPT !.checkpoint = now]
           new  == [c EXCEPT !.missed = unread]
<1>n. sync' = new
  BY <1>2
<1>r. unread \subseteq Docs /\ read \subseteq Readable /\ Readable \subseteq read \cup unread
  BY DEF Readable, Present
<1>1. a \in SyncStates /\ a.pc = "fetched" /\ a.got = Nothing
  BY NoSyncTyped DEF SyncStates
<1> HIDE DEF read
<1>3. /\ v \in [Docs -> Times \cup {None}]
      /\ \A d \in Docs : v[d] = IF d \in read THEN remote[d].version ELSE None
  <2>1. \A d \in Docs : remote[d].version \in Times
    BY <1>t DEF ConnectorsTyped
  <2> QED
    BY <2>1, NoSyncTyped DEF VersionsOf
<1> HIDE DEF a, v
<1>4. b \in SyncStates /\ b.pc = "fetched" /\ b.got = v
  BY <1>1, <1>3 DEF SyncStates
<1> HIDE DEF b
<1>c. c \in SyncStates /\ c.pc = b.pc /\ c.got = b.got /\ c.checkpoint = now
  BY <1>4, <1>t DEF SyncStates, ConnectorsTyped
<1> HIDE DEF c
<1>5. /\ new \in SyncStates /\ new.pc = "fetched" /\ new.got = v /\ new.missed = unread
      /\ Past(new.checkpoint)
  <2>1. now \in Times
    BY <1>t DEF ConnectorsTyped
  <2>2. /\ new \in SyncStates /\ new.pc = c.pc /\ new.got = c.got /\ new.checkpoint = now
        /\ new.missed = unread
    BY <1>c, <1>r DEF SyncStates
  <2>3. now <= now
    BY <2>1, Bounds
  <2> QED
    BY <1>4, <1>c, <2>2, <2>3 DEF Past
<1> HIDE DEF new
<1>6. ASSUME NEW d \in Docs PROVE (new.got[d] # None => After(d, since)) /\ Collected(new, d)
  <2>1. new.got[d] = IF d \in read THEN remote[d].version ELSE None
    BY <1>3, <1>5
  <2>2. d \in Readable => After(d, since)
    BY <1>g DEF Readable, ChangedFiles, After
  <2>3. Good(d) /\ After(d, since) => d \in Readable
    BY <1>g DEF Readable, ChangedFiles, After, Good, OutOfReach
  <2>4. NotLost(d)
    BY DEF ConnectorsInv
  <2>5. Collected(new, d)
    BY <1>5, <1>r, <2>1, <2>3, <2>4 DEF Collected, ReadSoFar, ReadAll, HandedOver, NotLost
  <2> QED
    BY <1>r, <2>1, <2>2, <2>5
<1>7. faults' \in 0..MaxFaults
  BY <1>k, <1>t DEF ConnectorsTyped
<1> QED
  BY <1>k, <1>n, <1>5, <1>6, <1>7, SyncMoves

(* What was fetched is delivered: it is as new as the document, or the     *)
(* document changed after it was fetched.                                  *)
LEMMA StageDocumentsKeeps == ConnectorsInv /\ StageDocuments => ConnectorsInv'
<1> SUFFICES ASSUME ConnectorsInv, StageDocuments PROVE ConnectorsInv'
  OBVIOUS
<1> DEFINE a   == [sync EXCEPT !.pc = "staged"]
           new == [a EXCEPT !.got = Nothing]
<1>t. ConnectorsTyped /\ sync \in SyncStates
  BY DEF ConnectorsInv, ConnectorsTyped
<1>u. UNCHANGED <<kind, remote, now, changes, since, disturbed, faults>> /\ sync.pc = "fetched"
  BY DEF StageDocuments
<1>1. a \in SyncStates /\ a.pc = "staged" /\ a.checkpoint = sync.checkpoint /\ a.errors = sync.errors
      /\ a.missed = sync.missed
  BY <1>t DEF SyncStates
<1>2. sync' = new
  BY DEF StageDocuments
<1> HIDE DEF a
<1>3. /\ new \in SyncStates /\ new.pc = "staged" /\ new.checkpoint = sync.checkpoint
      /\ new.errors = sync.errors /\ new.got = Nothing /\ new.missed = sync.missed
  BY <1>1, NoSyncTyped DEF SyncStates
<1> HIDE DEF new
<1>4. /\ delivered' \in [Docs -> Times \cup {None}]
      /\ \A d \in Docs : delivered'[d] = IF sync.got[d] = None THEN delivered[d] ELSE sync.got[d]
  <2>1. \A d \in Docs : sync.got[d] \in Times \cup {None} /\ delivered[d] \in Times \cup {None}
    BY <1>t DEF ConnectorsTyped, SyncStates
  <2> QED
    BY <2>1 DEF StageDocuments
<1>5. staged' \in [Names -> Docs \cup {0}]
  <2>1. PICK last \in [Names -> Docs \cup {0}] :
          staged' = [n \in Names |-> IF last[n] = 0 THEN staged[n] ELSE last[n]]
    BY DEF StageDocuments
  <2> QED
    BY <1>t, <2>1 DEF ConnectorsTyped
<1>6. ConnectorsTyped'
  BY <1>2, <1>3, <1>4, <1>5, <1>t, <1>u DEF ConnectorsTyped
<1>7. Clock'
  BY <1>2, <1>3, <1>u DEF ConnectorsInv, Clock, Past
<1>8. ASSUME NEW d \in Docs PROVE NotLost(d)' /\ FetchedLater(d)' /\ Collected(sync, d)'
  <2>1. \A t : After(d, t)' <=> After(d, t)
    BY <1>u DEF After
  <2>2. Good(d)' <=> Good(d)
    BY <1>u DEF Good, Present, OutOfReach, Listed
  <2>3. NotLost(d) /\ FetchedLater(d) /\ Collected(sync, d)
    BY DEF ConnectorsInv
  <2>4. NotLost(d)'
    BY <1>4, <1>u, <2>1, <2>2, <2>3 DEF NotLost, FetchedLater
  <2>5. FetchedLater(d)'
    BY <1>2, <1>3, NoSyncTyped DEF FetchedLater
  <2>6. Good(d) /\ ~new.errors /\ d \notin new.missed /\ new.checkpoint # None =>
          delivered'[d] = remote[d].version \/ After(d, new.checkpoint)
    <3> SUFFICES ASSUME Good(d), ~new.errors, d \notin new.missed, new.checkpoint # None,
                        ~After(d, new.checkpoint)
                 PROVE  delivered'[d] = remote[d].version
      OBVIOUS
    <3>1. \/ sync.got[d] = remote[d].version
          \/ sync.got[d] = None /\ delivered[d] = remote[d].version
      BY <1>3, <1>u, <2>3 DEF Collected, ReadAll
    <3>2. remote[d].version # None
      BY <1>t, Bounds DEF ConnectorsTyped
    <3> QED
      BY <1>4, <3>1, <3>2
  <2>7. Collected(sync, d)'
    BY <1>2, <1>3, <1>u, <2>1, <2>2, <2>6 DEF Collected, ReadSoFar, ReadAll, HandedOver
  <2> QED
    BY <2>4, <2>5, <2>7
<1> QED
  BY <1>6, <1>7, <1>8 DEF ConnectorsInv

(* The checkpoint moves on: what was not delivered changed after it. *)
LEMMA KeepCheckpointKeeps == ConnectorsInv /\ KeepCheckpoint => ConnectorsInv'
<1> SUFFICES ASSUME ConnectorsInv, KeepCheckpoint PROVE ConnectorsInv'
  OBVIOUS
<1>t. ConnectorsTyped /\ sync \in SyncStates /\ Clock
  BY DEF ConnectorsInv, ConnectorsTyped
<1>u. /\ UNCHANGED <<kind, remote, now, changes, staged, delivered, faults>>
      /\ sync.pc = "staged" /\ sync' = NoSync
  BY DEF KeepCheckpoint
<1>1. \/ since' = since /\ disturbed' = disturbed
      \/ /\ since' = sync.checkpoint /\ ~sync.errors /\ sync.checkpoint # None
         /\ disturbed' = disturbed \cup sync.missed
  BY DEF KeepCheckpoint
<1>d. disturbed' \subseteq Docs
  BY <1>1, <1>t DEF ConnectorsTyped, SyncStates
<1>2. since' \in Times \cup {None} /\ Past(since)'
  <2>1. sync.checkpoint \in Times \cup {None}
    BY <1>t DEF SyncStates
  <2> QED
    BY <1>1, <1>t, <1>u, <2>1 DEF ConnectorsTyped, Clock, Past
<1>3. ConnectorsTyped'
  BY <1>2, <1>d, <1>t, <1>u, NoSyncTyped DEF ConnectorsTyped
<1>4. Clock'
  BY <1>2, <1>t, <1>u, NoSyncTyped DEF Clock, Past
<1>5. ASSUME NEW d \in Docs PROVE NotLost(d)' /\ FetchedLater(d)' /\ Collected(sync, d)'
  <2>1. \A t : After(d, t)' <=> After(d, t)
    BY <1>u DEF After
  <2>2. Good(d)' => Good(d) /\ (since' = since \/ d \notin sync.missed)
    BY <1>1, <1>u DEF Good, Present, OutOfReach, Listed
  <2>3. NotLost(d) /\ Collected(sync, d)
    BY DEF ConnectorsInv
  <2>4. Good(d)' /\ delivered[d] # remote[d].version => After(d, since')
    BY <1>1, <1>u, <2>2, <2>3 DEF NotLost, Collected, HandedOver
  <2>5. NotLost(d)'
    <3>1. After(d, since)' <=> After(d, since')
      BY <1>u DEF After
    <3> QED
      BY <1>u, <2>2, <2>4, <3>1 DEF NotLost
  <2>6. FetchedLater(d)' /\ Collected(sync, d)'
    BY <1>u, NoSyncTyped DEF FetchedLater, Collected, ReadSoFar, ReadAll, HandedOver
  <2> QED
    BY <2>5, <2>6
<1> QED
  BY <1>3, <1>4, <1>5 DEF ConnectorsInv

(* The facts about a document read neither the clock nor the staged files. *)
LEMMA SourceUnchanged ==
  ASSUME UNCHANGED <<kind, remote, sync, since, delivered, disturbed>>,
         NEW d \in Docs, NotLost(d) /\ FetchedLater(d) /\ Collected(sync, d)
  PROVE  NotLost(d)' /\ FetchedLater(d)' /\ Collected(sync, d)'
<1>1. \A e, t : After(e, t)' <=> After(e, t)
  BY DEF After
<1>2. \A e : Good(e)' <=> Good(e)
  BY DEF Good, Present, OutOfReach, Listed
<1>3. \A p : Matches(p)' = Matches(p)
  BY DEF Matches, Present
<1>4. Passed(sync, d)' <=> Passed(sync, d)
  BY <1>3 DEF Passed, Position
<1>5. NotLost(d)' /\ FetchedLater(d)'
  BY <1>1, <1>2 DEF NotLost, FetchedLater
<1>6. Collected(sync, d)'
  BY <1>1, <1>2, <1>4 DEF Collected, ReadSoFar, ReadAll, HandedOver, Done
<1> QED
  BY <1>5, <1>6

(* A change of one document of the source: it is later than every          *)
(* checkpoint; while pages are read, it counts as disturbed, and no other  *)
(* document that does not moves to an earlier place.                       *)
LEMMA SourceMoves ==
  ASSUME ConnectorsInv, NEW d \in Docs, changes < MaxChanges, changes' = changes + 1,
         now' = IF kind = "git" THEN now + 1 ELSE now,
         remote' \in [Docs -> [there : BOOLEAN, version : Times, updated : Times]],
         \A e \in Docs \ {d} : remote'[e] = remote[e],
         remote'[d].updated = now',
         kind' = kind, sync' = sync, since' = since, staged' = staged,
         delivered' = delivered, faults' = faults,
         disturbed' \subseteq Docs,
         Paging => ~Good(d)',
         \A e \in Docs \ {d} : Good(e)' => Good(e),
         \A e \in Docs \ {d} : Paging /\ Good(e)' /\ ProjectOf[e] = sync.project =>
           Matches(sync.project) \subseteq Matches(sync.project)'
  PROVE  ConnectorsInv'
<1>t. ConnectorsTyped /\ Clock /\ sync \in SyncStates
  BY DEF ConnectorsInv, ConnectorsTyped
<1>n. now \in Nat /\ now' \in Nat /\ now <= now' /\ (kind = "git" => now' = now + 1)
  BY <1>t, Bounds DEF ConnectorsTyped
<1>1. now' \in Times /\ changes' \in Times /\ (kind = "git" => now' = changes')
  <2>1. changes \in Nat /\ changes + 1 \in 0..MaxChanges
    BY <1>t, Bounds DEF ConnectorsTyped
  <2>2. CASE kind = "git"
    BY <1>t, <2>1, <2>2 DEF ConnectorsTyped, Times
  <2>3. CASE kind # "git"
    BY <1>t, <2>1, <2>3 DEF ConnectorsTyped, Times
  <2> QED
    BY <2>2, <2>3
<1>2. ConnectorsTyped'
  BY <1>1, <1>t DEF ConnectorsTyped
<1>3. \A t \in Times : t <= now => t <= now'
  <2> TAKE t \in Times
  <2>1. t \in Nat
    BY Bounds
  <2> QED
    BY <1>n, <2>1
<1>p. since \in Times \cup {None} /\ sync.checkpoint \in Times \cup {None}
      /\ Past(since) /\ Past(sync.checkpoint)
  BY <1>t DEF ConnectorsTyped, SyncStates, Clock
<1>4. Clock'
  <2>1. Past(since)' /\ Past(sync.checkpoint)'
    BY <1>3, <1>p DEF Past
  <2>2. \A e \in Docs : remote'[e].updated <= now'
    <3> TAKE e \in Docs
    <3>1. CASE e = d
      BY <1>n, <3>1
    <3>2. CASE e # d
      BY <1>3, <1>t, <3>2 DEF Clock, ConnectorsTyped
    <3> QED
      BY <3>1, <3>2
  <2> QED
    BY <2>1, <2>2 DEF Clock
<1>5. ASSUME NEW t \in Times \cup {None}, Past(t) PROVE After(d, t)'
  <2> SUFFICES ASSUME t # None PROVE After(d, t)'
    BY DEF After
  <2>1. t \in Nat /\ t <= now
    BY <1>5, Bounds DEF Past
  <2>2. CASE kind = "git"
    <3>1. remote'[d].updated > t
      BY <1>n, <2>1, <2>2
    <3> QED
      BY <2>2, <3>1 DEF After
  <2>3. CASE kind # "git"
    <3>1. remote'[d].updated >= t
      BY <1>n, <2>1
    <3> QED
      BY <2>3, <3>1 DEF After
  <2> QED
    BY <2>2, <2>3
<1>6. NotLost(d)' /\ FetchedLater(d)' /\ Collected(sync, d)'
  <2>1. After(d, since)' /\ After(d, sync.checkpoint)'
    BY <1>5, <1>p
  <2>2. NotLost(d)' /\ FetchedLater(d)'
    BY <2>1 DEF NotLost, FetchedLater
  <2>3. Collected(sync, d)'
    BY <2>1 DEF Collected, ReadSoFar, ReadAll, HandedOver, Paging
  <2> QED
    BY <2>2, <2>3
<1>7. ASSUME NEW e \in Docs \ {d} PROVE NotLost(e)' /\ FetchedLater(e)' /\ Collected(sync, e)'
  <2>1. remote'[e] = remote[e] /\ (Good(e)' => Good(e))
    OBVIOUS
  <2>2. \A t : After(e, t)' <=> After(e, t)
    BY <2>1 DEF After
  <2>3. NotLost(e) /\ FetchedLater(e) /\ Collected(sync, e)
    BY DEF ConnectorsInv
  <2>4. NotLost(e)' /\ FetchedLater(e)'
    BY <2>1, <2>2, <2>3 DEF NotLost, FetchedLater
  <2>5. Good(e)' /\ Paging /\ Done(sync, e)' => Done(sync, e)
    <3> SUFFICES ASSUME Good(e)', Paging, ProjectOf[e] = sync.project, Passed(sync, e)'
                 PROVE  Passed(sync, e)
      BY DEF Done
    <3> DEFINE M == Matches(sync.project)
               N == Matches(sync.project)'
    <3>1. M \in SUBSET Docs /\ N \in SUBSET Docs /\ M \subseteq N
      BY DEF Matches, Present
    <3>2. e \in Nat /\ sync.start \in Nat
      BY <1>t, Bounds DEF SyncStates
    <3>3. Position(e, M) \in Nat /\ Position(e, N) \in Nat
      BY <3>1, <3>2, Positions
    <3>4. Position(e, M) <= Position(e, N)
      <4>1. {x \in M : x < e} \in SUBSET {x \in N : x < e}
        BY <3>1
      <4>2. IsFiniteSet({x \in N : x < e})
        <5>1. {x \in N : x < e} \in SUBSET N /\ IsFiniteSet(N)
          BY <3>1, Positions
        <5> QED
          BY <5>1, FS_Subset
      <4> HIDE DEF M, N
      <4> QED
        BY <4>1, <4>2, FS_Subset DEF Position
    <3>5. Passed(sync, e)' <=> IF kind = "cloud" THEN e <= sync.start ELSE Position(e, N) < sync.start
      BY DEF Passed, Position
    <3>6. Passed(sync, e) <=> IF kind = "cloud" THEN e <= sync.start ELSE Position(e, M) < sync.start
      BY DEF Passed
    <3> HIDE DEF M, N
    <3>7. Position(e, N) < sync.start => Position(e, M) < sync.start
      BY <3>2, <3>3, <3>4
    <3> QED
      BY <3>5, <3>6, <3>7
  <2>6. Collected(sync, e)'
    BY <2>1, <2>2, <2>3, <2>5 DEF Collected, ReadSoFar, ReadAll, HandedOver, Paging
  <2> QED
    BY <2>4, <2>6
<1> QED
  BY <1>2, <1>4, <1>6, <1>7 DEF ConnectorsInv

(* A document changes at the source: it is after every checkpoint.         *)
LEMMA ChangeDocumentKeeps ==
  ASSUME ConnectorsInv, NEW d \in Docs, ChangeDocument(d)
  PROVE  ConnectorsInv'
<1>t. ConnectorsTyped /\ Clock
  BY DEF ConnectorsInv
<1>1. /\ changes < MaxChanges /\ d \in Present /\ changes' = changes + 1
      /\ now' = IF kind = "git" THEN now + 1 ELSE now
      /\ remote' = [remote EXCEPT ![d].version = changes + 1, ![d].updated = now']
      /\ disturbed' = IF Paging THEN disturbed \cup {d} ELSE disturbed \ {d}
      /\ UNCHANGED <<kind, sync, since, staged, delivered, faults>>
  BY DEF ChangeDocument
<1>2. changes + 1 \in Times /\ now' \in Times
  <2>1. changes \in Nat /\ changes + 1 \in 0..MaxChanges
    BY <1>1, <1>t, Bounds DEF ConnectorsTyped
  <2>2. CASE kind = "git"
    BY <1>1, <1>t, <2>1, <2>2 DEF ConnectorsTyped, Times
  <2>3. CASE kind # "git"
    BY <1>1, <1>t, <2>1, <2>3 DEF ConnectorsTyped, Times
  <2> QED
    BY <2>1, <2>2, <2>3 DEF Times
<1>3. /\ remote' \in [Docs -> [there : BOOLEAN, version : Times, updated : Times]]
      /\ remote'[d].updated = now' /\ remote'[d].there = remote[d].there
      /\ \A e \in Docs \ {d} : remote'[e] = remote[e]
  <2> DEFINE a == [remote[d] EXCEPT !.version = changes + 1]
             b == [a EXCEPT !.updated = now']
  <2>1. remote' = [remote EXCEPT ![d] = b]
    BY <1>1
  <2>2. a \in [there : BOOLEAN, version : Times, updated : Times] /\ a.there = remote[d].there
    BY <1>2, <1>t DEF ConnectorsTyped
  <2> HIDE DEF a
  <2>3. b \in [there : BOOLEAN, version : Times, updated : Times] /\ b.there = a.there
        /\ b.updated = now'
    BY <1>2, <2>2
  <2> HIDE DEF b
  <2> QED
    BY <1>t, <2>1, <2>2, <2>3 DEF ConnectorsTyped
<1>4. Present' = Present
  BY <1>3 DEF Present
<1>5. /\ Paging => ~Good(d)'
      /\ \A e \in Docs \ {d} : Good(e)' => Good(e)
  BY <1>1, <1>4 DEF Good, OutOfReach, Listed
<1>6. Matches(sync.project) \subseteq Matches(sync.project)'
  <2> SUFFICES ASSUME NEW x \in Matches(sync.project) PROVE x \in Matches(sync.project)'
    OBVIOUS
  <2>1. x \in Docs /\ x \in Present /\ ProjectOf[x] = sync.project
        /\ (since = None \/ remote[x].updated >= since)
    BY DEF Matches, Present
  <2>2. since = None \/ remote'[x].updated >= since
    <3>1. CASE x # d
      BY <1>3, <2>1, <3>1
    <3>2. CASE x = d /\ since # None
      <4>1. since \in Nat /\ since <= now /\ now \in Nat
        BY <1>t, <3>2, Bounds DEF ConnectorsTyped, Clock, Past
      <4>2. now <= now'
        BY <1>1, <4>1
      <4>3. now' \in Nat
        BY <1>2, Bounds
      <4> QED
        BY <1>3, <3>2, <4>1, <4>2, <4>3
    <3> QED
      BY <3>1, <3>2
  <2> QED
    BY <1>1, <1>4, <2>1, <2>2 DEF Matches
<1>7. disturbed' \subseteq Docs
  BY <1>1, <1>t DEF ConnectorsTyped
<1> QED
  BY <1>1, <1>3, <1>5, <1>6, <1>7, SourceMoves

(* A document is removed at the source.                                    *)
LEMMA RemoveDocumentKeeps ==
  ASSUME ConnectorsInv, NEW d \in Docs, RemoveDocument(d)
  PROVE  ConnectorsInv'
<1>t. ConnectorsTyped /\ Clock
  BY DEF ConnectorsInv
<1>1. /\ changes < MaxChanges /\ d \in Present /\ changes' = changes + 1
      /\ now' = IF kind = "git" THEN now + 1 ELSE now
      /\ remote' = [remote EXCEPT ![d].there = FALSE, ![d].updated = now']
      /\ disturbed' = IF Paging
                      THEN disturbed \cup {e \in Docs : ProjectOf[e] = ProjectOf[d]}
                      ELSE disturbed
      /\ UNCHANGED <<kind, sync, since, staged, delivered, faults>>
  BY DEF RemoveDocument
<1>2. now' \in Times
  <2>1. changes \in Nat /\ changes + 1 \in 0..MaxChanges
    BY <1>1, <1>t, Bounds DEF ConnectorsTyped
  <2>2. CASE kind = "git"
    BY <1>1, <1>t, <2>1, <2>2 DEF ConnectorsTyped, Times
  <2>3. CASE kind # "git"
    BY <1>1, <1>t, <2>1, <2>3 DEF ConnectorsTyped, Times
  <2> QED
    BY <2>2, <2>3
<1>3. /\ remote' \in [Docs -> [there : BOOLEAN, version : Times, updated : Times]]
      /\ remote'[d].updated = now' /\ ~remote'[d].there
      /\ \A e \in Docs \ {d} : remote'[e] = remote[e]
  <2> DEFINE a == [remote[d] EXCEPT !.there = FALSE]
             b == [a EXCEPT !.updated = now']
  <2>1. remote' = [remote EXCEPT ![d] = b]
    BY <1>1
  <2>2. a \in [there : BOOLEAN, version : Times, updated : Times] /\ ~a.there
    BY <1>t DEF ConnectorsTyped
  <2> HIDE DEF a
  <2>3. b \in [there : BOOLEAN, version : Times, updated : Times] /\ b.there = a.there
        /\ b.updated = now'
    BY <1>2, <2>2
  <2> HIDE DEF b
  <2> QED
    BY <1>t, <2>1, <2>2, <2>3 DEF ConnectorsTyped
<1>4. Present' = Present \ {d}
  BY <1>3 DEF Present
<1>5. /\ ~Good(d)'
      /\ \A e \in Docs \ {d} : Good(e)' => Good(e)
  BY <1>1, <1>4 DEF Good, OutOfReach, Listed
<1>6. ASSUME NEW e \in Docs \ {d}, Paging, Good(e)', ProjectOf[e] = sync.project
      PROVE Matches(sync.project) \subseteq Matches(sync.project)'
  <2>1. ProjectOf[d] # sync.project
    BY <1>1, <1>6 DEF Good
  <2> SUFFICES ASSUME NEW x \in Matches(sync.project) PROVE x \in Matches(sync.project)'
    OBVIOUS
  <2>2. x \in Docs /\ x \in Present /\ ProjectOf[x] = sync.project
        /\ (since = None \/ remote[x].updated >= since)
    BY DEF Matches, Present
  <2>3. remote'[x] = remote[x] /\ x \in Present'
    BY <1>3, <1>4, <2>1, <2>2
  <2> QED
    BY <1>1, <2>2, <2>3 DEF Matches
<1>7. disturbed' \subseteq Docs
  BY <1>1, <1>t DEF ConnectorsTyped
<1> QED
  BY <1>1, <1>3, <1>5, <1>6, <1>7, SourceMoves

(* The clock of the source moves on.                                       *)
LEMMA TimePassesKeeps == ConnectorsInv /\ TimePasses => ConnectorsInv'
<1> SUFFICES ASSUME ConnectorsInv, TimePasses PROVE ConnectorsInv'
  OBVIOUS
<1>t. ConnectorsTyped /\ Clock /\ sync \in SyncStates
  BY DEF ConnectorsInv, ConnectorsTyped
<1>u. /\ kind # "git" /\ now < MaxChanges /\ now' = now + 1
      /\ UNCHANGED <<kind, remote, changes, sync, since, staged, delivered, disturbed, faults>>
  BY DEF TimePasses
<1>1. now' \in Times /\ now \in Nat
  BY <1>t, <1>u, Bounds DEF ConnectorsTyped, Times
<1>2. ConnectorsTyped'
  BY <1>1, <1>t, <1>u DEF ConnectorsTyped
<1>3. \A t \in Times : t <= now => t <= now'
  BY <1>1, <1>u, Bounds
<1>4. Clock'
  <2>1. since \in Times \cup {None} /\ sync.checkpoint \in Times \cup {None}
        /\ \A d \in Docs : remote[d].updated \in Times
    BY <1>t DEF ConnectorsTyped, SyncStates
  <2> QED
    BY <1>3, <1>t, <1>u, <2>1 DEF Clock, Past
<1>5. \A d \in Docs : NotLost(d)' /\ FetchedLater(d)' /\ Collected(sync, d)'
  BY <1>u, SourceUnchanged DEF ConnectorsInv
<1> QED
  BY <1>2, <1>4, <1>5 DEF ConnectorsInv

(* Every step keeps the invariant.                                         *)
LEMMA ConnectorsStepInv == ConnectorsInv /\ ConnectorsStep => ConnectorsInv'
<1> SUFFICES ASSUME ConnectorsInv, ConnectorsStep PROVE ConnectorsInv'
  OBVIOUS
<1>1. ASSUME NEW d \in Docs, ChangeDocument(d) PROVE ConnectorsInv'
  BY <1>1, ChangeDocumentKeeps
<1>2. ASSUME NEW d \in Docs, RemoveDocument(d) PROVE ConnectorsInv'
  BY <1>2, RemoveDocumentKeeps
<1>3. CASE CleanupStaging \/ UNCHANGED connectorVars
  <2>1. UNCHANGED <<kind, remote, now, changes, sync, since, delivered, disturbed, faults>>
    BY <1>3 DEF CleanupStaging, connectorVars
  <2>2. staged' \in [Names -> Docs \cup {0}]
    BY <1>3 DEF CleanupStaging, connectorVars, ConnectorsInv, ConnectorsTyped
  <2>3. ConnectorsTyped'
    BY <2>1, <2>2 DEF ConnectorsInv, ConnectorsTyped
  <2>4. Clock'
    BY <2>1 DEF ConnectorsInv, Clock, Past
  <2>5. \A d \in Docs : NotLost(d)' /\ FetchedLater(d)' /\ Collected(sync, d)'
    BY <2>1, SourceUnchanged DEF ConnectorsInv
  <2> QED
    BY <2>3, <2>4, <2>5 DEF ConnectorsInv
<1> QED
  BY <1>1, <1>2, <1>3, TimePassesKeeps, ListProjectsKeeps, FailingKeeps, JiraPageKeeps,
     ServerPageKeeps, CloudPageKeeps, PageWithoutTotalKeeps, GitSyncKeeps, StageDocumentsKeeps, KeepCheckpointKeeps
  DEF ConnectorsStep, ConnectorsNext

(* In a call without errors, everything that the checkpoint will leave     *)
(* behind has been read, or was left out of a response.                    *)
THEOREM ConnectorsInvariant == ConnectorsSpec => []ConnectorsInv
<1>1. ConnectorsInv /\ [ConnectorsNext]_connectorVars => ConnectorsInv'
  BY ConnectorsStepInv DEF ConnectorsStep
<1> QED
  BY <1>1, ConnectorsInitInv, PTL DEF ConnectorsSpec

(* Between two syncs, the next one finds every document whose version was  *)
(* never staged, unless it changed or moved while pages were read, or a    *)
(* sync left it out without an error.                                      *)
THEOREM NothingIsLostBetweenSyncs == ConnectorsSpec => []UnstagedIsFetched
BY ConnectorsInvariant, NotLostIsFetched, PTL

-----------------------------------------------------------------------------
Parts == {"accounts", "reclassification", "tags", "connectors", "schema", "experiments"}

(* A behaviour of the composition, seen from one component, is a behaviour *)
(* of that component: what a component's theorems say holds of the whole.  *)
THEOREM StoresAreSeparate ==
  Spec => /\ AccountsSpec /\ ReclassSpec /\ TagsSpec /\ ConnectorsSpec /\ SchemaSpec
          /\ ExperimentsSpec
<1>1. Init => /\ AccountsInit /\ ReclassInit /\ TagsInit /\ ConnectorsInit /\ SchemaInit
              /\ ExperimentsInit
  BY DEF Init
<1>2. [Next]_vars => /\ [AccountsNext]_accountVars
                     /\ [ReclassNext]_reclassVars
                     /\ [TagsNext]_tagVars
                     /\ [ConnectorsNext]_connectorVars
                     /\ [SchemaNext]_schemaVars
                     /\ [ExperimentsNext]_experimentVars
  BY DEF Next, vars
<1> QED
  BY <1>1, <1>2, PTL DEF Spec, AccountsSpec, ReclassSpec, TagsSpec, ConnectorsSpec, SchemaSpec,
    ExperimentsSpec

(* The variables of the component at work keep their types, whatever the   *)
(* other components are.                                                   *)
THEOREM StoresTypes == Spec => []StoresTypeOK
<1>1. Spec => [](part \in Parts)
  <2>1. Init => part \in Parts
    BY DEF Init, Parts
  <2>2. part \in Parts /\ [Next]_vars => (part \in Parts)'
    BY DEF Next, vars
  <2> QED
    BY <2>1, <2>2, PTL DEF Spec
<1>2. AccountsInv => AccountsTypeOK
  BY DEF AccountsInv
<1>3. TagsInv => TagsTypeOK
  BY DEF TagsInv
<1>4. SchemaInv => SchemaTypeOK
  BY DEF SchemaInv
<1>5. part \in Parts /\ AccountsTypeOK /\ ReclassTypeOK /\ TagsTypeOK /\ ConnectorsTypeOK
      /\ SchemaTypeOK /\ ExperimentsTypeOK => StoresTypeOK
  <2> SUFFICES ASSUME part \in Parts, AccountsTypeOK, ReclassTypeOK, TagsTypeOK, ConnectorsTypeOK,
                      SchemaTypeOK, ExperimentsTypeOK
               PROVE  StoresTypeOK
    OBVIOUS
  <2>1. CASE part = "accounts"
    BY <2>1 DEF StoresTypeOK
  <2>2. CASE part = "reclassification"
    BY <2>2 DEF StoresTypeOK
  <2>3. CASE part = "tags"
    BY <2>3 DEF StoresTypeOK
  <2>4. CASE part = "connectors"
    BY <2>4 DEF StoresTypeOK
  <2>5. CASE part = "schema"
    BY <2>5 DEF StoresTypeOK
  <2>6. CASE part = "experiments"
    BY <2>6 DEF StoresTypeOK
  <2> QED
    BY <2>1, <2>2, <2>3, <2>4, <2>5, <2>6 DEF Parts
<1> QED
  BY <1>1, <1>2, <1>3, <1>4, <1>5, StoresAreSeparate, ReclassTypes, ConnectorsTypes,
    ExperimentsTypes, AccountsInvariant, ReclassInvariant, TagsInvariant, ConnectorsInvariant,
    SchemaInvariant, ExperimentsInvariant, PTL
=============================================================================
