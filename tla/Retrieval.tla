----------------------------- MODULE Retrieval -----------------------------
(***************************************************************************)
(* The reading tools of the MCP server (search_kb, list_documents,         *)
(* get_chunk, kb_stats and the graph tools) and what they ask of Qdrant: a *)
(* dense, a hybrid or a multi-collection search, the fusion of ranked      *)
(* lists, the reranking, and the scrolls.  A tool call is a few requests   *)
(* to the database, and the index changes between them.                    *)
(*                                                                         *)
(* Chunks are numbered in the order in which Qdrant scrolls them.  A query *)
(* is abstracted to the rankings it induces: Orders are sequences of all   *)
(* chunks, best first, and to how far down each goes: the dense search     *)
(* leaves out the scores below its threshold, the sparse one what shares   *)
(* no term with the query.  Filters are abstracted to the chunks they      *)
(* keep: the fields that every search passes on (product, doc_type,        *)
(* version, file type) and those that only the dense search does (vendor,  *)
(* subsystem, module).                                                     *)
(***************************************************************************)
EXTENDS Naturals, Sequences, FiniteSets

CONSTANTS
  Chunks,         \* chunks that may be indexed, a set of positive numbers
  Documents, DocumentOf, IndexOf,  \* document of a chunk, its chunk_index there
  Collections, DefaultCollection, CollectionOf, NoCollection,
  KeptBy,         \* KeptBy[f]: the chunks that match the filter f
  Orders,         \* rankings
  Depths,           \* how many chunks of a ranking score well enough to be found
  TopKs,          \* numbers of results asked for (at most 20, says the tool's schema)
  Limits,         \* numbers of documents or chunks asked for
  RerankCap,      \* most results retrieved for a reranking (20 in the code)
  HybridCap,      \* most results of each half of a hybrid search (50)
  PageSize,       \* points of a page of a scroll (500)
  ScrollSlack,    \* points get_chunk reads beyond its window (10)
  SampleSize,     \* points that kb_stats looks at (1000)
  MaxIndexChanges \* bound: points added or removed

Filters == {"none", "shared", "dense only"}

ASSUME RetrievalAssumption ==
  /\ Chunks \subseteq Nat \ {0} /\ IsFiniteSet(Chunks)
  /\ IsFiniteSet(Documents) /\ IsFiniteSet(Collections)
  /\ DocumentOf \in [Chunks -> Documents] /\ IndexOf \in [Chunks -> Nat]
  /\ CollectionOf \in [Chunks -> Collections]
  /\ DefaultCollection \in Collections /\ NoCollection \notin Collections
  /\ KeptBy \in [Filters -> SUBSET Chunks] /\ KeptBy["none"] = Chunks
  /\ \A order \in Orders : /\ order \in Seq(Chunks)
                           /\ \A x \in Chunks : \E i \in DOMAIN order : order[i] = x
                           /\ \A i, j \in DOMAIN order : order[i] = order[j] => i = j
  /\ Depths \subseteq Nat
  /\ Limits \subseteq Nat \ {0}
  /\ RerankCap \in Nat /\ TopKs \subseteq 1..RerankCap
  /\ HybridCap \in Nat /\ RerankCap <= HybridCap
  /\ PageSize \in Nat \ {0} /\ ScrollSlack \in Nat
  /\ {SampleSize, MaxIndexChanges} \subseteq Nat

VARIABLES
  index,          \* chunks in Qdrant
  request,        \* the tool call and its arguments
  at,             \* where the call is
  found,          \* ranked lists and pages it has read
  answer,         \* what it returns
  indexChanges,   \* points added or removed
  moved           \* the index changed since the call began

retrievalVars == <<index, request, at, found, answer, indexChanges, moved>>

Nothing == [dense |-> <<>>, sparse |-> <<>>, per |-> <<>>, counts |-> <<>>, offset |-> 0]

RetrievalInit ==
  /\ index \in SUBSET Chunks
  /\ request = [tool |-> "none"]
  /\ at = "idle"
  /\ found = Nothing
  /\ answer = <<>>
  /\ indexChanges = 0
  /\ moved = FALSE

RetrievalTypeOK ==
  /\ index \subseteq Chunks
  /\ at \in {"idle", "resolve", "embed", "search", "sparse", "multi", "rank",
             "list", "graph", "count", "sample", "context", "neighbours", "answered",
             "refused"}
  /\ found.offset \in Nat
  /\ indexChanges \in 0..MaxIndexChanges
  /\ moved \in BOOLEAN

-----------------------------------------------------------------------------
(* Ranked lists.  An order is the set of pairs whose first comes first.   *)

Place(x, S, order)  == Cardinality({y \in S : <<y, x>> \in order})
Ranked(S, order)    ==
  [i \in 1..Cardinality(S) |-> CHOOSE x \in S : Place(x, S, order) = i - 1]
ByNumber            == {e \in Chunks \X Chunks : e[1] < e[2]}

AtMost(k, list)     == SubSeq(list, 1, IF k < Len(list) THEN k ELSE Len(list))
Members(list)       == {list[i] : i \in DOMAIN list}
RankIn(list, x)     == CHOOSE i \in DOMAIN list : list[i] = x
SmallestOf(a, b)    == IF a < b THEN a ELSE b

Before(list) ==
  {e \in Members(list) \X Members(list) : RankIn(list, e[1]) < RankIn(list, e[2])}
Keeping(list, S)    == Ranked(Members(list) \cap S, Before(list))

Inside(c)           == {x \in index : CollectionOf[x] = c}

(* A search of one collection: the k best of the chunks the filter keeps.  *)
BestOf(k, order, c, kept) == AtMost(k, Keeping(order, Inside(c) \cap kept))

(* Reciprocal rank fusion, with weights 0.7 and 0.3 and the constant 60 as *)
(* in the code; a score is a pair, numerator and denominator, in tenths.   *)
Contribution(list, x, weight) ==
  IF x \in Members(list) THEN <<weight, 60 + RankIn(list, x)>> ELSE <<0, 1>>
FusedScore(dense, sparse, x) ==
  LET a == Contribution(dense, x, 7)
      b == Contribution(sparse, x, 3)
  IN <<a[1] * b[2] + b[1] * a[2], a[2] * b[2]>>
Exceeds(p, q) == p[1] * q[2] > q[1] * p[2]

(* Sorted by score; equal scores stay in the order of their first listing. *)
Fusion(dense, sparse) ==
  LET listed   == dense \o Keeping(sparse, Members(sparse) \ Members(dense))
      score(x) == FusedScore(dense, sparse, x)
  IN Ranked(Members(listed),
       {e \in Members(listed) \X Members(listed) :
          \/ Exceeds(score(e[1]), score(e[2]))
          \/ ~Exceeds(score(e[2]), score(e[1])) /\ e \in Before(listed)})

(* The lists of several collections, in the order in which they came: the  *)
(* chunks of one rank after those of the rank above.  The normalised       *)
(* scores that the code computes first play no part in the ranking.        *)
MergedLists(lists) ==
  LET Merged     == UNION {Members(lists[n]) : n \in DOMAIN lists}
      Listing(x) == CHOOSE n \in DOMAIN lists : x \in Members(lists[n])
      RankOf(x)  == RankIn(lists[Listing(x)], x)
  IN Ranked(Merged,
       {e \in Merged \X Merged :
          \/ RankOf(e[1]) < RankOf(e[2])
          \/ RankOf(e[1]) = RankOf(e[2]) /\ Listing(e[1]) < Listing(e[2])})

-----------------------------------------------------------------------------
(* search_kb.  With several knowledge bases, `hybrid', `rerank' and        *)
(* `collection' are ignored; a hybrid search drops `collection' and the    *)
(* filters that only the dense search knows.  Of the dense ranking the     *)
(* first `relevant' chunks reach the score threshold; of the sparse one    *)
(* the first `matching' share a term with the query, none when the sparse  *)
(* embedding or search fails, or the collection has no sparse vectors: all *)
(* those give an empty list.  (A ranking that the call does not use is the *)
(* dense one, so that it is not enumerated.)                               *)
SearchRequests ==
  {r \in [tool : {"search_kb"}, collection : Collections \cup {NoCollection},
           multi : BOOLEAN, filter : Filters, topK : TopKs, hybrid : BOOLEAN,
           rerank : BOOLEAN, dense : Orders, sparse : Orders, cross : Orders,
           relevant : Depths, matching : Depths \cup {0}] :
     /\ r.multi => r.collection = NoCollection
     /\ (r.hybrid /\ ~r.multi) \/ (r.sparse = r.dense /\ r.matching = 0)
     /\ (r.rerank /\ ~r.multi) \/ r.cross = r.dense}

SearchKb ==
  /\ at = "idle"
  /\ request' \in SearchRequests
  /\ at' = "resolve"
  /\ UNCHANGED <<found, answer>>

Target == IF request.collection = NoCollection THEN DefaultCollection
          ELSE request.collection

(* The collection may not exist, and the embedding may fail: the tool says *)
(* so.                                                                     *)
Resolve ==
  /\ at = "resolve"
  /\ at' \in {CASE request.tool = "search_kb"      -> "embed"
                [] request.tool = "list_documents" -> "list"
                [] request.tool = "explore_topic"  -> "graph", "refused"}
  /\ UNCHANGED <<request, found, answer>>

EmbedQuery ==
  /\ at = "embed"
  /\ at' \in {IF request.multi THEN "multi" ELSE "search", "refused"}
  /\ UNCHANGED <<request, found, answer>>

RetrieveK == IF request.rerank THEN SmallestOf(request.topK * 4, RerankCap)
             ELSE request.topK

(* What the threshold leaves of the dense ranking, and what the sparse     *)
(* search can find at all.                                                 *)
Relevant == {x \in Chunks : RankIn(request.dense, x) <= request.relevant}
Matching == {x \in Chunks : RankIn(request.sparse, x) <= request.matching}

(* A hybrid search reads more of each ranking than it returns, up to a cap *)
(* of its own, and its filter is the shared fields.                        *)
HybridK    == SmallestOf(RetrieveK * 4, HybridCap)
HybridKept == IF request.filter = "dense only" THEN Chunks ELSE KeptBy[request.filter]

DenseSearch ==
  /\ at = "search"
  /\ IF request.hybrid
     THEN /\ found' = [found EXCEPT !.dense =
               BestOf(HybridK, request.dense, DefaultCollection, HybridKept \cap Relevant)]
          /\ at' = "sparse"
     ELSE /\ found' = [found EXCEPT !.dense =
               BestOf(RetrieveK, request.dense, Target,
                      KeptBy[request.filter] \cap Relevant)]
          /\ at' = "rank"
  /\ UNCHANGED <<request, answer>>

SparseSearch ==
  /\ at = "sparse"
  /\ LET sparse == BestOf(HybridK, request.sparse, DefaultCollection,
                          HybridKept \cap Matching)
     IN found' = [found EXCEPT !.sparse = sparse,
                               !.dense = AtMost(RetrieveK, Fusion(found.dense, sparse))]
  /\ at' = "rank"
  /\ UNCHANGED <<request, answer>>

(* One search per collection, concurrently; lists come in any order. *)
MultiSearch ==
  /\ at = "multi"
  /\ \E c \in Collections :
       /\ \A n \in DOMAIN found.per : found.per[n].collection # c
       /\ found' = [found EXCEPT !.per = Append(found.per,
            [collection |-> c,
             list |-> BestOf(RetrieveK, request.dense, c,
                             KeptBy[request.filter] \cap Relevant)])]
  /\ at' = IF Len(found'.per) = Cardinality(Collections) THEN "rank" ELSE "multi"
  /\ UNCHANGED <<request, answer>>

(* The reranking sorts what was retrieved; when it fails, the order is     *)
(* kept.  It is never awaited, so the answer is formed at once.            *)
Rank ==
  /\ at = "rank"
  /\ \/ /\ request.multi
        /\ answer' = AtMost(request.topK,
                            MergedLists([n \in DOMAIN found.per |-> found.per[n].list]))
     \/ /\ ~request.multi
        /\ answer' \in
             {AtMost(request.topK, found.dense)} \cup
             (IF request.rerank
              THEN {AtMost(request.topK, Keeping(request.cross, Members(found.dense)))}
              ELSE {})
  /\ at' = "answered"
  /\ UNCHANGED <<request, found>>

-----------------------------------------------------------------------------
(* list_documents: pages of chunks are counted by document until there are *)
(* no more of them, or as many documents as were asked for.                *)
ListDocuments ==
  /\ at = "idle"
  /\ \E c \in Collections \cup {NoCollection}, f \in Filters, limit \in Limits :
       request' = [tool |-> "list_documents", collection |-> c, filter |-> f,
                   limit |-> limit]
  /\ at' = "resolve"
  /\ found' = [found EXCEPT !.counts = [d \in Documents |-> 0]]
  /\ UNCHANGED answer

(* Variant: the offset of a page is the last point of the one before. *)
FollowingInclusive(offset, S) ==
  AtMost(PageSize, Ranked({x \in S : x >= offset}, ByNumber))

Following(offset, S) ==
  AtMost(PageSize, Ranked({x \in S : x > offset}, ByNumber))

ListPage ==
  /\ at = "list"
  /\ LET matching == Inside(Target) \cap KeptBy[request.filter]
         page     == Following(found.offset, matching)
         counts   == [d \in Documents |->
                        found.counts[d] +
                        Cardinality({x \in Members(page) : DocumentOf[x] = d})]
         listed   == {d \in Documents : counts[d] > 0}
         last     == IF page = <<>> THEN found.offset ELSE page[Len(page)]
     IN /\ found' = [found EXCEPT !.counts = counts, !.offset = last]
        /\ IF (\E x \in matching : x > last) /\ Cardinality(listed) < request.limit
           THEN UNCHANGED <<at, answer>>
           ELSE /\ at' = "answered"
                /\ \E cut \in SUBSET listed :
                     /\ Cardinality(cut) = SmallestOf(request.limit, Cardinality(listed))
                     /\ answer' = [d \in cut |-> counts[d]]
  /\ UNCHANGED request

-----------------------------------------------------------------------------
(* get_chunk: the chunk, then the first points of its document in scroll   *)
(* order, of which those within the window are kept.                       *)
GetChunk ==
  /\ at = "idle"
  /\ \E x \in Chunks, window \in 0..1 :
       request' = [tool |-> "get_chunk", chunk |-> x, window |-> window]
  /\ at' = "context"
  /\ UNCHANGED <<found, answer>>

RetrieveChunk ==
  /\ at = "context"
  /\ IF request.chunk \in Inside(DefaultCollection)
     THEN at' = "neighbours" ELSE at' = "refused"
  /\ UNCHANGED <<request, found, answer>>

OfDocument(x) == {y \in Inside(DefaultCollection) : DocumentOf[y] = DocumentOf[x]}

WithinWindow(x, y) ==
  /\ IndexOf[y] + request.window >= IndexOf[x]
  /\ IndexOf[y] <= IndexOf[x] + request.window

ScrollLimit == request.window * 2 + ScrollSlack

(* A stable sort of what was scrolled. *)
ByIndex ==
  {e \in Chunks \X Chunks : \/ IndexOf[e[1]] < IndexOf[e[2]]
                            \/ IndexOf[e[1]] = IndexOf[e[2]] /\ e[1] < e[2]}

Neighbours ==
  /\ at = "neighbours"
  /\ LET read == AtMost(ScrollLimit, Ranked(OfDocument(request.chunk), ByNumber))
     IN answer' = Ranked({y \in Members(read) : WithinWindow(request.chunk, y)}, ByIndex)
  /\ at' = "answered"
  /\ UNCHANGED <<request, found>>

-----------------------------------------------------------------------------
(* get_related_documents and explore_topic: the first points, in scroll    *)
(* order, with a graph id or a topic.                                      *)
GraphTool ==
  /\ at = "idle"
  /\ \E c \in Collections \cup {NoCollection}, limit \in Limits :
       request' = [tool |-> "explore_topic", collection |-> c, filter |-> "shared",
                   limit |-> limit]
  /\ at' = "resolve"
  /\ UNCHANGED <<found, answer>>

GraphScroll ==
  /\ at = "graph"
  /\ answer' = AtMost(request.limit,
                      Ranked(Inside(Target) \cap KeptBy["shared"], ByNumber))
  /\ at' = "answered"
  /\ UNCHANGED <<request, found>>

(* kb_stats: the count of points, then the documents of a sample of them.  *)
KbStats ==
  /\ at = "idle"
  /\ request' = [tool |-> "kb_stats"]
  /\ at' = "count"
  /\ UNCHANGED <<found, answer>>

CountPoints ==
  /\ at = "count"
  /\ found' = [found EXCEPT !.offset = Cardinality(Inside(DefaultCollection))]
  /\ at' = "sample"
  /\ UNCHANGED <<request, answer>>

SamplePoints ==
  /\ at = "sample"
  /\ LET sample == AtMost(SampleSize, Ranked(Inside(DefaultCollection), ByNumber))
     IN answer' = [chunks |-> found.offset,
                   documents |-> {DocumentOf[x] : x \in Members(sample)}]
  /\ at' = "answered"
  /\ UNCHANGED <<request, found>>

-----------------------------------------------------------------------------
(* A request to Qdrant fails, or the sparse model cannot be loaded: the    *)
(* tool answers with the error.                                            *)
RequestFails ==
  /\ at \in {"search", "sparse", "multi", "list", "graph", "count", "sample",
             "context", "neighbours"}
  /\ at' = "refused"
  /\ UNCHANGED <<request, found, answer>>

(* Ingestion and maintenance, as the reader sees them: points come and go. *)
IndexMoves ==
  /\ indexChanges < MaxIndexChanges
  /\ at \notin {"idle", "answered", "refused"}
  /\ \E x \in Chunks : index' = (index \ {x}) \cup ({x} \ index)
  /\ indexChanges' = indexChanges + 1
  /\ moved' = TRUE
  /\ UNCHANGED <<request, at, found, answer>>

RetrievalNext ==
  \/ /\ \/ SearchKb \/ Resolve \/ EmbedQuery \/ DenseSearch \/ SparseSearch
        \/ MultiSearch \/ Rank
        \/ ListDocuments \/ ListPage
        \/ GetChunk \/ RetrieveChunk \/ Neighbours
        \/ GraphTool \/ GraphScroll
        \/ KbStats \/ CountPoints \/ SamplePoints
        \/ RequestFails
     /\ UNCHANGED <<index, indexChanges, moved>>
  \/ IndexMoves

RetrievalSpec == RetrievalInit /\ [][RetrievalNext]_retrievalVars

-----------------------------------------------------------------------------
(* What an answer promises.  A search returns at most top_k chunks, none   *)
(* twice, and none below one that it left out or that ranks lower: a chunk *)
(* that every ranking of the answer's kind puts after another, never comes *)
(* before it.  When the index stood still, nothing that matches and scores *)
(* well enough for one of its rankings is left out for less; a listing of  *)
(* fewer documents than its limit has them all, with all their chunks; and *)
(* a chunk comes with its window, provided its document has no more chunks *)
(* than the scroll reads.  It is about the fusion, the merge, the caps and *)
(* the paging.                                                             *)
Candidates ==
  CASE request.multi  -> index \cap KeptBy[request.filter] \cap Relevant
    [] request.hybrid /\ ~request.multi ->
         Inside(DefaultCollection) \cap HybridKept \cap (Relevant \cup Matching)
    [] OTHER          -> Inside(Target) \cap KeptBy[request.filter] \cap Relevant

(* x before y, as far as the request's rankings agree on the two; a merge  *)
(* of collections goes by the rank that a chunk has in its own.            *)
RankInCollection(x) ==
  Cardinality({y \in Candidates : /\ CollectionOf[y] = CollectionOf[x]
                                  /\ RankIn(request.dense, y) < RankIn(request.dense, x)})

AgreedBefore(x, y) ==
  IF request.multi THEN RankInCollection(x) < RankInCollection(y)
  ELSE /\ RankIn(request.dense, x) < RankIn(request.dense, y)
       /\ request.hybrid => RankIn(request.sparse, x) < RankIn(request.sparse, y)

SearchIsComplete ==
  LET returned == Members(answer) IN
  /\ Len(answer) = Cardinality(returned)
  /\ returned \subseteq Candidates
  /\ Len(answer) = SmallestOf(request.topK, Cardinality(Candidates))
  /\ ~request.rerank \/ request.multi =>
       \A x \in Candidates, y \in returned :
         AgreedBefore(x, y) => x \in returned /\ RankIn(answer, x) < RankIn(answer, y)

ListIsComplete ==
  LET matching == Inside(Target) \cap KeptBy[request.filter]
      listed   == {DocumentOf[x] : x \in matching}
  IN /\ Cardinality(DOMAIN answer) = SmallestOf(request.limit, Cardinality(listed))
     /\ Cardinality(listed) < request.limit =>
          answer = [d \in listed |-> Cardinality({x \in matching : DocumentOf[x] = d})]

ChunkHasItsWindow ==
  Cardinality(OfDocument(request.chunk)) <= ScrollLimit =>
    Members(answer) = {y \in OfDocument(request.chunk) : WithinWindow(request.chunk, y)}

UndisturbedAnswersAreComplete ==
  at = "answered" /\ ~moved =>
    CASE request.tool = "search_kb"      -> SearchIsComplete
      [] request.tool = "list_documents" -> ListIsComplete
      [] request.tool = "get_chunk"      -> ChunkHasItsWindow
      [] request.tool = "explore_topic"  ->
           Len(answer) = SmallestOf(request.limit,
                                    Cardinality(Inside(Target) \cap KeptBy["shared"]))
      [] request.tool = "kb_stats"       ->
           answer.chunks <= SampleSize =>
             answer.documents = {DocumentOf[x] : x \in Inside(DefaultCollection)}
=============================================================================
