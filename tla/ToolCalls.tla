------------------------------ MODULE ToolCalls ------------------------------
(***************************************************************************)
(* The path of a search_kb tool call through the MCP server                *)
(* (kb_server/server.py): the request limiter, which is asked by the       *)
(* transport and again by the tool dispatcher, the retrieval cache, and    *)
(* the search on a miss.  An ingestion elsewhere changes the index at any  *)
(* time; nothing tells the server.                                         *)
(*                                                                         *)
(* The server is one event loop.  A call gives it up where it awaits       *)
(* Qdrant or the embedding provider and between the transport and the      *)
(* dispatcher; a step is what happens from one such point to the next.     *)
(* The locks of the limiter are never held across a wait, so a check is    *)
(* part of one step.  Reranking computes without giving up the loop.       *)
(***************************************************************************)
EXTENDS TokenBucket, LRUCache

CONSTANTS
  Calls,               (* calls in progress at the same time               *)
  Subjects,            (* hashed subjects: who the limiter counts          *)
  Queries,             (* cache keys: a query with all its parameters      *)
  Matches,             (* Matches[q][v]: results of q in version v         *)
  Transports,          (* those the server may be started with             *)
  CleanupInterval,     (* of the limiter, in seconds                       *)
  MaxVersion,          (* bound: changes of the index                      *)
  MaxTime              (* bound: seconds that pass                         *)

ASSUME ToolCallsAssumption ==
  /\ Transports \subseteq {"stdio", "streamable-http"}
  /\ CleanupInterval \in Nat \ {0}
  /\ MaxVersion \in Nat /\ MaxTime \in Nat
  /\ Matches \in [Queries -> [0..MaxVersion -> Nat]]

VARIABLES
  transport,    \* TRANSPORT
  now,          \* the clock
  index,        \* the version of what is indexed
  known,        \* the subjects that have a bucket: keys of _limiters
  buckets,      \* the bucket of each of them
  lastCleanup,  \* _last_cleanup
  cache,        \* the retrieval cache
  calls,        \* per call: where it is, for whom, its query and what it found
  opened,       \* history: when an observer opened a window of time,
  granted,      \*   and how many checks each subject has passed in it
  promise,      \* history: when a refused subject may come back, 0 if not refused
  recounted     \* history: a put has taken the size of an entry off twice

limiter == <<known, buckets, lastCleanup, granted, promise>>
vars == <<transport, now, index, known, buckets, lastCleanup, cache, calls, opened,
          granted, promise, recounted>>

Idle == [pc |-> "idle"]
Call == [pc : {"dispatched", "routing", "embedding", "searching", "found"},
         subject : Subjects, query : Queries, version : 0..MaxVersion]

(* Results: of which query, in which version, and when they were put in    *)
(* the cache by the call that searched.                                    *)
Results == [query : Queries, version : 0..MaxVersion, at : 0..MaxTime]
CacheEntry == [key : Queries, val : Results, size : Nat, created : 0..MaxTime]

TypeOK ==
  /\ transport \in Transports
  /\ now \in 0..MaxTime /\ opened \in 0..now
  /\ index \in 0..MaxVersion
  /\ known \subseteq Subjects
  /\ buckets \in [Subjects -> Bucket]
  /\ lastCleanup \in 0..now
  /\ cache \in [entries : Seq(CacheEntry), size : Int]
  /\ calls \in [Calls -> {Idle} \cup Call]
  /\ granted \in [Subjects -> Nat]
  /\ promise \in [Subjects -> Nat]
  /\ recounted \in BOOLEAN

Init ==
  /\ transport \in Transports
  /\ now = 0 /\ opened = 0 /\ index = 0
  /\ known = {}
  /\ buckets = [s \in Subjects |-> FullBucket(0)]
  /\ lastCleanup = 0
  /\ cache = EmptyCache
  /\ calls = [c \in Calls |-> Idle]
  /\ granted = [s \in Subjects |-> 0]
  /\ promise = [s \in Subjects |-> 0]
  /\ recounted = FALSE

-----------------------------------------------------------------------------
(* ServerRateLimiter *)

(* Variant: the comparison is turned round, the subjects in use are dropped. *)
KnownIdle ==
  IF now - lastCleanup >= CleanupInterval
    THEN {s \in known : AvailableTokens(buckets[s]) >= Capacity}
    ELSE known

(* _maybe_cleanup: the subjects left after it.  Full buckets are taken for *)
(* idle ones, without a refill.                                            *)
Known ==
  IF now - lastCleanup >= CleanupInterval
    THEN {s \in known : AvailableTokens(buckets[s]) < Capacity}
    ELSE known

(* _get_limiter, and the refill of try_acquire *)
Current(s) == Refilled(IF s \in Known THEN buckets[s] ELSE FullBucket(now), now)

(* check *)
Check(s, allowed) ==
  LET b == Current(s)
  IN  /\ allowed = CanTake(b)
      /\ known' = Known \cup {s}
      /\ lastCleanup' = IF now - lastCleanup >= CleanupInterval THEN now ELSE lastCleanup
      /\ buckets' = [buckets EXCEPT ![s] = IF allowed THEN Taken(b) ELSE b]
      /\ granted' = IF allowed THEN [granted EXCEPT ![s] = @ + 1] ELSE granted
      /\ promise' = [promise EXCEPT ![s] = IF allowed THEN 0
                                           ELSE IF @ = 0 THEN now + RetryAfter(b) ELSE @]

-----------------------------------------------------------------------------
(* A tool call *)

Begin(c, s, q) ==
  calls' = [calls EXCEPT ![c] = [pc |-> "dispatched", subject |-> s, query |-> q, version |-> 0]]

At(c, pc) == calls[c].pc = pc
Advance(c, pc) == calls' = [calls EXCEPT ![c].pc = pc]
Leave(c) == calls' = [calls EXCEPT ![c] = Idle]

(* handle_mcp; handle_sse checks in the same way.  A refused request is    *)
(* answered with status 429.                                               *)
Request(c, s, q) ==
  /\ transport = "streamable-http" /\ calls[c] = Idle
  /\ \E allowed \in BOOLEAN :
       /\ Check(s, allowed)
       /\ IF allowed THEN Begin(c, s, q) ELSE UNCHANGED calls
  /\ UNCHANGED <<transport, now, index, cache, opened, recounted>>

(* the stdio transport, which has one client and asks nobody *)
Read(c, s, q) ==
  /\ transport = "stdio" /\ calls[c] = Idle
  /\ known \subseteq {s} /\ \A d \in Calls : calls[d] # Idle => calls[d].subject = s
  /\ Begin(c, s, q)
  /\ UNCHANGED <<transport, now, index, cache, opened, recounted, limiter>>

(* call_tool, down to the wait for Qdrant's list of collections *)
CallTool(c) ==
  /\ At(c, "dispatched")
  /\ \E allowed \in BOOLEAN :
       /\ Check(calls[c].subject, allowed)
       /\ IF allowed THEN Advance(c, "routing") ELSE Leave(c)
  /\ UNCHANGED <<transport, now, index, cache, opened, recounted>>

(* The request is not for a tool after all (initialize, tools/list), the   *)
(* collection does not exist, the embedding backend is unavailable or      *)
(* Qdrant fails: the answer changes nothing.                               *)
CallFails(c) ==
  /\ calls[c].pc \in {"dispatched", "routing", "embedding", "searching"}
  /\ Leave(c)
  /\ UNCHANGED <<transport, now, index, cache, opened, recounted, limiter>>

(* sys.getsizeof of a list: a header and a word per result *)
SizeOf(val) == 7 + Matches[val.query][val.version]

(* retrieval_cache.put *)
PutResults(cached, q, val) ==
  /\ cache' = AfterPut(cached, q, val, SizeOf(val), now)
  /\ recounted' = (recounted \/ TakesOffTwice(cached, q, SizeOf(val)))

(* A hit is answered, and put in the cache again on the way out. *)
CacheHit(c) ==
  LET q == calls[c].query
  IN  /\ At(c, "routing") /\ Found(cache, q, now)
      /\ PutResults(AfterGet(cache, q, now), q, Entry(cache, q).val)
      /\ Leave(c)
      /\ UNCHANGED <<transport, now, index, opened, limiter>>

CacheMiss(c) ==
  /\ At(c, "routing") /\ ~Found(cache, calls[c].query, now)
  /\ cache' = AfterGet(cache, calls[c].query, now)
  /\ Advance(c, "embedding")
  /\ UNCHANGED <<transport, now, index, opened, recounted, limiter>>

(* get_embedding has answered. *)
Embedded(c) ==
  /\ At(c, "embedding")
  /\ Advance(c, "searching")
  /\ UNCHANGED <<transport, now, index, cache, opened, recounted, limiter>>

(* Qdrant evaluates the query; its answer is on the way. *)
Search(c) ==
  /\ At(c, "searching")
  /\ calls' = [calls EXCEPT ![c].pc = "found", ![c].version = index]
  /\ UNCHANGED <<transport, now, index, cache, opened, recounted, limiter>>

(* The answer arrives: reranking, the cache, the reply. *)
Answer(c) ==
  LET q == calls[c].query
  IN  /\ At(c, "found")
      /\ PutResults(cache, q, [query |-> q, version |-> calls[c].version, at |-> now])
      /\ Leave(c)
      /\ UNCHANGED <<transport, now, index, opened, limiter>>

-----------------------------------------------------------------------------
(* The surroundings *)

(* An ingestion or a reclassification changes what is indexed. *)
IndexChanges ==
  /\ index < MaxVersion
  /\ index' = index + 1
  /\ UNCHANGED <<transport, now, cache, calls, opened, recounted, limiter>>

Tick ==
  /\ now < MaxTime
  /\ now' = now + 1
  /\ UNCHANGED <<transport, index, cache, calls, opened, recounted, limiter>>

(* The observer opens a new window. *)
Observe ==
  /\ opened # now
  /\ opened' = now
  /\ granted' = [s \in Subjects |-> 0]
  /\ UNCHANGED <<transport, now, index, known, buckets, lastCleanup, cache, calls, promise, recounted>>

Next ==
  \/ \E c \in Calls, s \in Subjects, q \in Queries : Request(c, s, q) \/ Read(c, s, q)
  \/ \E c \in Calls :
       \/ CallTool(c) \/ CallFails(c) \/ CacheHit(c) \/ CacheMiss(c)
       \/ Embedded(c) \/ Search(c) \/ Answer(c)
  \/ IndexChanges \/ Tick \/ Observe

Spec == Init /\ [][Next]_vars

-----------------------------------------------------------------------------
(* Properties *)

(* In no window of time does a subject pass more checks than a full bucket *)
(* and the refill of that time allow, whatever the cleanup drops and       *)
(* creates anew meanwhile (rate_limiter.py check, _maybe_cleanup).         *)
GrantsWithinRate ==
  \A s \in Subjects :
    granted[s] * Token <= Capacity * Token + (now - opened) * RequestsPerMinute

(* A subject that was refused and comes back after the seconds announced   *)
(* to it, having been granted nothing in between, is admitted              *)
(* (rate_limiter.py check).                                                *)
RetryAfterSuffices ==
  \A s \in Subjects : promise[s] # 0 /\ now >= promise[s] => CanTake(Current(s))

(* However calls overlap, what the cache holds for a query was found by a  *)
(* search for that query, in a version the index has had, and each query   *)
(* has one entry (server.py _search_kb, lru.py).                           *)
CachedWasSearched ==
  \A i \in DOMAIN cache.entries :
    LET e == cache.entries[i]
    IN  /\ e.val.query = e.key
        /\ e.val.version <= index
        /\ e.val.at <= e.created /\ e.created <= now
        /\ \A j \in DOMAIN cache.entries : cache.entries[j].key = e.key => j = i

(* The cache's count is the size of what it holds, and within the limit,   *)
(* until a put takes an entry off twice (lru.py put).                      *)
AccountedUnlessRecounted ==
  /\ cache.size <= MaxSize
  /\ ~recounted => cache.size = TotalSize(cache.entries)

(* docs/SEARCH_QUALITY.md: entries expire after the TTL.  What can be      *)
(* served was put in the cache by a search no longer than that ago         *)
(* (request_cache.py, server.py _search_kb).                               *)
EntriesExpire ==
  \A i \in DOMAIN cache.entries :
    LET e == cache.entries[i] IN ~Expired(e, now) => now - e.val.at <= TTL
=============================================================================
