------------------------------ MODULE LRUCache ------------------------------
(***************************************************************************)
(* The cache of kb_server/cache/lru.py.  Every operation runs under the    *)
(* cache's lock, so an operation is a function from a cache to a cache.    *)
(*                                                                         *)
(* cache.entries is the OrderedDict, least recently used first; cache.size *)
(* is the count the code keeps, _current_size_bytes, which need not be the *)
(* sum of the sizes of the entries.                                        *)
(***************************************************************************)
EXTENDS Integers, Sequences, FiniteSets

CONSTANTS
  MaxSize,   (* _max_size_bytes, in words *)
  TTL        (* of every entry, in seconds *)

ASSUME CacheAssumption == MaxSize \in Nat /\ TTL \in Nat

EmptyCache == [entries |-> <<>>, size |-> 0]

KeysOf(es) == {es[i].key : i \in DOMAIN es}
Keys(cache) == KeysOf(cache.entries)
Place(es, key) == CHOOSE i \in DOMAIN es : es[i].key = key

(* Variant: the least recently used entry is found whatever the key. *)
EntryFirst(cache, key) == cache.entries[1]

Entry(cache, key) == cache.entries[Place(cache.entries, key)]

(* pop *)
Without(es, key) ==
  LET i == Place(es, key)
  IN  IF key \in KeysOf(es) THEN SubSeq(es, 1, i - 1) \o SubSeq(es, i + 1, Len(es)) ELSE es

TotalSize(es) ==
  LET Sum[n \in 0..Len(es)] == IF n = 0 THEN 0 ELSE Sum[n - 1] + es[n].size
  IN  Sum[Len(es)]

Expired(e, now) == now - e.created > TTL

-----------------------------------------------------------------------------
SizeHeld(cache, key) == IF key \in Keys(cache) THEN Entry(cache, key).size ELSE 0

Found(cache, key, now) == key \in Keys(cache) /\ ~Expired(Entry(cache, key), now)

(* Variant: an expired entry is dropped without its size. *)
AfterGetKeepingSize(cache, key, now) ==
  IF Found(cache, key, now)
    THEN [cache EXCEPT !.entries = Append(Without(@, key), Entry(cache, key))]
    ELSE [cache EXCEPT !.entries = Without(@, key)]

(* get: what it leaves of the cache.  An expired entry is evicted, a live  *)
(* one becomes the most recently used.                                     *)
AfterGet(cache, key, now) ==
  IF Found(cache, key, now)
    THEN [cache EXCEPT !.entries = Append(Without(@, key), Entry(cache, key))]
    ELSE [entries |-> Without(cache.entries, key),
          size |-> cache.size - SizeHeld(cache, key)]

(* put takes the size of the entry it replaces off the count but leaves    *)
(* the entry where it is; when it then has to evict, from the least        *)
(* recently used on, it can meet that entry and take its size off again.   *)
CountAfter(cache, key, n) ==
  cache.size - SizeHeld(cache, key) - TotalSize(SubSeq(cache.entries, 1, n))

(* how many entries the loop evicts; one more than there are when the new  *)
(* entry fits in no case                                                   *)
Evictions(cache, key, size) ==
  Cardinality({n \in 0..Len(cache.entries) : CountAfter(cache, key, n) + size > MaxSize})

(* put *)
AfterPut(cache, key, val, size, now) ==
  LET n == Evictions(cache, key, size)
      rest == SubSeq(cache.entries, n + 1, Len(cache.entries))
  IN  IF n > Len(cache.entries)
        THEN [entries |-> <<>>, size |-> CountAfter(cache, key, Len(cache.entries))]
        ELSE [entries |-> Append(Without(rest, key),
                                 [key |-> key, val |-> val, size |-> size, created |-> now]),
              size |-> CountAfter(cache, key, n) + size]

(* put takes the size of the replaced entry off twice *)
TakesOffTwice(cache, key, size) ==
  key \in Keys(cache) /\ Place(cache.entries, key) <= Evictions(cache, key, size)
=============================================================================
