------------------------------ MODULE LruCache ------------------------------
(***************************************************************************)
(* The result cache (include/tinysearch/cache.h): a list of entries, most  *)
(* recently used first, and a hash map from key to list node.  The map is  *)
(* represented by its keys; the node of a key is the entry that carries    *)
(* it.  Every operation runs under the cache's own mutex and is one step.  *)
(* hits() and misses() read the counters without the mutex and are not     *)
(* modelled.                                                               *)
(***************************************************************************)
EXTENDS Naturals, Sequences, FiniteSets, SequencesExt

CONSTANTS Key, Value,
          Capacity,    \* capacity_
          MaxLookups   \* bound: calls of get()

ASSUME CapacityAssumption == Capacity \in Nat

VARIABLES entries,  \* entries_, front first
          index,    \* keys of index_
          hits, misses

cacheVars == <<entries, index, hits, misses>>

Entry == [key : Key, value : Value]

CacheInit == /\ entries = << >>
             /\ index = {}
             /\ hits = 0
             /\ misses = 0

\* index_[k]: where the node of k is.
Node(k) == CHOOSE i \in DOMAIN entries : entries[i].key = k

ValueOf(k) == entries[Node(k)].value

\* The node of k, now with the value v, is spliced to the front.
ToFront(k, v) == Cons([key |-> k, value |-> v], RemoveAt(entries, Node(k)))

\* Mutant: a hit leaves the entry where it is.
HitInPlace(k) == /\ k \in index
                 /\ hits + misses < MaxLookups
                 /\ hits' = hits + 1
                 /\ UNCHANGED <<entries, index, misses>>

Hit(k) == /\ k \in index
          /\ hits + misses < MaxLookups
          /\ hits' = hits + 1
          /\ entries' = ToFront(k, ValueOf(k))
          /\ UNCHANGED <<index, misses>>

Miss(k) == /\ k \notin index
           /\ hits + misses < MaxLookups
           /\ misses' = misses + 1
           /\ UNCHANGED <<entries, index, hits>>

\* put() of a key the cache holds: overwrite and move to the front.
Overwrite(k, v) == /\ k \in index
                   /\ entries' = ToFront(k, v)
                   /\ UNCHANGED <<index, hits, misses>>

\* Mutant: the front is dropped.
InsertOverNewest(k, v) ==
    LET full == Cardinality(index \cup {k}) > Capacity
    IN  /\ k \notin index
        /\ entries' = Cons([key |-> k, value |-> v], IF full THEN Tail(entries) ELSE entries)
        /\ index' = IF full THEN (index \cup {k}) \ {entries[1].key} ELSE index \cup {k}
        /\ UNCHANGED <<hits, misses>>

\* put() of a new key: insert in front, then drop the back if over capacity.
Insert(k, v) ==
    LET pushed == Cons([key |-> k, value |-> v], entries)
        full   == Cardinality(index \cup {k}) > Capacity
    IN  /\ k \notin index
        /\ entries' = IF full THEN Front(pushed) ELSE pushed
        /\ index' = IF full THEN (index \cup {k}) \ {Last(pushed).key} ELSE index \cup {k}
        /\ UNCHANGED <<hits, misses>>

Put(k, v) == Overwrite(k, v) \/ Insert(k, v)

\* Mutants: only the list is cleared; nothing is.
InvalidateList == entries' = << >> /\ UNCHANGED <<index, hits, misses>>
InvalidateNothing == UNCHANGED cacheVars

InvalidateAll == /\ entries' = << >>
                 /\ index' = {}
                 /\ UNCHANGED <<hits, misses>>

CacheNext == \/ InvalidateAll
             \/ \E k \in Key : \/ Hit(k)
                               \/ Miss(k)
                               \/ \E v \in Value : Put(k, v)

CacheSpec == CacheInit /\ [][CacheNext]_cacheVars
-----------------------------------------------------------------------------

CacheTypeOK == /\ entries \in Seq(Entry)
               /\ index \subseteq Key
               /\ hits \in Nat
               /\ misses \in Nat

(* List and map describe the same keys, no key has two nodes, and neither  *)
(* outgrows the capacity (a capacity of zero keeps nothing).  put() and    *)
(* the eviction update them separately; a node the map forgot would never  *)
(* be overwritten, a key without node would be a dangling iterator.        *)
ListMatchesMap ==
    /\ index = {entries[i].key : i \in DOMAIN entries}
    /\ Len(entries) = Cardinality(index)
    /\ Len(entries) <= Capacity

-----------------------------------------------------------------------------
(* What a caller may rely on: the content as a map, and which of two keys  *)
(* was used longer ago.                                                    *)

Content == [k \in index |-> ValueOf(k)]

Older == {pair \in index \X index : Node(pair[1]) > Node(pair[2])}

Recency == INSTANCE RecencyCache WITH content <- Content, older <- Older

(* The list with its hash map is a least-recently-used cache: values stay  *)
(* as they were put, and what gives way to a new key is the key unused for *)
(* longest.                                                                *)
ImplementsRecencyCache == Recency!Spec

(* Each call does what its name says of the key it is given: a hit makes   *)
(* this key the newest and a put stores this value, so that no hot key is  *)
(* ever the one that gives way.                                            *)
CallsUseTheirKey ==
    [][\A k \in Key : /\ Hit(k) => Recency!Get(k)
                      /\ \A v \in Value : Put(k, v) => Recency!Put(k, v)]_cacheVars
=============================================================================
