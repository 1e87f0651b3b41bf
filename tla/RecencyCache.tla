---------------------------- MODULE RecencyCache ----------------------------
(***************************************************************************)
(* A least-recently-used cache as a map and an order of use, without the   *)
(* list, the hash map and the counters of LruCache.                        *)
(***************************************************************************)
EXTENDS Naturals, FiniteSets, Functions

CONSTANTS Key, Value, Capacity

VARIABLES content,  \* key -> last value put
          older     \* <<a, b>>: a was last used before b

Keys == DOMAIN content

\* The order after a use of k, among the keys that stay.
Used(k, keys) == {pair \in older : \A i \in {1, 2} : pair[i] \in keys \ {k}}
                    \cup {<<a, k>> : a \in keys \ {k}}

Init == content = << >> /\ older = {}

Get(k) == /\ k \in Keys
          /\ older' = Used(k, Keys)
          /\ UNCHANGED content

\* The keys left after k is put: all of them while there is room, all but the
\* one unused for longest otherwise, none if there is no room at all.
KeptFor(k) ==
    IF k \in Keys \/ Cardinality(Keys) < Capacity THEN Keys \cup {k}
    ELSE IF Keys = {} THEN {}
    ELSE (Keys \cup {k}) \ {CHOOSE a \in Keys : \A b \in Keys \ {a} : <<a, b>> \in older}

Put(k, v) ==
    /\ content' = [x \in KeptFor(k) |-> IF x = k THEN v ELSE content[x]]
    /\ older' = IF k \in KeptFor(k) THEN Used(k, KeptFor(k)) ELSE {}

Clear == content' = << >> /\ older' = {}

Next == Clear \/ \E k \in Key : Get(k) \/ \E v \in Value : Put(k, v)

Spec == Init /\ [][Next]_<<content, older>>
=============================================================================
