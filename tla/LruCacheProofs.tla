--------------------------- MODULE LruCacheProofs ---------------------------
(***************************************************************************)
(* The result cache, for every capacity and all sets of keys and values:   *)
(* list and map agree, and together they are a least-recently-used cache.  *)
(***************************************************************************)
EXTENDS LruCache, FiniteSetTheorems, SequenceTheorems, TLAPS

KeysOf(es)   == {es[i].key : i \in DOMAIN es}
Distinct(es) == \A i, j \in DOMAIN es : es[i].key = es[j].key => i = j
At(es, k)    == CHOOSE i \in DOMAIN es : es[i].key = k

\* No two nodes have the same key: without it the map could point to one of
\* them and the list evict the other.
CInv == /\ CacheTypeOK
        /\ index = KeysOf(entries)
        /\ Distinct(entries)
        /\ IsFiniteSet(index)
        /\ Len(entries) = Cardinality(index)
        /\ Len(entries) <= Capacity
-----------------------------------------------------------------------------

LEMMA AtFinds ==
    ASSUME NEW es, Distinct(es), NEW k \in KeysOf(es)
    PROVE  /\ At(es, k) \in DOMAIN es
           /\ es[At(es, k)].key = k
           /\ \A i \in DOMAIN es : es[i].key = k => i = At(es, k)
<1>1. \E i \in DOMAIN es : es[i].key = k
  BY DEF KeysOf
<1>2. At(es, k) \in DOMAIN es /\ es[At(es, k)].key = k
  BY <1>1 DEF At
<1> QED
  BY <1>2 DEF Distinct

\* Splicing node i to the front moves the nodes before it back by one.
LEMMA Spliced ==
    ASSUME NEW es \in Seq(Entry), NEW i \in DOMAIN es, NEW e \in Entry
    PROVE  LET new == Cons(e, RemoveAt(es, i))
           IN  /\ new \in Seq(Entry)
               /\ Len(new) = Len(es)
               /\ new[1] = e
               /\ \A j \in 1..Len(es) : /\ j < i => new[j + 1] = es[j]
                                        /\ j > i => new[j] = es[j]
<1> DEFINE before == SubSeq(es, 1, i - 1)
           after  == SubSeq(es, i + 1, Len(es))
           new    == <<e>> \o (before \o after)
<1>1. i \in 1..Len(es) /\ Len(es) \in Nat
  OBVIOUS
<1>2. /\ before \in Seq(Entry) /\ Len(before) = i - 1
      /\ \A j \in 1..i - 1 : before[j] = es[j]
  BY <1>1
<1>3. /\ after \in Seq(Entry) /\ Len(after) = Len(es) - i
      /\ \A j \in 1..Len(es) - i : after[j] = es[i + j]
  BY <1>1
<1> HIDE DEF before, after
<1>4. /\ new \in Seq(Entry) /\ Len(new) = Len(es) /\ new[1] = e
  BY <1>1, <1>2, <1>3
<1>5. ASSUME NEW j \in 1..Len(es), j < i PROVE new[j + 1] = es[j]
  <2>1. (before \o after)[j] = es[j]
    BY <1>1, <1>2, <1>3, <1>5
  <2> QED BY <1>1, <1>2, <1>3, <1>5, <2>1
<1>6. ASSUME NEW j \in 1..Len(es), j > i PROVE new[j] = es[j]
  <2>1. (before \o after)[j - 1] = after[j - i]
    BY <1>1, <1>2, <1>3, <1>6
  <2>2. after[j - i] = es[j]
    BY <1>1, <1>3, <1>6
  <2>3. before \o after \in Seq(Entry) /\ Len(before \o after) = Len(es) - 1
    BY <1>1, <1>2, <1>3
  <2> HIDE DEF new
  <2>4. new[j] = (before \o after)[j - 1]
    BY <1>1, <1>6, <2>3 DEF new
  <2> QED BY <2>1, <2>2, <2>4
<1> QED
  BY <1>4, <1>5, <1>6 DEF Cons, RemoveAt, before, after

\* Where the keys are after the splice.
LEMMA SplicedKeys ==
    ASSUME NEW es \in Seq(Entry), Distinct(es), NEW k \in KeysOf(es), NEW e \in Entry,
           e.key = k
    PROVE  LET new == Cons(e, RemoveAt(es, At(es, k)))
           IN  /\ new \in Seq(Entry) /\ Len(new) = Len(es)
               /\ KeysOf(new) = KeysOf(es) /\ Distinct(new)
               /\ At(new, k) = 1 /\ new[1] = e
               /\ \A a \in KeysOf(es) \ {k} :
                     /\ At(new, a) = IF At(es, a) < At(es, k) THEN At(es, a) + 1 ELSE At(es, a)
                     /\ new[At(new, a)] = es[At(es, a)]
<1> DEFINE i   == At(es, k)
           new == Cons(e, RemoveAt(es, i))
           to(j) == IF j < i THEN j + 1 ELSE j
<1>1. i \in DOMAIN es /\ i \in 1..Len(es) /\ es[i].key = k
  BY AtFinds
<1> HIDE DEF i
<1>2. /\ new \in Seq(Entry) /\ Len(new) = Len(es) /\ new[1] = e
      /\ \A j \in 1..Len(es) : (j < i => new[j + 1] = es[j]) /\ (j > i => new[j] = es[j])
  BY <1>1, Spliced
<1> HIDE DEF new
<1>3. \A j \in 1..Len(es) : j # i => to(j) \in 2..Len(es) /\ new[to(j)] = es[j]
  BY <1>1, <1>2
<1>4. \A m \in 2..Len(es) : \E j \in 1..Len(es) : j # i /\ to(j) = m
  <2> TAKE m \in 2..Len(es)
  <2>1. CASE m <= i
    <3> WITNESS m - 1 \in 1..Len(es)
    <3> QED BY <1>1, <2>1
  <2>2. CASE m > i
    <3> WITNESS m \in 1..Len(es)
    <3> QED BY <1>1, <2>2
  <2> QED BY <1>1, <2>1, <2>2
<1>5. \A j \in 1..Len(es) : es[j].key = k => j = i
  BY <1>1 DEF Distinct
<1>6. \A m \in 1..Len(es) : new[m].key = k <=> m = 1
  BY <1>2, <1>3, <1>4, <1>5
<1>7. Distinct(new)
  <2> SUFFICES ASSUME NEW m \in 1..Len(es), NEW n \in 1..Len(es), new[m].key = new[n].key
               PROVE  m = n
    BY <1>2 DEF Distinct
  <2>1. CASE m = 1 \/ n = 1
    BY <1>6, <2>1
  <2>2. CASE m # 1 /\ n # 1
    <3>1. PICK j \in 1..Len(es) : j # i /\ to(j) = m
      BY <1>4, <2>2
    <3>2. PICK l \in 1..Len(es) : l # i /\ to(l) = n
      BY <1>4, <2>2
    <3>3. es[j].key = es[l].key
      BY <1>3, <3>1, <3>2
    <3> QED BY <3>1, <3>2, <3>3 DEF Distinct
  <2> QED BY <2>1, <2>2
<1>8. KeysOf(new) = KeysOf(es)
  <2>1. DOMAIN es = 1..Len(es) /\ DOMAIN new = 1..Len(es)
    BY <1>2
  <2>2. \A m \in DOMAIN new : \E j \in DOMAIN es : new[m].key = es[j].key
    <3> TAKE m \in DOMAIN new
    <3>1. CASE m = 1
      BY <1>1, <1>2, <3>1
    <3>2. CASE m # 1
      <4>1. PICK j \in DOMAIN es : j # i /\ to(j) = m
        BY <1>4, <2>1, <3>2
      <4>2. new[m] = es[j]
        BY <1>3, <2>1, <4>1
      <4> QED BY <4>2
    <3> QED BY <3>1, <3>2
  <2>3. \A j \in DOMAIN es : \E m \in DOMAIN new : new[m].key = es[j].key
    <3> TAKE j \in DOMAIN es
    <3>1. CASE j = i
      BY <1>1, <1>2, <2>1, <3>1
    <3>2. CASE j # i
      <4>1. to(j) \in DOMAIN new /\ new[to(j)] = es[j]
        BY <1>3, <2>1, <3>2
      <4> QED BY <4>1
    <3> QED BY <3>1, <3>2
  <2>4. \A x \in KeysOf(new) : x \in KeysOf(es)
    BY <2>2 DEF KeysOf
  <2>5. \A x \in KeysOf(es) : x \in KeysOf(new)
    BY <2>3 DEF KeysOf
  <2> QED BY <2>4, <2>5
<1>9. At(new, k) = 1
  BY <1>1, <1>2, <1>6, <1>7, <1>8, AtFinds
<1>10. ASSUME NEW a \in KeysOf(es) \ {k}
       PROVE  At(new, a) = to(At(es, a)) /\ new[At(new, a)] = es[At(es, a)]
  <2>1. At(es, a) \in 1..Len(es) /\ es[At(es, a)].key = a /\ At(es, a) # i
    BY <1>1, AtFinds
  <2>2. to(At(es, a)) \in 1..Len(es) /\ new[to(At(es, a))] = es[At(es, a)]
    BY <1>3, <2>1
  <2>3. At(new, a) = to(At(es, a))
    BY <1>2, <1>7, <1>8, <2>1, <2>2, AtFinds
  <2> QED BY <2>2, <2>3
<1> QED
  BY <1>2, <1>7, <1>8, <1>9, <1>10 DEF new, i

-----------------------------------------------------------------------------
(* Insert pushes a node in front and may drop the back.                    *)

LEMMA PushedKeys ==
    ASSUME NEW es \in Seq(Entry), Distinct(es), NEW e \in Entry, e.key \notin KeysOf(es)
    PROVE  LET new == Cons(e, es)
           IN  /\ new \in Seq(Entry) /\ Len(new) = Len(es) + 1
               /\ KeysOf(new) = KeysOf(es) \cup {e.key} /\ Distinct(new)
               /\ At(new, e.key) = 1 /\ new[1] = e
               /\ \A a \in KeysOf(es) : /\ At(new, a) = At(es, a) + 1
                                        /\ new[At(new, a)] = es[At(es, a)]
<1> DEFINE new == Cons(e, es)
<1>1. /\ new \in Seq(Entry) /\ Len(new) = Len(es) + 1 /\ new[1] = e
      /\ \A j \in 1..Len(es) : new[j + 1] = es[j]
  BY DEF Cons
<1> HIDE DEF new
<1>2. DOMAIN es = 1..Len(es) /\ DOMAIN new = 1..Len(es) + 1 /\ Len(es) \in Nat
  BY <1>1
<1>3. \A m \in DOMAIN new : m # 1 => m - 1 \in DOMAIN es /\ new[m] = es[m - 1]
  <2> TAKE m \in DOMAIN new
  <2>1. m # 1 => m - 1 \in 1..Len(es) /\ (m - 1) + 1 = m
    BY <1>2
  <2> QED BY <1>1, <1>2, <2>1
<1>4. \A m \in DOMAIN new : new[m].key = e.key => m = 1
  BY <1>3 DEF KeysOf
<1>5. Distinct(new)
  <2> SUFFICES ASSUME NEW m \in DOMAIN new, NEW n \in DOMAIN new, new[m].key = new[n].key
               PROVE  m = n
    BY DEF Distinct
  <2>1. CASE m = 1 \/ n = 1
    BY <1>1, <1>4, <2>1
  <2>2. CASE m # 1 /\ n # 1
    <3>1. m - 1 = n - 1
      BY <1>3, <2>2 DEF Distinct
    <3> QED BY <1>2, <3>1
  <2> QED BY <2>1, <2>2
<1>6. KeysOf(new) = KeysOf(es) \cup {e.key}
  <2>1. \A x \in KeysOf(new) : x \in KeysOf(es) \cup {e.key}
    BY <1>1, <1>3 DEF KeysOf
  <2>2. \A j \in DOMAIN es : j + 1 \in DOMAIN new /\ new[j + 1] = es[j]
    BY <1>1, <1>2
  <2>3. \A x \in KeysOf(es) : x \in KeysOf(new)
    BY <2>2 DEF KeysOf
  <2>4. e.key \in KeysOf(new)
    BY <1>1, <1>2 DEF KeysOf
  <2> QED BY <2>1, <2>3, <2>4
<1>7. At(new, e.key) = 1
  BY <1>1, <1>2, <1>5, <1>6, AtFinds
<1>8. ASSUME NEW a \in KeysOf(es)
      PROVE  At(new, a) = At(es, a) + 1 /\ new[At(new, a)] = es[At(es, a)]
  <2>1. At(es, a) \in 1..Len(es) /\ es[At(es, a)].key = a
    BY AtFinds
  <2>2. At(es, a) + 1 \in DOMAIN new /\ new[At(es, a) + 1] = es[At(es, a)]
    BY <1>1, <1>2, <2>1
  <2>3. a \in KeysOf(new)
    BY <1>6
  <2>4. At(new, a) = At(es, a) + 1
    BY <1>5, <2>1, <2>2, <2>3, AtFinds
  <2> QED BY <2>2, <2>4
<1> QED
  BY <1>1, <1>5, <1>6, <1>7, <1>8 DEF new

LEMMA FrontKeys ==
    ASSUME NEW es \in Seq(Entry), es # << >>, Distinct(es)
    PROVE  /\ Front(es) \in Seq(Entry) /\ Len(Front(es)) = Len(es) - 1
           /\ KeysOf(Front(es)) = KeysOf(es) \ {Last(es).key} /\ Distinct(Front(es))
           /\ Last(es).key \in KeysOf(es) /\ At(es, Last(es).key) = Len(es)
           /\ \A a \in KeysOf(es) \ {Last(es).key} :
                 /\ At(Front(es), a) = At(es, a)
                 /\ Front(es)[At(es, a)] = es[At(es, a)]
<1> DEFINE new == Front(es)
           l   == Last(es).key
<1>1. Len(es) \in Nat /\ Len(es) >= 1 /\ DOMAIN es = 1..Len(es)
  OBVIOUS
<1>2. /\ new \in Seq(Entry) /\ Len(new) = Len(es) - 1 /\ DOMAIN new = 1..Len(es) - 1
      /\ \A j \in DOMAIN new : j \in DOMAIN es /\ new[j] = es[j]
  BY <1>1 DEF Front
<1>3. Len(es) \in DOMAIN es /\ es[Len(es)].key = l
  BY <1>1 DEF Last
<1> HIDE DEF new, l
<1>4. l \in KeysOf(es) /\ At(es, l) = Len(es)
  <2>1. l \in KeysOf(es)
    BY <1>3 DEF KeysOf
  <2> QED BY <1>3, <2>1, AtFinds
<1>5. Distinct(new)
  BY <1>2 DEF Distinct
<1>6. \A j \in DOMAIN es : es[j].key # l => j \in DOMAIN new
  BY <1>1, <1>2, <1>3
<1>7. \A j \in DOMAIN new : new[j].key # l
  BY <1>1, <1>2, <1>3 DEF Distinct
<1>8. KeysOf(new) = KeysOf(es) \ {l}
  <2>1. \A x \in KeysOf(new) : x \in KeysOf(es) \ {l}
    BY <1>2, <1>7 DEF KeysOf
  <2>2. \A x \in KeysOf(es) \ {l} : x \in KeysOf(new)
    BY <1>2, <1>6 DEF KeysOf
  <2> QED BY <2>1, <2>2
<1>9. ASSUME NEW a \in KeysOf(es) \ {l}
      PROVE  At(new, a) = At(es, a) /\ new[At(es, a)] = es[At(es, a)]
  <2>1. At(es, a) \in DOMAIN es /\ es[At(es, a)].key = a
    BY AtFinds
  <2>2. At(es, a) \in DOMAIN new
    BY <1>6, <2>1
  <2>3. a \in KeysOf(new)
    BY <1>8
  <2> QED BY <1>2, <1>5, <2>1, <2>2, <2>3, AtFinds
<1> QED
  BY <1>2, <1>4, <1>5, <1>8, <1>9 DEF new, l

-----------------------------------------------------------------------------
(* What the two operations do to the cache, in terms of keys.              *)

LEMMA NodesFound ==
    ASSUME CInv
    PROVE  /\ \A k \in index : /\ Node(k) = At(entries, k)
                               /\ Node(k) \in 1..Len(entries)
                               /\ entries[Node(k)].key = k
                               /\ ValueOf(k) \in Value
           /\ Node(Last(entries).key) = Len(entries) \/ entries = << >>
<1>1. ASSUME NEW k \in index
      PROVE  /\ Node(k) = At(entries, k) /\ Node(k) \in 1..Len(entries)
             /\ entries[Node(k)].key = k /\ ValueOf(k) \in Value
  <2>1. k \in KeysOf(entries) /\ Distinct(entries) /\ entries \in Seq(Entry)
    BY DEF CInv, CacheTypeOK
  <2>2. Node(k) = At(entries, k)
    BY DEF Node, At
  <2>3. Node(k) \in DOMAIN entries /\ entries[Node(k)].key = k
    BY <2>1, <2>2, AtFinds
  <2>4. entries[Node(k)] \in Entry
    BY <2>1, <2>3
  <2> QED BY <2>1, <2>2, <2>3, <2>4 DEF ValueOf, Entry
<1>2. ASSUME entries # << >> PROVE Node(Last(entries).key) = Len(entries)
  BY <1>2, FrontKeys DEF CInv, CacheTypeOK, Node, At
<1> QED
  BY <1>1, <1>2

\* A step after which k is the newest, with value v, and every other key that
\* is left keeps its value and its place in the order.
Uses(k, v) == /\ entries' \in Seq(Entry) /\ Distinct(entries')
              /\ index' = KeysOf(entries') /\ k \in index'
              /\ Node(k)' = 1 /\ ValueOf(k)' = v
              /\ \A a \in index' \ {k} : /\ a \in index
                                         /\ Node(a)' \in Nat /\ Node(a)' > 1
                                         /\ ValueOf(a)' = ValueOf(a)
              /\ \A a, b \in index' \ {k} : Node(a)' > Node(b)' <=> Node(a) > Node(b)

LEMMA MovedToFront ==
    ASSUME CInv, NEW k \in index, NEW v \in Value,
           entries' = ToFront(k, v), index' = index
    PROVE  Uses(k, v) /\ Len(entries') = Len(entries)
<1> DEFINE e == [key |-> k, value |-> v]
<1>1. /\ entries \in Seq(Entry) /\ Distinct(entries) /\ index = KeysOf(entries)
      /\ k \in Key /\ e \in Entry /\ e.key = k
  BY DEF CInv, CacheTypeOK, Entry
<1>2. entries' = Cons(e, RemoveAt(entries, At(entries, k)))
  BY <1>1, NodesFound DEF ToFront
<1> HIDE DEF e
<1>3. \A a : Node(a)' = At(entries', a) /\ Node(a) = At(entries, a)
  BY DEF Node, At
<1>4. \A a : ValueOf(a)' = entries'[At(entries', a)].value /\ ValueOf(a) = entries[At(entries, a)].value
  BY <1>3 DEF ValueOf
<1>5. /\ entries' \in Seq(Entry) /\ Len(entries') = Len(entries)
      /\ KeysOf(entries') = KeysOf(entries) /\ Distinct(entries')
      /\ At(entries', k) = 1 /\ entries'[1] = e
      /\ \A a \in KeysOf(entries) \ {k} :
            /\ At(entries', a) = IF At(entries, a) < At(entries, k) THEN At(entries, a) + 1
                                 ELSE At(entries, a)
            /\ entries'[At(entries', a)] = entries[At(entries, a)]
  BY <1>1, <1>2, SplicedKeys
<1>6. \A a \in index : /\ At(entries, a) \in 1..Len(entries)
                       /\ entries[At(entries, a)].key = a
  BY <1>3, NodesFound
<1>7. \A a \in index \ {k} : At(entries, a) # At(entries, k)
  BY <1>6
<1>8. ASSUME NEW a \in index \ {k}
      PROVE  At(entries', a) \in Nat /\ At(entries', a) > 1
  BY <1>1, <1>5, <1>6, <1>7
<1>9. ASSUME NEW a \in index \ {k}, NEW b \in index \ {k}
      PROVE  At(entries', a) > At(entries', b) <=> At(entries, a) > At(entries, b)
  BY <1>1, <1>5, <1>6, <1>7
<1>10. e.value = v
  BY DEF e
<1> QED
  BY <1>1, <1>3, <1>4, <1>5, <1>8, <1>9, <1>10 DEF Uses

\* A new key in front of the others; while there is room all of them stay.
LEMMA PushedInFront ==
    ASSUME CInv, NEW k \in Key \ index, NEW v \in Value
    PROVE  LET pushed == Cons([key |-> k, value |-> v], entries)
           IN  /\ pushed \in Seq(Entry) /\ Len(pushed) = Len(entries) + 1 /\ Distinct(pushed)
               /\ KeysOf(pushed) = index \cup {k}
               /\ At(pushed, k) = 1 /\ pushed[1].value = v
               /\ \A a \in index : /\ At(pushed, a) = Node(a) + 1
                                   /\ pushed[At(pushed, a)] = entries[Node(a)]
<1> DEFINE e == [key |-> k, value |-> v]
<1>1. /\ entries \in Seq(Entry) /\ Distinct(entries) /\ index = KeysOf(entries)
      /\ e \in Entry /\ e.key = k /\ e.value = v
  BY DEF CInv, CacheTypeOK, Entry
<1> HIDE DEF e
<1>2. \A a \in index : Node(a) = At(entries, a)
  BY NodesFound
<1> QED
  BY <1>1, <1>2, PushedKeys DEF e

LEMMA InsertedWithRoom ==
    ASSUME CInv, NEW k \in Key \ index, NEW v \in Value,
           entries' = Cons([key |-> k, value |-> v], entries), index' = index \cup {k}
    PROVE  Uses(k, v) /\ Len(entries') = Len(entries) + 1
<1>1. /\ entries' \in Seq(Entry) /\ Len(entries') = Len(entries) + 1 /\ Distinct(entries')
      /\ KeysOf(entries') = index' /\ At(entries', k) = 1 /\ entries'[1].value = v
      /\ \A a \in index : /\ At(entries', a) = Node(a) + 1
                          /\ entries'[At(entries', a)] = entries[Node(a)]
  BY PushedInFront
<1>2. \A a : Node(a)' = At(entries', a)
  BY DEF Node, At
<1>3. \A a \in index : Node(a) \in Nat \ {0}
  BY NodesFound DEF CInv, CacheTypeOK
<1> QED
  BY <1>1, <1>2, <1>3 DEF Uses, ValueOf

\* Without room the last of the others goes.
LEMMA InsertedWhenFull ==
    ASSUME CInv, NEW k \in Key \ index, NEW v \in Value, entries # << >>,
           entries' = Front(Cons([key |-> k, value |-> v], entries)),
           index' = (index \cup {k}) \ {Last(Cons([key |-> k, value |-> v], entries)).key}
    PROVE  /\ Uses(k, v) /\ Len(entries') = Len(entries)
           /\ index' = (index \cup {k}) \ {Last(entries).key}
           /\ Last(entries).key \in index
<1> DEFINE pushed == Cons([key |-> k, value |-> v], entries)
           l      == Last(entries).key
<1>1. entries \in Seq(Entry) /\ Distinct(entries) /\ index = KeysOf(entries)
  BY DEF CInv, CacheTypeOK
<1>2. l \in index /\ At(entries, l) = Len(entries)
  BY <1>1, FrontKeys
<1>3. Last(pushed) = Last(entries)
  BY <1>1 DEF Cons, Last
<1>4. /\ pushed \in Seq(Entry) /\ Len(pushed) = Len(entries) + 1 /\ Distinct(pushed)
      /\ KeysOf(pushed) = index \cup {k} /\ At(pushed, k) = 1 /\ pushed[1].value = v
      /\ \A a \in index : /\ At(pushed, a) = Node(a) + 1
                          /\ pushed[At(pushed, a)] = entries[Node(a)]
  BY PushedInFront
<1>5. Len(entries) \in Nat
  BY <1>1
<1> HIDE DEF pushed, l
<1>6. pushed # << >>
  BY <1>4, <1>5
<1>7. entries' = Front(pushed) /\ index' = (index \cup {k}) \ {l} /\ Last(pushed).key = l
  BY <1>3 DEF pushed, l
<1>8. /\ entries' \in Seq(Entry) /\ Len(entries') = Len(entries) /\ Distinct(entries')
      /\ KeysOf(entries') = index'
      /\ \A a \in index' : /\ At(entries', a) = At(pushed, a)
                           /\ entries'[At(pushed, a)] = pushed[At(pushed, a)]
  <2>1. /\ Front(pushed) \in Seq(Entry) /\ Len(Front(pushed)) = Len(pushed) - 1
        /\ KeysOf(Front(pushed)) = KeysOf(pushed) \ {Last(pushed).key}
        /\ Distinct(Front(pushed))
        /\ \A a \in KeysOf(pushed) \ {Last(pushed).key} :
              /\ At(Front(pushed), a) = At(pushed, a)
              /\ Front(pushed)[At(pushed, a)] = pushed[At(pushed, a)]
    BY <1>4, <1>6, FrontKeys
  <2>2. KeysOf(pushed) \ {Last(pushed).key} = index'
    BY <1>4, <1>7
  <2> DEFINE new == Front(pushed)
  <2>3. entries' = new
    BY <1>7
  <2>4. /\ new \in Seq(Entry) /\ Len(new) = Len(entries) /\ Distinct(new)
        /\ KeysOf(new) = index'
        /\ \A a \in index' : /\ At(new, a) = At(pushed, a)
                             /\ new[At(pushed, a)] = pushed[At(pushed, a)]
    BY <1>4, <1>5, <2>1, <2>2
  <2> HIDE DEF new
  <2> QED BY <2>3, <2>4
<1>9. \A a : Node(a)' = At(entries', a)
  BY DEF Node, At
<1>10. \A a \in index : Node(a) \in Nat \ {0}
  BY NodesFound DEF CInv, CacheTypeOK
<1>11. k \in index' /\ k # l
  BY <1>2, <1>7
<1>12. ValueOf(k)' = v
  BY <1>4, <1>8, <1>9, <1>11 DEF ValueOf
<1>13. \A a \in index' \ {k} : a \in index /\ Node(a)' = Node(a) + 1
  BY <1>4, <1>7, <1>8, <1>9
<1>14. \A a \in index' \ {k} : ValueOf(a)' = ValueOf(a)
  BY <1>4, <1>7, <1>8, <1>9, <1>13 DEF ValueOf
<1>15. Node(k)' = 1
  BY <1>4, <1>8, <1>9, <1>11
<1>16. Uses(k, v)
  BY <1>8, <1>10, <1>11, <1>12, <1>13, <1>14, <1>15 DEF Uses
<1> QED
  BY <1>2, <1>7, <1>8, <1>16 DEF l

\* A cache of no size drops the key it was given.
LEMMA InsertedNowhere ==
    ASSUME CInv, NEW k \in Key \ index, NEW v \in Value, entries = << >>
    PROVE  LET pushed == Cons([key |-> k, value |-> v], entries)
           IN  index = {} /\ Front(pushed) = << >> /\ (index \cup {k}) \ {Last(pushed).key} = {}
<1>1. index = {}
  BY DEF CInv, KeysOf
<1>2. Cons([key |-> k, value |-> v], entries) = <<[key |-> k, value |-> v]>>
  BY DEF Cons
<1> DEFINE pushed == Cons([key |-> k, value |-> v], entries)
<1>3. pushed \in Seq(Entry) /\ Len(pushed) = 1 /\ Distinct(pushed) /\ KeysOf(pushed) = {k}
  BY <1>1, PushedInFront
<1> HIDE DEF pushed
<1>4. Front(pushed) \in Seq(Entry) /\ Len(Front(pushed)) = 0
  <2>1. pushed # << >>
    BY <1>3, EmptySeq
  <2> QED BY <1>3, <2>1, FrontKeys
<1>5. Front(pushed) = << >>
  BY <1>4
<1>6. Last(pushed).key = k
  BY <1>2, <1>3 DEF Last, pushed
<1> QED
  BY <1>1, <1>5, <1>6 DEF pushed

-----------------------------------------------------------------------------
(* The invariant.                                                          *)

LEMMA InsertCases ==
    ASSUME CInv, NEW k \in Key, NEW v \in Value, Insert(k, v)
    PROVE  /\ k \notin index
           /\ \/ /\ Cardinality(index) < Capacity
                 /\ entries' = Cons([key |-> k, value |-> v], entries)
                 /\ index' = index \cup {k}
              \/ /\ Cardinality(index) >= Capacity /\ entries = << >>
                 /\ entries' = << >> /\ index = {} /\ index' = {}
              \/ /\ Cardinality(index) >= Capacity /\ entries # << >>
                 /\ entries' = Front(Cons([key |-> k, value |-> v], entries))
                 /\ index' = (index \cup {k})
                                \ {Last(Cons([key |-> k, value |-> v], entries)).key}
<1>1. k \notin index
  BY DEF Insert
<1> DEFINE pushed == Cons([key |-> k, value |-> v], entries)
           full   == Cardinality(index \cup {k}) > Capacity
<1>2. /\ entries' = IF full THEN Front(pushed) ELSE pushed
      /\ index' = IF full THEN (index \cup {k}) \ {Last(pushed).key} ELSE index \cup {k}
  BY DEF Insert
<1>3. full <=> Cardinality(index) >= Capacity
  <2>1. Cardinality(index \cup {k}) = Cardinality(index) + 1
    BY <1>1, FS_AddElement DEF CInv
  <2>2. Cardinality(index) \in Nat
    BY FS_CardinalityType DEF CInv
  <2> QED BY <2>1, <2>2, CapacityAssumption
<1>4. ~full <=> Cardinality(index) < Capacity
  BY <1>3, FS_CardinalityType, CapacityAssumption DEF CInv
<1>5. entries = << >> => /\ index = {} /\ Front(pushed) = << >>
                         /\ (index \cup {k}) \ {Last(pushed).key} = {}
  BY <1>1, InsertedNowhere
<1> HIDE DEF pushed, full
<1>6. CASE full
  BY <1>1, <1>2, <1>3, <1>5, <1>6 DEF pushed
<1>7. CASE ~full
  BY <1>1, <1>2, <1>4, <1>7 DEF pushed
<1> QED
  BY <1>6, <1>7

LEMMA EmptyFacts ==
    /\ << >> \in Seq(Entry) /\ Len(<< >>) = 0
    /\ KeysOf(<< >>) = {} /\ Distinct(<< >>)
    /\ IsFiniteSet({}) /\ Cardinality({}) = 0 /\ 0 <= Capacity
  BY EmptySeq, FS_EmptySet, CapacityAssumption DEF KeysOf, Distinct

LEMMA InitInvariant == CacheInit => CInv
  BY EmptyFacts DEF CacheInit, CInv, CacheTypeOK

LEMMA StepKeepsInvariant == CInv /\ [CacheNext]_cacheVars => CInv'
<1> SUFFICES ASSUME CInv, [CacheNext]_cacheVars PROVE CInv'
  OBVIOUS
<1>1. index \subseteq Key /\ hits \in Nat /\ misses \in Nat /\ IsFiniteSet(index)
      /\ Len(entries) = Cardinality(index) /\ Len(entries) <= Capacity
      /\ Len(entries) \in Nat
  BY DEF CInv, CacheTypeOK
<1>2. ASSUME NEW k \in Key, NEW v \in Value, Uses(k, v),
             hits' \in Nat, misses' \in Nat, index' \subseteq index \cup {k},
             Len(entries') = Cardinality(index'), Len(entries') <= Capacity
      PROVE  CInv'
  <2>1. index' \subseteq Key /\ IsFiniteSet(index')
    BY <1>1, <1>2, FS_AddElement, FS_Subset
  <2> QED
    BY <1>2, <2>1 DEF CInv, CacheTypeOK, Uses
<1>3. CASE InvalidateAll
  BY <1>1, <1>3, EmptyFacts DEF InvalidateAll, CInv, CacheTypeOK
<1>4. ASSUME NEW k \in Key, Hit(k) PROVE CInv'
  <2>1. /\ k \in index /\ ValueOf(k) \in Value
        /\ entries' = ToFront(k, ValueOf(k)) /\ index' = index
        /\ hits' \in Nat /\ misses' \in Nat
    BY <1>1, <1>4, NodesFound DEF Hit
  <2> QED
    BY <1>1, <1>2, <2>1, MovedToFront
<1>5. ASSUME NEW k \in Key, Miss(k) PROVE CInv'
  BY <1>1, <1>5 DEF Miss, CInv, CacheTypeOK
<1>6. ASSUME NEW k \in Key, NEW v \in Value, Overwrite(k, v) PROVE CInv'
  <2>1. /\ k \in index /\ entries' = ToFront(k, v) /\ index' = index
        /\ hits' \in Nat /\ misses' \in Nat
    BY <1>1, <1>6 DEF Overwrite
  <2> QED
    BY <1>1, <1>2, <2>1, MovedToFront
<1>7. ASSUME NEW k \in Key, NEW v \in Value, Insert(k, v) PROVE CInv'
  <2>1. k \in Key \ index /\ hits' \in Nat /\ misses' \in Nat
    BY <1>1, <1>7 DEF Insert
  <2>2. CASE /\ Cardinality(index) < Capacity
             /\ entries' = Cons([key |-> k, value |-> v], entries)
             /\ index' = index \cup {k}
    <3>1. Cardinality(index') = Cardinality(index) + 1
      BY <1>1, <2>1, <2>2, FS_AddElement
    <3>2. Uses(k, v) /\ Len(entries') = Len(entries) + 1
      BY <2>1, <2>2, InsertedWithRoom
    <3> QED
      BY <1>1, <1>2, <2>1, <2>2, <3>1, <3>2, CapacityAssumption
  <2>3. CASE entries' = << >> /\ index' = {}
    BY <2>1, <2>3, EmptyFacts DEF CInv, CacheTypeOK
  <2>4. CASE /\ entries # << >>
             /\ entries' = Front(Cons([key |-> k, value |-> v], entries))
             /\ index' = (index \cup {k})
                            \ {Last(Cons([key |-> k, value |-> v], entries)).key}
    <3>1. /\ Uses(k, v) /\ Len(entries') = Len(entries)
          /\ index' = (index \cup {k}) \ {Last(entries).key} /\ Last(entries).key \in index
      BY <2>1, <2>4, InsertedWhenFull
    <3>2. IsFiniteSet(index \cup {k}) /\ Cardinality(index \cup {k}) = Cardinality(index) + 1
      BY <1>1, <2>1, FS_AddElement
    <3>3. Cardinality((index \cup {k}) \ {Last(entries).key}) = Cardinality(index \cup {k}) - 1
      BY <3>1, <3>2, FS_RemoveElement
    <3>4. Cardinality(index') = Cardinality(index)
      BY <1>1, <3>1, <3>2, <3>3
    <3> QED
      BY <1>1, <1>2, <2>1, <3>1, <3>4
  <2> QED
    BY <1>7, <2>2, <2>3, <2>4, InsertCases
<1>8. CASE UNCHANGED cacheVars
  BY <1>8 DEF cacheVars, CInv, CacheTypeOK
<1> QED
  BY <1>3, <1>4, <1>5, <1>6, <1>7, <1>8 DEF CacheNext, Put

(* List and map never disagree, keys are never duplicated, and neither     *)
(* outgrows the capacity, whatever sequence of get, put and invalidation.  *)
THEOREM CacheInvariance == CacheSpec => []CInv
  BY InitInvariant, StepKeepsInvariant, PTL DEF CacheSpec

THEOREM ListAndMapAgree == CacheSpec => []ListMatchesMap
<1>1. CInv => ListMatchesMap
  BY DEF CInv, ListMatchesMap, KeysOf
<1> QED
  BY <1>1, CacheInvariance, PTL
-----------------------------------------------------------------------------
(* The refinement.                                                         *)

\* A use of k is a use in the order of the abstract cache.
LEMMA UseOrders ==
    ASSUME CInv, NEW k, NEW v, Uses(k, v)
    PROVE  /\ Content' = [x \in index' |-> IF x = k THEN v ELSE Content[x]]
           /\ Older' = Recency!Used(k, index')
<1>1. \A x \in index' : ValueOf(x)' = IF x = k THEN v ELSE Content[x]
  BY DEF Uses, Content
<1>2. Content' = [x \in index' |-> IF x = k THEN v ELSE Content[x]]
  BY <1>1 DEF Content
<1>3. Older' = {pair \in index' \X index' : Node(pair[1])' > Node(pair[2])'}
  BY DEF Older
<1>4. Recency!Used(k, index') = {pair \in Older : pair[1] \in index' \ {k} /\ pair[2] \in index' \ {k}}
                                   \cup {<<a, k>> : a \in index' \ {k}}
  BY DEF Recency!Used
<1>5. ASSUME NEW a \in index', NEW b \in index'
      PROVE  <<a, b>> \in Older' <=> <<a, b>> \in Recency!Used(k, index')
  <2>1. CASE b = k
    BY <1>3, <1>4, <2>1 DEF Uses
  <2>2. CASE b # k /\ a = k
    BY <1>3, <1>4, <2>2 DEF Uses
  <2>3. CASE b # k /\ a # k
    BY <1>3, <1>4, <2>3 DEF Uses, Older
  <2> QED BY <2>1, <2>2, <2>3
<1>6. \A pair \in Older' : \E a, b \in index' : pair = <<a, b>>
  BY <1>3
<1>7. \A pair \in Recency!Used(k, index') : \E a, b \in index' : pair = <<a, b>>
  BY <1>4 DEF Older, Uses
<1>8. Older' = Recency!Used(k, index')
  BY <1>5, <1>6, <1>7
<1> QED
  BY <1>2, <1>8

\* Of the keys of a full cache the last of the list was unused for longest.
LEMMA LastIsOldest ==
    ASSUME CInv, entries # << >>, NEW l, l = Last(entries).key
    PROVE  l = CHOOSE a \in index : \A b \in index \ {a} : <<a, b>> \in Older
<1>1. l \in index /\ At(entries, l) = Len(entries)
  BY FrontKeys DEF CInv, CacheTypeOK
<1>2. \A a \in index : Node(a) = At(entries, a) /\ Node(a) \in 1..Len(entries)
                       /\ entries[Node(a)].key = a
  BY NodesFound
<1>3. Len(entries) \in Nat
  BY DEF CInv, CacheTypeOK
<1>4. \A b \in index \ {l} : Node(l) > Node(b) /\ <<l, b>> \in Older
  BY <1>1, <1>2, <1>3 DEF Older
<1>5. ASSUME NEW a \in index, \A b \in index \ {a} : <<a, b>> \in Older
      PROVE  a = l
  <2> SUFFICES ASSUME a # l PROVE FALSE
    OBVIOUS
  <2>1. Node(a) > Node(l)
    BY <1>1, <1>5 DEF Older
  <2> QED
    BY <1>1, <1>2, <1>3, <1>4, <2>1
<1> QED
  BY <1>1, <1>4, <1>5

\* RecencyCache counts as LruCache does.
LEMMA SameCardinality == \A S : Recency!Cardinality(S) = Cardinality(S)
  BY Zenon DEF Recency!Cardinality, Cardinality

\* Whoever is kept when k is put is kept by the abstract cache.
LEMMA InsertKeeps ==
    ASSUME CInv, NEW k \in Key, NEW v \in Value, Insert(k, v)
    PROVE  /\ index' = Recency!KeptFor(k)
           /\ index' = {} \/ Uses(k, v)
<1>1. k \notin index /\ DOMAIN Content = index
  BY InsertCases DEF Content
<1>2. CASE /\ Cardinality(index) < Capacity
           /\ entries' = Cons([key |-> k, value |-> v], entries)
           /\ index' = index \cup {k}
  BY <1>1, <1>2, InsertedWithRoom, SameCardinality DEF Recency!KeptFor, Recency!Keys
<1>3. CASE Cardinality(index) >= Capacity /\ index = {} /\ index' = {}
  <2>1. ~(Cardinality(index) < Capacity)
    BY <1>3, FS_EmptySet, CapacityAssumption
  <2> QED
    BY <1>1, <1>3, <2>1, SameCardinality DEF Recency!KeptFor, Recency!Keys
<1>4. CASE /\ Cardinality(index) >= Capacity /\ entries # << >>
           /\ entries' = Front(Cons([key |-> k, value |-> v], entries))
           /\ index' = (index \cup {k}) \ {Last(Cons([key |-> k, value |-> v], entries)).key}
  <2>1. /\ Uses(k, v) /\ index' = (index \cup {k}) \ {Last(entries).key}
        /\ Last(entries).key \in index
    BY <1>1, <1>4, InsertedWhenFull
  <2>2. Last(entries).key = CHOOSE a \in index : \A b \in index \ {a} : <<a, b>> \in Older
    BY <1>4, LastIsOldest
  <2>3. ~(Cardinality(index) < Capacity)
    BY <1>4, FS_CardinalityType, CapacityAssumption DEF CInv
  <2>4. Recency!KeptFor(k) =
            (index \cup {k}) \ {CHOOSE a \in index : \A b \in index \ {a} : <<a, b>> \in Older}
    BY <1>1, <2>1, <2>3, SameCardinality DEF Recency!KeptFor, Recency!Keys
  <2> QED
    BY <2>1, <2>2, <2>4
<1> QED
  BY <1>2, <1>3, <1>4, InsertCases

LEMMA PutRefines ==
    ASSUME CInv, NEW k \in Key, NEW v \in Value, Put(k, v)
    PROVE  Recency!Put(k, v)
<1>1. CASE Overwrite(k, v)
  <2>1. k \in index /\ entries' = ToFront(k, v) /\ index' = index
    BY <1>1 DEF Overwrite
  <2>2. Uses(k, v)
    BY <2>1, MovedToFront
  <2>3. Recency!KeptFor(k) = index'
    BY <2>1 DEF Recency!KeptFor, Recency!Keys, Content
  <2>4. k \in index'
    BY <2>1
  <2> QED
    BY <2>2, <2>3, <2>4, UseOrders DEF Recency!Put
<1>2. CASE Insert(k, v)
  <2>1. index' = Recency!KeptFor(k)
    BY <1>2, InsertKeeps
  <2>2. CASE index' = {}
    <3>1. Content' = [x \in {} |-> IF x = k THEN v ELSE Content[x]]
      BY <2>2 DEF Content
    <3>2. Older' = {}
      BY <2>2 DEF Older
    <3>3. Recency!KeptFor(k) = {}
      BY <2>1, <2>2
    <3> QED
      BY <3>1, <3>2, <3>3 DEF Recency!Put
  <2>3. CASE Uses(k, v)
    <3>1. k \in index'
      BY <2>3 DEF Uses
    <3> QED
      BY <2>1, <2>3, <3>1, UseOrders DEF Recency!Put
  <2> QED
    BY <1>2, <2>2, <2>3, InsertKeeps
<1> QED
  BY <1>1, <1>2 DEF Put

LEMMA HitRefines ==
    ASSUME CInv, NEW k \in Key, Hit(k)
    PROVE  Recency!Get(k)
<1>1. k \in index /\ entries' = ToFront(k, ValueOf(k)) /\ index' = index
  BY DEF Hit
<1>2. ValueOf(k) \in Value
  BY <1>1, NodesFound
<1>3. Uses(k, ValueOf(k))
  BY <1>1, <1>2, MovedToFront
<1>4. /\ Content' = [x \in index' |-> IF x = k THEN ValueOf(k) ELSE Content[x]]
      /\ Older' = Recency!Used(k, index')
  BY <1>3, UseOrders
<1>5. Content' = Content
  <2>1. \A x \in index : (IF x = k THEN ValueOf(k) ELSE Content[x]) = ValueOf(x)
    BY DEF Content
  <2> QED BY <1>1, <1>4, <2>1 DEF Content
<1>6. DOMAIN Content = index
  BY DEF Content
<1> QED
  BY <1>1, <1>4, <1>5, <1>6 DEF Recency!Get, Recency!Keys

-----------------------------------------------------------------------------
(* What an operation leaves in the list, for the users of the cache.       *)

\* Every entry is the one just used or was there before.
LEMMA UsedEntries ==
    ASSUME CInv, NEW k, NEW v, Uses(k, v), NEW n \in DOMAIN entries'
    PROVE  \/ entries'[n].key = k /\ entries'[n].value = v
           \/ \E j \in DOMAIN entries : /\ entries[j].key = entries'[n].key
                                         /\ entries[j].value = entries'[n].value
<1> PICK a : a = entries'[n].key
  OBVIOUS
<1>1. a \in index' /\ a \in KeysOf(entries')
  BY DEF Uses, KeysOf
<1>2. Node(a)' = n
  <2>1. Distinct(entries')
    BY DEF Uses
  <2>2. At(entries', a) = n
    BY <1>1, <2>1, AtFinds
  <2> QED BY <2>2 DEF Node, At
<1>3. ValueOf(a)' = entries'[n].value
  BY <1>2 DEF ValueOf
<1>4. CASE a = k
  BY <1>3, <1>4 DEF Uses
<1>5. CASE a # k
  <2>1. a \in index /\ ValueOf(a)' = ValueOf(a)
    BY <1>1, <1>5 DEF Uses
  <2>2. Node(a) \in DOMAIN entries /\ entries[Node(a)].key = a
    BY <2>1, NodesFound DEF CInv, CacheTypeOK
  <2> QED BY <1>3, <2>1, <2>2 DEF ValueOf
<1> QED
  BY <1>4, <1>5

LEMMA HitEntries ==
    ASSUME CInv, NEW k \in Key, Hit(k), NEW n \in DOMAIN entries'
    PROVE  \E j \in DOMAIN entries : /\ entries[j].key = entries'[n].key
                                    /\ entries[j].value = entries'[n].value
<1>1. k \in index /\ entries' = ToFront(k, ValueOf(k)) /\ index' = index
  BY DEF Hit
<1>2. /\ ValueOf(k) \in Value /\ ValueOf(k) = entries[Node(k)].value
      /\ Node(k) \in DOMAIN entries /\ entries[Node(k)].key = k
  BY <1>1, NodesFound DEF CInv, CacheTypeOK, ValueOf
<1>3. Uses(k, ValueOf(k))
  BY <1>1, <1>2, MovedToFront
<1> QED
  BY <1>2, <1>3, UsedEntries

LEMMA PutEntries ==
    ASSUME CInv, NEW k \in Key, NEW v \in Value, Put(k, v), NEW n \in DOMAIN entries'
    PROVE  \/ entries'[n].key = k /\ entries'[n].value = v
           \/ \E j \in DOMAIN entries : /\ entries[j].key = entries'[n].key
                                         /\ entries[j].value = entries'[n].value
<1>1. CASE Overwrite(k, v)
  <2>1. k \in index /\ entries' = ToFront(k, v) /\ index' = index
    BY <1>1 DEF Overwrite
  <2>2. Uses(k, v)
    BY <2>1, MovedToFront
  <2> QED BY <2>2, UsedEntries
<1>2. CASE Insert(k, v)
  <2>1. CInv'
    BY StepKeepsInvariant DEF CacheNext
  <2>2. index' # {}
    BY <2>1 DEF CInv, KeysOf
  <2>3. Uses(k, v)
    BY <1>2, <2>2, InsertKeeps
  <2> QED BY <2>3, UsedEntries
<1> QED
  BY <1>1, <1>2 DEF Put

LEMMA SameContent ==
    ASSUME UNCHANGED <<entries, index>>
    PROVE  UNCHANGED <<Content, Older>>
<1>1. \A a : Node(a)' = Node(a) /\ ValueOf(a)' = ValueOf(a)
  BY DEF Node, ValueOf
<1>2. Content' = Content
  BY <1>1 DEF Content
<1>3. Older' = Older
  BY <1>1 DEF Older
<1> QED
  BY <1>2, <1>3

LEMMA EmptyContent ==
    ASSUME index = {}
    PROVE  Content = << >> /\ Older = {}
<1>1. Content = << >>
  BY DEF Content
<1>2. Older = {}
  BY DEF Older
<1> QED
  BY <1>1, <1>2

(* A lookup makes its key the newest, a put stores its value under its key *)
(* and drops the key unused for longest: no other.                         *)
THEOREM CallsDoAsTheyAreTold == CacheSpec => CallsUseTheirKey
<1>1. CInv => \A k \in Key : /\ Hit(k) => Recency!Get(k)
                             /\ \A v \in Value : Put(k, v) => Recency!Put(k, v)
  BY HitRefines, PutRefines
<1> QED
  BY <1>1, CacheInvariance, PTL DEF CallsUseTheirKey

(* The list, the map and the counters are a least-recently-used cache: the *)
(* refinement of RecencyCache, for every capacity.                         *)
THEOREM RecencyImplemented == CacheSpec => ImplementsRecencyCache
<1>1. CacheInit => Recency!Init
  BY EmptyContent DEF CacheInit, Recency!Init
<1>2. CInv /\ [CacheNext]_cacheVars => [Recency!Next]_<<Content, Older>>
  <2> SUFFICES ASSUME CInv, [CacheNext]_cacheVars
               PROVE  Recency!Next \/ UNCHANGED <<Content, Older>>
    OBVIOUS
  <2>1. CASE InvalidateAll
    <3>1. index' = {}
      BY <2>1 DEF InvalidateAll
    <3>2. Content' = << >> /\ Older' = {}
      BY <3>1 DEF Content, Older
    <3> QED
      BY <3>2 DEF Recency!Next, Recency!Clear
  <2>2. ASSUME NEW k \in Key, Hit(k) PROVE Recency!Next
    BY <2>2, HitRefines DEF Recency!Next
  <2>3. ASSUME NEW k \in Key, Miss(k) PROVE UNCHANGED <<Content, Older>>
    BY <2>3, SameContent DEF Miss
  <2>4. ASSUME NEW k \in Key, NEW v \in Value, Put(k, v) PROVE Recency!Next
    BY <2>4, PutRefines DEF Recency!Next
  <2>5. CASE UNCHANGED cacheVars
    BY <2>5, SameContent DEF cacheVars
  <2> QED
    BY <2>1, <2>2, <2>3, <2>4, <2>5 DEF CacheNext
<1> QED
  BY <1>1, <1>2, CacheInvariance, PTL DEF CacheSpec, ImplementsRecencyCache, Recency!Spec
=============================================================================
