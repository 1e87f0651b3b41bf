---------------------------- MODULE IndexProofs ----------------------------
(***************************************************************************)
(* Proofs about the index and what is built on it, in three parts:         *)
(*                                                                         *)
(*  1. InvertedIndex: for every set of ids, terms and metadata and every   *)
(*     bound, its parts agree and it is a faithful store of documents.     *)
(*                                                                         *)
(*  2. QueryEvaluation: what a query finds, for every index, term, phrase  *)
(*     and tree.                                                           *)
(*                                                                         *)
(*  3. IndexStore: whatever the index holds and whenever the process dies, *)
(*     the index file is whole, what is loaded is a consistent index, and  *)
(*     it is the one that was saved.  The argument: an image is itself a   *)
(*     consistent index, only without tombstones.  The renumbering is a    *)
(*     bijection from the live slots to the positions of the image, so     *)
(*     that compacting a consistent index gives a consistent image of the  *)
(*     same documents, and loading gives it back.                          *)
(***************************************************************************)
EXTENDS IndexStore, QueryEvaluation, FiniteSetTheorems, SequenceTheorems, TLAPS

LEMMA PositionsFinite ==
    ASSUME NEW t, NEW words \in Words
    PROVE  /\ IsFiniteSet(PositionsOf(t, words))
           /\ Cardinality(PositionsOf(t, words)) \in Nat
           /\ PositionsOf(t, words) \subseteq Nat
<1>1. Len(words) \in Nat /\ IsFiniteSet(1..Len(words))
  BY FS_Interval, BoundsAssumption DEF Words
<1>2. PositionsOf(t, words) \subseteq 1..Len(words)
  BY DEF PositionsOf
<1> QED
  BY <1>1, <1>2, FS_Subset, FS_CardinalityType

LEMMA ErasedPostings ==
    ASSUME NEW ts, NEW i
    PROVE  /\ DOMAIN EraseTermPostings(ts, i) = DOMAIN ts
           /\ \A t \in DOMAIN ts : EraseTermPostings(ts, i)[t].postings
                                     = {p \in ts[t].postings : p.document_id # i}
  BY DEF EraseTermPostings, PostingList

-----------------------------------------------------------------------------
(* Sums over finite sets.  Summing is a recursion over the subsets, so what*)
(* it computes is proved by induction on them.                             *)

Pick(s) == CHOOSE x \in s : TRUE

\* The recursion MapThenSumSet runs, for weights w.
SumsUp(S, w, it) == it = [s \in SUBSET S |-> IF s = {} THEN 0 ELSE w[Pick(s)] + it[s \ {Pick(s)}]]

\* The elements of the sets A[x], each with its x.
Pairs(S, A) == {pr \in S \X UNION {A[x] : x \in S} : pr[2] \in A[pr[1]]}

\* Induction over the subsets of a finite set: a counterexample has a least one.
LEMMA SubsetInduction ==
    ASSUME NEW S, IsFiniteSet(S), NEW T, T \subseteq SUBSET S, T # {}
    PROVE  \E m \in T : \A s \in T : s \subseteq m => s = m
<1> DEFINE R == StrictSubsetOrdering(S)
<1>1. IsWellFoundedOn(R, SUBSET S)
  BY FS_StrictSubsetOrderingWellFounded, FS_FiniteSubsetsOfFinite
<1>2. \A s, m \in SUBSET S : <<s, m>> \in R <=> s \subseteq m /\ s # m
  BY DEF StrictSubsetOrdering
<1> HIDE DEF R
<1>3. PICK m \in T : \A s \in T : ~ (<<s, m>> \in R)
  BY <1>1, WFMin
<1> QED
  BY <1>2, <1>3

LEMMA PairsPlusOne ==
    ASSUME NEW S, NEW A, NEW x \in S, IsFiniteSet(A[x]),
           IsFiniteSet(Pairs(S \ {x}, A))
    PROVE  /\ IsFiniteSet(Pairs(S, A))
           /\ Cardinality(Pairs(S, A)) = Cardinality(A[x]) + Cardinality(Pairs(S \ {x}, A))
<1> DEFINE P == Pairs(S \ {x}, A)
           Q == {x} \X A[x]
<1>1. Pairs(S, A) = P \cup Q
  BY DEF Pairs
<1>2. P \cap Q = {}
  BY DEF Pairs
<1>3. IsFiniteSet(Q) /\ Cardinality(Q) = Cardinality(A[x])
  <2>1. IsFiniteSet({x}) /\ Cardinality({x}) = 1
    BY FS_Singleton
  <2>2. Cardinality(A[x]) \in Nat
    BY FS_CardinalityType
  <2> QED BY <2>1, <2>2, FS_Product
<1>4. Cardinality(P) \in Nat /\ Cardinality(A[x]) \in Nat
  BY FS_CardinalityType
<1>5. Cardinality(P \cap Q) = 0
  BY <1>2, FS_EmptySet
<1>6. /\ IsFiniteSet(P \cup Q)
      /\ Cardinality(P \cup Q) = Cardinality(P) + Cardinality(Q) - Cardinality(P \cap Q)
  <2> HIDE DEF P, Q
  <2> QED BY <1>3, FS_Union DEF P
<1> QED
  BY <1>1, <1>3, <1>4, <1>5, <1>6

LEMMA PairsFinite ==
    ASSUME NEW S, IsFiniteSet(S), NEW A, \A x \in S : IsFiniteSet(A[x])
    PROVE  \A s \in SUBSET S : IsFiniteSet(Pairs(s, A))
<1> DEFINE T == {s \in SUBSET S : ~IsFiniteSet(Pairs(s, A))}
<1> SUFFICES ASSUME T # {} PROVE FALSE
  OBVIOUS
<1>1. PICK m \in T : \A s \in T : s \subseteq m => s = m
  <2>1. T \subseteq SUBSET S
    OBVIOUS
  <2> HIDE DEF T
  <2> QED BY <2>1, SubsetInduction
<1>2. m # {}
  <2>1. Pairs({}, A) = {}
    BY DEF Pairs
  <2> QED BY <2>1, FS_EmptySet
<1>3. PICK x : x \in m
  BY <1>2
<1>4. m \ {x} \in SUBSET S /\ m \ {x} \notin T
  BY <1>1, <1>3
<1>5. IsFiniteSet(Pairs(m \ {x}, A))
  BY <1>4
<1> QED
  BY <1>3, <1>5, PairsPlusOne

\* A sum of cardinalities counts the pairs.  What the recursion computes is
\* unique, and the count satisfies it.
LEMMA SumIsCount ==
    ASSUME NEW S, IsFiniteSet(S), NEW A, \A x \in S : IsFiniteSet(A[x]),
           NEW w, \A x \in S : w[x] = Cardinality(A[x])
    PROVE  (CHOOSE it : SumsUp(S, w, it))[S] = Cardinality(Pairs(S, A))
<1> DEFINE g == [s \in SUBSET S |-> Cardinality(Pairs(s, A))]
<1>0. \A s \in SUBSET S : s # {} => Pick(s) \in s
  BY DEF Pick
<1>1. \A s \in SUBSET S : s # {} =>
         /\ Pick(s) \in S /\ s \ {Pick(s)} \in SUBSET S
         /\ Cardinality(Pairs(s, A)) = w[Pick(s)] + Cardinality(Pairs(s \ {Pick(s)}, A))
  BY <1>0, PairsFinite, PairsPlusOne
<1>2. Cardinality(Pairs({}, A)) = 0
  <2>1. Pairs({}, A) = {}
    BY DEF Pairs
  <2> QED BY <2>1, FS_EmptySet
<1>3. SumsUp(S, w, g)
  <2>1. \A s \in SUBSET S : g[s] = IF s = {} THEN 0 ELSE w[Pick(s)] + g[s \ {Pick(s)}]
    BY <1>1, <1>2
  <2> QED BY <2>1 DEF SumsUp
<1>4. ASSUME NEW it, SumsUp(S, w, it) PROVE it = g
  <2> DEFINE T == {s \in SUBSET S : it[s] # g[s]}
  <2>1. it = [s \in SUBSET S |-> it[s]]
    BY <1>4 DEF SumsUp
  <2>2. SUFFICES ASSUME T # {} PROVE FALSE
    BY <2>1
  <2>3. PICK m \in T : \A s \in T : s \subseteq m => s = m
    <3>1. T \subseteq SUBSET S
      OBVIOUS
    <3> HIDE DEF T
    <3> QED BY <2>2, <3>1, SubsetInduction
  <2>4. it[m] = IF m = {} THEN 0 ELSE w[Pick(m)] + it[m \ {Pick(m)}]
    BY <1>4 DEF SumsUp
  <2>5. g[m] = IF m = {} THEN 0 ELSE w[Pick(m)] + g[m \ {Pick(m)}]
    BY <1>3 DEF SumsUp
  <2> HIDE DEF g
  <2>6. m # {} => it[m \ {Pick(m)}] = g[m \ {Pick(m)}]
    BY <1>0, <1>1, <2>3
  <2> QED BY <2>3, <2>4, <2>5, <2>6
<1>5. (CHOOSE it : SumsUp(S, w, it)) = g
  <2> HIDE DEF g
  <2> QED BY <1>3, <1>4
<1> QED
  BY <1>5

-----------------------------------------------------------------------------
(* One posting list.                                                       *)

ListOK(l) == /\ l \in PostingLists
             /\ IsFiniteSet(l.postings)
             /\ l.document_frequency = Cardinality(l.postings)
             /\ \A p \in l.postings : /\ IsFiniteSet(p.positions)
                                      /\ p.term_frequency = Cardinality(p.positions)
                                      /\ p.positions # {}
             /\ \A p, q \in l.postings : p.document_id = q.document_id => p = q

LEMMA ListsOK ==
    (\A t \in DOMAIN terms : ListOK(terms[t]))
        <=> /\ \A t \in DOMAIN terms : terms[t] \in PostingLists
            /\ CountersMatchPostings
  BY DEF ListOK, CountersMatchPostings

\* Filtering keeps a list in order.
LEMMA ErasedListOK ==
    ASSUME NEW ts, NEW i, NEW t \in DOMAIN ts, ListOK(ts[t])
    PROVE  ListOK(EraseTermPostings(ts, i)[t])
<1> DEFINE kept == {p \in ts[t].postings : p.document_id # i}
<1>1. CASE kept = ts[t].postings
  BY <1>1 DEF EraseTermPostings
<1>2. CASE kept # ts[t].postings
  <2>1. EraseTermPostings(ts, i)[t] = [document_frequency |-> Cardinality(kept), postings |-> kept]
    BY <1>2 DEF EraseTermPostings, PostingList
  <2>2. IsFiniteSet(kept) /\ Cardinality(kept) \in Nat
    BY FS_Subset, FS_CardinalityType DEF ListOK
  <2>3. kept \subseteq ts[t].postings /\ kept \in SUBSET Posting
    BY DEF ListOK, PostingLists
  <2> HIDE DEF kept
  <2> QED
    BY <2>1, <2>2, <2>3 DEF ListOK, PostingLists
<1> QED
  BY <1>1, <1>2

\* Appending the posting of a slot no posting names does, too.
LEMMA AppendedListOK ==
    ASSUME NEW ps, NEW i \in Nat, NEW words \in Words, NEW t \in WordsIn(words),
           ps \subseteq Posting, IsFiniteSet(ps),
           \A p \in ps : /\ IsFiniteSet(p.positions)
                         /\ p.term_frequency = Cardinality(p.positions)
                         /\ p.positions # {},
           \A p, q \in ps : p.document_id = q.document_id => p = q,
           \A p \in ps : p.document_id # i
    PROVE  ListOK(PostingList(ps \cup {PostingFor(i, t, words)}))
<1> DEFINE new == PostingFor(i, t, words)
           all == ps \cup {new}
<1>1. new.document_id = i /\ new \in Posting /\ new.positions = PositionsOf(t, words)
      /\ new.term_frequency = Cardinality(new.positions)
  BY PositionsFinite DEF PostingFor, Posting
<1>2. new.positions # {} /\ IsFiniteSet(new.positions)
  <2>1. PositionsOf(t, words) # {}
    BY DEF PositionsOf, WordsIn
  <2> QED BY <1>1, <2>1, PositionsFinite
<1>3. IsFiniteSet(all) /\ Cardinality(all) \in Nat
  BY FS_AddElement, FS_CardinalityType
<1>4. all \in SUBSET Posting
  BY <1>1
<1>5. \A p, q \in all : p.document_id = q.document_id => p = q
  <2> HIDE DEF new
  <2> QED BY <1>1
<1>6. \A p \in all : /\ IsFiniteSet(p.positions)
                     /\ p.term_frequency = Cardinality(p.positions)
                     /\ p.positions # {}
  <2> HIDE DEF new
  <2> QED BY <1>1, <1>2
<1>7. PostingList(all) = [document_frequency |-> Cardinality(all), postings |-> all]
  BY DEF PostingList
<1>8. ListOK(PostingList(all))
  <2> HIDE DEF all
  <2> QED
    BY <1>3, <1>4, <1>5, <1>6, <1>7 DEF ListOK, PostingLists
<1> QED
  BY <1>8
-----------------------------------------------------------------------------
(* The inductive invariant.                                                *)

IInv == /\ TypeOK
        /\ IdsNameLiveSlots
        /\ PostingsNameLiveSlots
        /\ CountersMatchPostings
        /\ PositionsTileDocuments

LEMMA InitIInv == Init => IInv
<1> SUFFICES ASSUME Init PROVE IInv
  OBVIOUS
<1>1. docs = << >> /\ DOMAIN id_to_internal = {} /\ DOMAIN terms = {} /\ Len(docs) = 0
  BY DEF Init
<1>2. InternalIds = {} /\ Live = {}
  BY <1>1 DEF InternalIds, Live
<1>3. TypeOK
  BY <1>1 DEF Init, TypeOK
<1>4. PositionsTileDocuments
  BY <1>1, <1>2 DEF PositionsTileDocuments
<1> QED
  BY <1>1, <1>2, <1>3, <1>4
  DEF IInv, IdsNameLiveSlots, PostingsNameLiveSlots, CountersMatchPostings

\* The slot an update or a removal retires.
Retires(id, j) == id \in DOMAIN id_to_internal /\ j = id_to_internal[id]

LEMMA RetiredTombstones ==
    ASSUME TypeOK, NEW id
    PROVE  TombstonesWith(id) = tombstone \cup {j \in InternalIds : Retires(id, j)}
  BY DEF TombstonesWith, Retires, TypeOK

LEMMA RetiredPostings ==
    ASSUME NEW id, NEW t
    PROVE  /\ DOMAIN TermsWithout(id) = DOMAIN terms
           /\ PostingsIn(TermsWithout(id), t)
                = {p \in PostingsIn(terms, t) : ~Retires(id, p.document_id)}
  BY ErasedPostings DEF TermsWithout, PostingsIn, Retires

LEMMA RetiredListsOK ==
    ASSUME NEW id, \A t \in DOMAIN terms : ListOK(terms[t])
    PROVE  \A t \in DOMAIN terms : ListOK(TermsWithout(id)[t])
  BY ErasedListOK DEF TermsWithout

-----------------------------------------------------------------------------
(* add_document                                                            *)

LEMMA AddSlots ==
    ASSUME TypeOK, NEW id \in StableId, NEW info \in Info, NEW words \in Words,
           AddDocument(id, info, words)
    PROVE  LET new == Len(docs) + 1
           IN  /\ docs' \in Seq(Meta) /\ doc_lengths' \in Seq(Nat)
               /\ Len(docs') = new /\ Len(doc_lengths') = new
               /\ \A j \in InternalIds : /\ docs'[j] = docs[j]
                                         /\ doc_lengths'[j] = doc_lengths[j]
               /\ docs'[new].id = id /\ docs'[new].info = info
               /\ doc_lengths'[new] = Len(words)
               /\ InternalIds' = InternalIds \cup {new} /\ new \notin InternalIds
               /\ tombstone' \subseteq InternalIds
               /\ Live' = {j \in Live : ~Retires(id, j)} \cup {new}
<1> DEFINE new == Len(docs) + 1
<1>1. Len(words) \in Nat
  BY DEF Words
<1>2. docs' \in Seq(Meta) /\ Len(docs') = new /\ docs'[new].id = id /\ docs'[new].info = info
      /\ \A j \in InternalIds : docs'[j] = docs[j]
  BY <1>1 DEF AddDocument, TypeOK, Meta, InternalIds
<1>3. doc_lengths' \in Seq(Nat) /\ Len(doc_lengths') = new /\ doc_lengths'[new] = Len(words)
      /\ \A j \in InternalIds : doc_lengths'[j] = doc_lengths[j]
  BY <1>1 DEF AddDocument, TypeOK, InternalIds
<1>4. tombstone' = tombstone \cup {j \in InternalIds : Retires(id, j)}
  BY RetiredTombstones DEF AddDocument
<1>5. InternalIds' = InternalIds \cup {new} /\ new \notin InternalIds
  BY <1>2 DEF InternalIds, TypeOK
<1>6. Live' = {j \in Live : ~Retires(id, j)} \cup {new}
  <2> HIDE DEF new
  <2> QED BY <1>4, <1>5 DEF Live, TypeOK
<1> QED
  BY <1>2, <1>3, <1>4, <1>5, <1>6 DEF TypeOK

LEMMA AddedPostings ==
    ASSUME NEW id, NEW info, NEW words, AddDocument(id, info, words)
    PROVE  /\ DOMAIN terms' = DOMAIN terms \cup WordsIn(words)
           /\ \A t : PostingsIn(terms', t)
                = {p \in PostingsIn(terms, t) : ~Retires(id, p.document_id)}
                    \cup (IF t \in WordsIn(words)
                          THEN {PostingFor(Len(docs) + 1, t, words)} ELSE {})
<1> DEFINE new == Len(docs) + 1
<1>1. terms' = AppendPostings(TermsWithout(id), new, words)
  BY DEF AddDocument
<1>2. DOMAIN terms' = DOMAIN terms \cup WordsIn(words)
  BY <1>1, RetiredPostings DEF AppendPostings
<1> HIDE DEF new
<1>3. ASSUME NEW t
      PROVE PostingsIn(terms', t)
              = PostingsIn(TermsWithout(id), t)
                  \cup (IF t \in WordsIn(words) THEN {PostingFor(new, t, words)} ELSE {})
  <2>1. CASE t \in WordsIn(words)
    <3>1. terms'[t] = PostingList(PostingsIn(TermsWithout(id), t) \cup {PostingFor(new, t, words)})
      BY <1>1, <2>1 DEF AppendPostings
    <3>2. PostingsIn(terms', t) = terms'[t].postings
      BY <1>2, <2>1 DEF PostingsIn
    <3> QED BY <2>1, <3>1, <3>2 DEF PostingList
  <2>2. CASE t \in DOMAIN terms \ WordsIn(words)
    <3>1. terms'[t] = TermsWithout(id)[t]
      BY <1>1, <2>2, RetiredPostings DEF AppendPostings
    <3> QED BY <1>2, <2>2, <3>1, RetiredPostings DEF PostingsIn
  <2>3. CASE t \notin DOMAIN terms \cup WordsIn(words)
    BY <1>2, <2>3, RetiredPostings DEF PostingsIn
  <2> QED
    BY <2>1, <2>2, <2>3
<1> QED
  BY <1>2, <1>3, RetiredPostings DEF new

LEMMA AddKeepsIds ==
    ASSUME IInv, NEW id \in StableId, NEW info \in Info, NEW words \in Words,
           AddDocument(id, info, words)
    PROVE  /\ IdsNameLiveSlots'
           /\ DOMAIN id_to_internal' \subseteq StableId
           /\ \A x \in DOMAIN id_to_internal' : id_to_internal'[x] \in InternalIds'
<1> DEFINE new == Len(docs) + 1
<1>1. /\ \A j \in InternalIds : docs'[j] = docs[j]
      /\ docs'[new].id = id
      /\ InternalIds' = InternalIds \cup {new} /\ new \notin InternalIds
      /\ Live' = {j \in Live : ~Retires(id, j)} \cup {new}
  BY AddSlots DEF IInv
<1>2. id_to_internal' = [x \in DOMAIN id_to_internal \cup {id} |->
                            IF x = id THEN new ELSE id_to_internal[x]]
  BY DEF AddDocument
<1>3. TypeOK /\ IdsNameLiveSlots /\ Live \subseteq InternalIds
  BY DEF IInv, Live
<1> HIDE DEF new
<1>4. ASSUME NEW x \in DOMAIN id_to_internal'
      PROVE  id_to_internal'[x] \in Live' /\ docs'[id_to_internal'[x]].id = x
  <2>1. CASE x = id
    BY <1>1, <1>2, <2>1
  <2>2. CASE x # id
    BY <1>1, <1>2, <1>3, <2>2 DEF IdsNameLiveSlots, Retires
  <2> QED
    BY <2>1, <2>2
<1>5. ASSUME NEW i \in Live'
      PROVE  docs'[i].id \in DOMAIN id_to_internal' /\ id_to_internal'[docs'[i].id] = i
  <2>1. CASE i = new
    BY <1>1, <1>2, <2>1
  <2>2. CASE i \in Live /\ ~Retires(id, i)
    BY <1>1, <1>2, <1>3, <2>2 DEF IdsNameLiveSlots, Retires
  <2> QED
    BY <1>1, <2>1, <2>2
<1>6. DOMAIN id_to_internal' \subseteq StableId
  BY <1>2, <1>3 DEF TypeOK
<1>7. \A x \in DOMAIN id_to_internal' : id_to_internal'[x] \in InternalIds'
  BY <1>1, <1>4, <1>3
<1> QED
  BY <1>4, <1>5, <1>6, <1>7 DEF IdsNameLiveSlots

LEMMA AddKeepsPostings ==
    ASSUME IInv, NEW id \in StableId, NEW info \in Info, NEW words \in Words,
           AddDocument(id, info, words)
    PROVE  /\ DOMAIN terms' \subseteq Term
           /\ \A t \in DOMAIN terms' : ListOK(terms'[t])
           /\ PostingsNameLiveSlots'
<1> DEFINE new == Len(docs) + 1
<1>1. \A t \in DOMAIN terms : ListOK(terms[t])
  BY ListsOK DEF IInv, TypeOK
<1>2. new \in Nat /\ new \notin InternalIds /\ Live' = {j \in Live : ~Retires(id, j)} \cup {new}
      /\ Live \subseteq InternalIds
  BY AddSlots DEF IInv, TypeOK, Live
<1>3. terms' = AppendPostings(TermsWithout(id), new, words)
  BY DEF AddDocument
<1>4. DOMAIN terms' = DOMAIN terms \cup WordsIn(words)
  BY AddedPostings
<1>5. WordsIn(words) \subseteq Term
  BY DEF WordsIn, Words
<1> HIDE DEF new
<1>6. ASSUME NEW t \in WordsIn(words)
      PROVE  ListOK(terms'[t])
  <2> DEFINE ps == PostingsIn(TermsWithout(id), t)
  <2>1. terms'[t] = PostingList(ps \cup {PostingFor(new, t, words)})
    BY <1>3 DEF AppendPostings
  <2>2. /\ ps \subseteq Posting /\ IsFiniteSet(ps)
        /\ \A p \in ps : /\ IsFiniteSet(p.positions)
                         /\ p.term_frequency = Cardinality(p.positions)
                         /\ p.positions # {}
        /\ \A p, q \in ps : p.document_id = q.document_id => p = q
    <3>1. CASE t \in DOMAIN terms
      <4>1. ListOK(TermsWithout(id)[t])
        BY <1>1, <3>1, RetiredListsOK
      <4>2. ps = TermsWithout(id)[t].postings
        BY <3>1, RetiredPostings DEF PostingsIn
      <4> QED BY <4>1, <4>2 DEF ListOK, PostingLists
    <3>2. CASE t \notin DOMAIN terms
      BY <3>2, RetiredPostings, FS_EmptySet DEF PostingsIn
    <3> QED BY <3>1, <3>2
  <2>3. \A p \in ps : p.document_id # new
    <3>1. \A p \in ps : p \in PostingsIn(terms, t)
      BY RetiredPostings
    <3>2. \A p \in PostingsIn(terms, t) : p.document_id \in Live
      BY DEF PostingsIn, IInv, PostingsNameLiveSlots
    <3> QED BY <1>2, <3>1, <3>2
  <2> HIDE DEF ps
  <2> QED
    BY <1>2, <2>1, <2>2, <2>3, AppendedListOK
<1>7. ASSUME NEW t \in DOMAIN terms \ WordsIn(words)
      PROVE  ListOK(terms'[t])
  <2>1. terms'[t] = TermsWithout(id)[t]
    BY <1>3, RetiredPostings DEF AppendPostings
  <2> QED
    BY <1>1, <2>1, RetiredListsOK
<1>8. ASSUME NEW t \in DOMAIN terms', NEW p \in terms'[t].postings
      PROVE  p.document_id \in Live'
  <2>1. p \in PostingsIn(terms', t)
    BY DEF PostingsIn
  <2>2. CASE p = PostingFor(new, t, words)
    BY <1>2, <2>2 DEF PostingFor
  <2>3. CASE p \in PostingsIn(terms, t) /\ ~Retires(id, p.document_id)
    BY <1>2, <2>3 DEF IInv, PostingsNameLiveSlots, PostingsIn
  <2>4. p \in {q \in PostingsIn(terms, t) : ~Retires(id, q.document_id)}
              \cup (IF t \in WordsIn(words) THEN {PostingFor(new, t, words)} ELSE {})
    BY <2>1, AddedPostings, Zenon DEF new
  <2> QED
    BY <2>2, <2>3, <2>4
<1> QED
  BY <1>4, <1>5, <1>6, <1>7, <1>8 DEF IInv, TypeOK, PostingsNameLiveSlots

\* Where the terms of the documents stand after an addition.
LEMMA AddedOccurrences ==
    ASSUME IInv, NEW id \in StableId, NEW info \in Info, NEW words \in Words,
           AddDocument(id, info, words),
           NEW new, new = Len(docs) + 1, NEW t, NEW k
    PROVE  /\ \A i \in Live' \ {new} : Occurs(t, i, k)' <=> Occurs(t, i, k)
           /\ Occurs(t, new, k)' <=> k \in 1..Len(words) /\ words[k] = t
<1> DEFINE added == IF t \in WordsIn(words) THEN {PostingFor(new, t, words)} ELSE {}
<1>1. PostingsIn(terms', t)
        = {p \in PostingsIn(terms, t) : ~Retires(id, p.document_id)} \cup added
  BY AddedPostings
<1>2. \A i \in Live' \ {new} : ~Retires(id, i)
  BY AddSlots DEF IInv
<1>3. new \notin Live
  BY AddSlots DEF IInv, Live
<1>4. \A p \in PostingsIn(terms, t) : p.document_id \in Live
  BY DEF PostingsIn, IInv, PostingsNameLiveSlots
<1>5. \A p \in added : p.document_id = new /\ p.positions = PositionsOf(t, words)
  BY DEF PostingFor
<1>6. PositionsOf(t, words) # {} => t \in WordsIn(words)
  BY DEF PositionsOf, WordsIn
<1>7. t \in WordsIn(words) => \E p \in added : p.document_id = new
                                               /\ p.positions = PositionsOf(t, words)
  BY DEF PostingFor
<1> HIDE DEF added
<1>8. ASSUME NEW i \in Live' \ {new}
      PROVE  Occurs(t, i, k)' <=> Occurs(t, i, k)
  BY <1>1, <1>2, <1>5 DEF Occurs
<1>9. Occurs(t, new, k)' <=> k \in PositionsOf(t, words)
  <2>1. ASSUME NEW p \in PostingsIn(terms', t), p.document_id = new, k \in p.positions
        PROVE  k \in PositionsOf(t, words)
    <3>1. p \in added
      BY <1>1, <1>3, <1>4, <2>1
    <3> QED BY <1>5, <2>1, <3>1
  <2>2. ASSUME k \in PositionsOf(t, words)
        PROVE  \E p \in PostingsIn(terms', t) : p.document_id = new /\ k \in p.positions
    <3>1. t \in WordsIn(words)
      BY <1>6, <2>2
    <3>2. PICK p \in added : p.document_id = new /\ p.positions = PositionsOf(t, words)
      BY <1>7, <3>1
    <3>3. p \in PostingsIn(terms', t)
      BY <1>1
    <3> QED BY <2>2, <3>2, <3>3
  <2> QED BY <2>1, <2>2 DEF Occurs
<1> QED
  BY <1>8, <1>9 DEF PositionsOf

LEMMA AddKeepsPositions ==
    ASSUME IInv, NEW id \in StableId, NEW info \in Info, NEW words \in Words,
           AddDocument(id, info, words)
    PROVE  PositionsTileDocuments'
<1> PICK new : new = Len(docs) + 1
  OBVIOUS
<1>1. /\ Live' = {j \in Live : ~Retires(id, j)} \cup {new}
      /\ \A j \in InternalIds : doc_lengths'[j] = doc_lengths[j]
      /\ doc_lengths'[new] = Len(words)
      /\ Live \subseteq InternalIds /\ new \notin InternalIds
  BY AddSlots DEF IInv, Live
<1>2. DOMAIN terms' = DOMAIN terms \cup WordsIn(words)
  BY AddedPostings
<1>3. \A t, k : /\ \A i \in Live' \ {new} : Occurs(t, i, k)' <=> Occurs(t, i, k)
                /\ Occurs(t, new, k)' <=> k \in 1..Len(words) /\ words[k] = t
  BY AddedOccurrences
<1>4. \A t : PostingsIn(terms', t)
               = {p \in PostingsIn(terms, t) : ~Retires(id, p.document_id)}
                   \cup (IF t \in WordsIn(words) THEN {PostingFor(new, t, words)} ELSE {})
  BY AddedPostings
<1>5. PositionsTileDocuments /\ PostingsNameLiveSlots
  BY DEF IInv
<1>6. ASSUME NEW i \in Live', NEW k \in 1..doc_lengths'[i]
      PROVE  /\ \E t \in DOMAIN terms' : Occurs(t, i, k)'
             /\ \A t, u \in DOMAIN terms' : Occurs(t, i, k)' /\ Occurs(u, i, k)' => t = u
  <2>1. CASE i = new
    <3>1. k \in 1..Len(words)
      BY <1>1, <2>1
    <3>2. words[k] \in DOMAIN terms'
      BY <1>2, <3>1 DEF WordsIn
    <3>3. \A t : Occurs(t, i, k)' <=> words[k] = t
      BY <1>3, <2>1, <3>1
    <3> QED BY <3>2, <3>3
  <2>2. CASE i \in Live \ {new}
    <3>1. doc_lengths'[i] = doc_lengths[i]
      BY <1>1, <2>2
    <3>2. \A t : Occurs(t, i, k)' <=> Occurs(t, i, k)
      BY <1>3, <2>2
    <3>3. \A t : Occurs(t, i, k) => t \in DOMAIN terms
      BY DEF Occurs, PostingsIn
    <3> QED BY <1>2, <1>5, <2>2, <3>1, <3>2, <3>3 DEF PositionsTileDocuments
  <2> QED
    BY <1>1, <2>1, <2>2
<1>7. ASSUME NEW t \in DOMAIN terms', NEW p \in terms'[t].postings
      PROVE  p.positions \subseteq 1..doc_lengths'[p.document_id]
  <2>1. p \in PostingsIn(terms', t)
    BY DEF PostingsIn
  <2>2. CASE p = PostingFor(new, t, words)
    BY <1>1, <2>2 DEF PostingFor, PositionsOf
  <2>3. CASE p \in PostingsIn(terms, t)
    <3>1. t \in DOMAIN terms /\ p \in terms[t].postings
      BY <2>3 DEF PostingsIn
    <3>2. p.document_id \in InternalIds
      BY <1>1, <1>5, <3>1 DEF PostingsNameLiveSlots
    <3> QED BY <1>1, <1>5, <3>1, <3>2 DEF PositionsTileDocuments
  <2>4. p \in {q \in PostingsIn(terms, t) : ~Retires(id, q.document_id)}
              \cup (IF t \in WordsIn(words) THEN {PostingFor(new, t, words)} ELSE {})
    BY <1>4, <2>1, Zenon
  <2> QED
    BY <2>2, <2>3, <2>4
<1> QED
  BY <1>6, <1>7 DEF PositionsTileDocuments

LEMMA AddKeepsIInv ==
    ASSUME IInv, NEW id \in StableId, NEW info \in Info, NEW words \in Words,
           AddDocument(id, info, words)
    PROVE  IInv'
<1>1. (\A t \in DOMAIN terms' : ListOK(terms'[t]))
        => (\A t \in DOMAIN terms' : terms'[t] \in PostingLists) /\ CountersMatchPostings'
  BY DEF ListOK, CountersMatchPostings
<1>2. TypeOK'
  <2>1. /\ docs' \in Seq(Meta) /\ doc_lengths' \in Seq(Nat)
        /\ Len(doc_lengths') = Len(docs')
        /\ tombstone' \subseteq InternalIds'
    BY AddSlots DEF IInv
  <2> QED
    BY <1>1, <2>1, AddKeepsIds, AddKeepsPostings DEF TypeOK
<1> QED
  BY <1>1, <1>2, AddKeepsIds, AddKeepsPostings, AddKeepsPositions DEF IInv

-----------------------------------------------------------------------------
(* remove_document                                                         *)

LEMMA RemovedSlots ==
    ASSUME IInv, NEW id, RemoveDocument(id)
    PROVE  /\ terms' = TermsWithout(id)
           /\ InternalIds' = InternalIds
           /\ tombstone' \subseteq InternalIds
           /\ Live' = {j \in Live : ~Retires(id, j)}
           /\ DOMAIN id_to_internal' = DOMAIN id_to_internal \ {id}
           /\ \A x \in DOMAIN id_to_internal' : id_to_internal'[x] = id_to_internal[x]
<1>1. terms' = TermsWithout(id) /\ tombstone' = TombstonesWith(id) /\ InternalIds' = InternalIds
  BY DEF RemoveDocument, TermsWithout, TombstonesWith, InternalIds
<1>2. tombstone' = tombstone \cup {j \in InternalIds : Retires(id, j)}
  BY <1>1, RetiredTombstones DEF IInv
<1>3. id_to_internal' = [x \in DOMAIN id_to_internal \ {id} |-> id_to_internal[x]]
  BY DEF RemoveDocument, IdMapWithout, Restrict
<1> QED
  BY <1>1, <1>2, <1>3 DEF Live, IInv, TypeOK

LEMMA RemovedPostings ==
    ASSUME IInv, NEW id, RemoveDocument(id), NEW t
    PROVE  /\ DOMAIN terms' = DOMAIN terms
           /\ PostingsIn(terms', t) = {p \in PostingsIn(terms, t) : ~Retires(id, p.document_id)}
  BY RemovedSlots, RetiredPostings

LEMMA RemovedOccurrences ==
    ASSUME IInv, NEW id, RemoveDocument(id), NEW t, NEW k, NEW i \in Live'
    PROVE  Occurs(t, i, k)' <=> Occurs(t, i, k)
<1>1. ~Retires(id, i)
  BY RemovedSlots
<1> QED
  BY <1>1, RemovedPostings DEF Occurs

LEMMA RemoveKeepsIInv ==
    ASSUME IInv, NEW id \in StableId, RemoveDocument(id)
    PROVE  IInv'
<1>1. \A t \in DOMAIN terms' : ListOK(terms'[t])
  <2>1. \A t \in DOMAIN terms : ListOK(terms[t])
    BY ListsOK DEF IInv, TypeOK
  <2> QED
    BY <2>1, RemovedSlots, RetiredListsOK, RetiredPostings
<1>2. (\A t \in DOMAIN terms' : terms'[t] \in PostingLists) /\ CountersMatchPostings'
  BY <1>1 DEF ListOK, CountersMatchPostings
<1>3. docs' = docs /\ doc_lengths' = doc_lengths
  BY DEF RemoveDocument
<1>4. TypeOK'
  BY <1>2, <1>3, RemovedSlots, RemovedPostings DEF IInv, TypeOK
<1>5. IdsNameLiveSlots'
  <2>1. /\ Live' = {j \in Live : ~Retires(id, j)}
        /\ DOMAIN id_to_internal' = DOMAIN id_to_internal \ {id}
        /\ \A x \in DOMAIN id_to_internal' : id_to_internal'[x] = id_to_internal[x]
    BY RemovedSlots
  <2>2. IdsNameLiveSlots
    BY DEF IInv
  <2>3. ASSUME NEW x \in DOMAIN id_to_internal'
        PROVE  id_to_internal'[x] \in Live' /\ docs'[id_to_internal'[x]].id = x
    <3>1. x \in DOMAIN id_to_internal /\ x # id /\ id_to_internal'[x] = id_to_internal[x]
      BY <2>1
    <3>2. id_to_internal[x] \in Live /\ docs[id_to_internal[x]].id = x
      BY <2>2, <3>1 DEF IdsNameLiveSlots
    <3>3. ~Retires(id, id_to_internal[x])
      BY <2>2, <3>1, <3>2 DEF IdsNameLiveSlots, Retires
    <3> QED
      BY <1>3, <2>1, <3>1, <3>2, <3>3
  <2>4. ASSUME NEW i \in Live'
        PROVE  docs'[i].id \in DOMAIN id_to_internal' /\ id_to_internal'[docs'[i].id] = i
    <3>1. i \in Live /\ ~Retires(id, i)
      BY <2>1
    <3>2. docs[i].id \in DOMAIN id_to_internal /\ id_to_internal[docs[i].id] = i
      BY <2>2, <3>1 DEF IdsNameLiveSlots
    <3>3. docs[i].id # id
      BY <3>1, <3>2 DEF Retires
    <3> QED
      BY <1>3, <2>1, <3>2, <3>3
  <2> QED
    BY <2>3, <2>4 DEF IdsNameLiveSlots
<1>6. PostingsNameLiveSlots'
  <2> SUFFICES ASSUME NEW t \in DOMAIN terms', NEW p \in terms'[t].postings
               PROVE  p.document_id \in Live'
    BY DEF PostingsNameLiveSlots
  <2>1. p \in PostingsIn(terms', t)
    BY DEF PostingsIn
  <2>2. p \in PostingsIn(terms, t) /\ ~Retires(id, p.document_id)
    BY <2>1, RemovedPostings
  <2> QED
    BY <2>2, RemovedSlots DEF IInv, PostingsNameLiveSlots, PostingsIn
<1>7. PositionsTileDocuments'
  <2>1. ASSUME NEW i \in Live', NEW k \in 1..doc_lengths'[i]
        PROVE  /\ \E t \in DOMAIN terms' : Occurs(t, i, k)'
               /\ \A t, u \in DOMAIN terms' : Occurs(t, i, k)' /\ Occurs(u, i, k)' => t = u
    <3>1. \A t : Occurs(t, i, k)' <=> Occurs(t, i, k)
      BY RemovedOccurrences
    <3>2. i \in Live /\ DOMAIN terms' = DOMAIN terms
      BY RemovedSlots, RemovedPostings
    <3> QED
      BY <1>3, <3>1, <3>2 DEF IInv, PositionsTileDocuments
  <2>2. ASSUME NEW t \in DOMAIN terms', NEW p \in terms'[t].postings
        PROVE  p.positions \subseteq 1..doc_lengths'[p.document_id]
    <3>1. p \in PostingsIn(terms', t)
      BY DEF PostingsIn
    <3>2. t \in DOMAIN terms /\ p \in terms[t].postings
      BY <3>1, RemovedPostings DEF PostingsIn
    <3> QED
      BY <1>3, <3>2 DEF IInv, PositionsTileDocuments
  <2> QED
    BY <2>1, <2>2 DEF PositionsTileDocuments
<1> QED
  BY <1>2, <1>4, <1>5, <1>6, <1>7 DEF IInv

-----------------------------------------------------------------------------

LEMMA UnchangedIInv ==
    ASSUME IInv, UNCHANGED vars
    PROVE  IInv'
<1> USE DEF vars
<1>1. InternalIds' = InternalIds /\ Live' = Live
  BY DEF InternalIds, Live
<1>2. \A t, i, k : Occurs(t, i, k)' <=> Occurs(t, i, k)
  BY DEF Occurs, PostingsIn
<1>3. TypeOK' /\ IdsNameLiveSlots'
  BY <1>1 DEF IInv, TypeOK, IdsNameLiveSlots
<1>4. PostingsNameLiveSlots' /\ CountersMatchPostings'
  BY <1>1 DEF IInv, PostingsNameLiveSlots, CountersMatchPostings
<1>5. PositionsTileDocuments'
  BY <1>1, <1>2 DEF IInv, PositionsTileDocuments
<1> QED
  BY <1>3, <1>4, <1>5 DEF IInv

LEMMA NextKeepsIInv ==
    ASSUME IInv, [Next]_vars
    PROVE  IInv'
<1>1. ASSUME NEW id \in StableId, RemoveDocument(id) PROVE IInv'
  BY <1>1, RemoveKeepsIInv
<1>2. ASSUME NEW id \in StableId, RemoveUnknown(id) PROVE IInv'
  BY <1>2, UnchangedIInv DEF RemoveUnknown
<1>3. ASSUME NEW id \in StableId, NEW info \in Info, NEW words \in Words,
             AddDocument(id, info, words)
      PROVE  IInv'
  BY <1>3, AddKeepsIInv
<1> QED
  BY <1>1, <1>2, <1>3, UnchangedIInv DEF Next

(* IInv is inductive.                                                      *)
THEOREM Invariance == Spec => []IInv
  BY InitIInv, NextKeepsIInv, PTL DEF Spec

(* Every variable keeps its type in every reachable state.                 *)
THEOREM TypeCorrectness == Spec => []TypeOK
  BY Invariance, PTL DEF IInv

(* The id map and the tombstones never disagree: each id names one live    *)
(* slot, each live slot carries the id it is found under.                  *)
THEOREM IdsCorrect == Spec => []IdsNameLiveSlots
  BY Invariance, PTL DEF IInv

(* No posting list names a document that was updated away or removed.      *)
THEOREM NoStalePostings == Spec => []PostingsNameLiveSlots
  BY Invariance, PTL DEF IInv

(* document_frequency and term_frequency always count what they name.      *)
THEOREM CountersCorrect == Spec => []CountersMatchPostings
  BY Invariance, PTL DEF IInv

(* Each token offset of a live document belongs to exactly one term.       *)
THEOREM PositionsCorrect == Spec => []PositionsTileDocuments
  BY Invariance, PTL DEF IInv

-----------------------------------------------------------------------------
(* The statistics.  Both sides of StatsMatchPostings count the same tokens:*)
(* as offsets of live documents, and as positions in postings.             *)

Recomputed == /\ stats = StatsOf(doc_lengths, tombstone)
              /\ IsFiniteSet(DOMAIN terms)

LEMMA LiveFinite ==
    ASSUME TypeOK
    PROVE  IsFiniteSet(Live) /\ Cardinality(Live) \in Nat /\ Live \subseteq Nat
<1>1. IsFiniteSet(InternalIds) /\ InternalIds \subseteq Nat
  BY FS_Interval DEF TypeOK, InternalIds
<1> QED
  BY <1>1, FS_Subset, FS_CardinalityType DEF Live

\* The map of ids is a bijection onto the live slots.
LEMMA OneLiveSlotPerId ==
    ASSUME IInv
    PROVE  Cardinality(Live) = Cardinality(DOMAIN id_to_internal)
<1> DEFINE f == [id \in DOMAIN id_to_internal |-> id_to_internal[id]]
<1>1. \A id \in DOMAIN id_to_internal : f[id] \in Live /\ docs[f[id]].id = id
  BY DEF IInv, IdsNameLiveSlots
<1>2. \A i \in Live : \E id \in DOMAIN id_to_internal : f[id] = i
  BY DEF IInv, IdsNameLiveSlots
<1>3. f \in [DOMAIN id_to_internal -> Live]
  BY <1>1
<1> HIDE DEF f
<1>4. f \in Bijection(DOMAIN id_to_internal, Live)
  BY <1>1, <1>2, <1>3 DEF Bijection, Injection, Surjection, IsInjective
<1>5. ExistsBijection(DOMAIN id_to_internal, Live)
  BY <1>4 DEF ExistsBijection
<1>6. IsFiniteSet(DOMAIN id_to_internal)
  BY <1>3, <1>4, LiveFinite, FS_Injection DEF IInv, Bijection
<1> QED
  BY <1>5, <1>6, FS_Bijection

\* The offsets of the live documents, with their slots.
Offsets == Pairs(Live, [i \in Live |-> 1..doc_lengths[i]])

\* The positions of the postings of term t, with the postings.
PositionsUnder(t) == Pairs(terms[t].postings, [p \in terms[t].postings |-> p.positions])

LEMMA TokensAreOffsets ==
    ASSUME TypeOK
    PROVE  Tokens(doc_lengths, Live) = Cardinality(Offsets)
<1> DEFINE A == [i \in Live |-> 1..doc_lengths[i]]
<1>1. \A i \in Live : IsFiniteSet(A[i]) /\ doc_lengths[i] = Cardinality(A[i])
  <2>1. \A i \in Live : doc_lengths[i] \in Nat
    BY DEF TypeOK, Live, InternalIds
  <2> QED BY <2>1, FS_Interval
<1>2. (CHOOSE it : SumsUp(Live, doc_lengths, it))[Live] = Cardinality(Pairs(Live, A))
  <2> HIDE DEF A
  <2> QED BY <1>1, LiveFinite, SumIsCount
<1>3. Tokens(doc_lengths, Live) = (CHOOSE it : SumsUp(Live, doc_lengths, it))[Live]
  BY DEF Tokens, MapThenSumSet, MapThenFoldSet, SumsUp, Pick
<1> QED
  BY <1>2, <1>3 DEF Offsets

LEMMA FrequenciesArePositions ==
    ASSUME CountersMatchPostings, NEW t \in DOMAIN terms
    PROVE  MapThenSumSet(LAMBDA p : p.term_frequency, terms[t].postings)
             = Cardinality(PositionsUnder(t))
<1> DEFINE ps == terms[t].postings
           A  == [p \in ps |-> p.positions]
           w  == [p \in ps |-> p.term_frequency]
<1>1. IsFiniteSet(ps) /\ \A p \in ps : IsFiniteSet(A[p]) /\ w[p] = Cardinality(A[p])
  BY DEF CountersMatchPostings
<1>2. (CHOOSE it : SumsUp(ps, w, it))[ps] = Cardinality(Pairs(ps, A))
  <2> HIDE DEF ps, A, w
  <2> QED BY <1>1, SumIsCount
<1>3. MapThenSumSet(LAMBDA p : w[p], ps) = (CHOOSE it : SumsUp(ps, w, it))[ps]
  <2> HIDE DEF ps, w
  <2> QED BY DEF MapThenSumSet, MapThenFoldSet, SumsUp, Pick
<1>4. MapThenSumSet(LAMBDA p : p.term_frequency, ps) = MapThenSumSet(LAMBDA p : w[p], ps)
  <2> QED BY ZenonT(60) DEF MapThenSumSet, MapThenFoldSet
<1> QED
  BY <1>2, <1>3, <1>4 DEF PositionsUnder

\* The positions of all lists.
AllPositions == Pairs(DOMAIN terms, [t \in DOMAIN terms |-> PositionsUnder(t)])

PostingsTotal ==
    MapThenSumSet(LAMBDA t : MapThenSumSet(LAMBDA p : p.term_frequency, terms[t].postings),
                  DOMAIN terms)

LEMMA TotalIsPositions ==
    ASSUME CountersMatchPostings, IsFiniteSet(DOMAIN terms)
    PROVE  PostingsTotal = Cardinality(AllPositions)
<1> DEFINE S == DOMAIN terms
           A == [t \in S |-> PositionsUnder(t)]
           w == [t \in S |-> MapThenSumSet(LAMBDA p : p.term_frequency, terms[t].postings)]
<1>1. \A t \in S : IsFiniteSet(A[t]) /\ w[t] = Cardinality(A[t])
  <2> SUFFICES ASSUME NEW t \in S PROVE IsFiniteSet(A[t]) /\ w[t] = Cardinality(A[t])
    OBVIOUS
  <2>1. IsFiniteSet(terms[t].postings)
        /\ \A p \in terms[t].postings : IsFiniteSet([q \in terms[t].postings |-> q.positions][p])
    BY DEF CountersMatchPostings
  <2>2. IsFiniteSet(PositionsUnder(t))
    BY <2>1, PairsFinite DEF PositionsUnder
  <2>3. w[t] = MapThenSumSet(LAMBDA p : p.term_frequency, terms[t].postings)
    BY Zenon
  <2>4. w[t] = Cardinality(PositionsUnder(t))
    BY <2>3, FrequenciesArePositions, Zenon
  <2>5. A[t] = PositionsUnder(t)
    BY Zenon
  <2> QED BY <2>2, <2>4, <2>5, Zenon
<1>2. (CHOOSE it : SumsUp(S, w, it))[S] = Cardinality(Pairs(S, A))
  <2>1. IsFiniteSet(S)
    OBVIOUS
  <2> HIDE DEF S, A, w
  <2> QED BY <1>1, <2>1, SumIsCount
<1>3. MapThenSumSet(LAMBDA t : w[t], S) = (CHOOSE it : SumsUp(S, w, it))[S]
  <2> HIDE DEF S, w
  <2> QED BY DEF MapThenSumSet, MapThenFoldSet, SumsUp, Pick
<1>4. PostingsTotal = MapThenSumSet(LAMBDA t : w[t], S)
  BY ZenonT(60) DEF PostingsTotal, MapThenSumSet, MapThenFoldSet
<1> QED
  BY <1>2, <1>3, <1>4 DEF AllPositions

\* Each offset of each live document stands in one posting of one term.
LEMMA PositionsTile ==
    ASSUME IInv, IsFiniteSet(DOMAIN terms)
    PROVE  Cardinality(AllPositions) = Cardinality(Offsets)
<1> DEFINE Is(q, t, p, k) == /\ t \in DOMAIN terms
                             /\ p \in terms[t].postings
                             /\ k \in p.positions
                             /\ q = <<t, <<p, k>>>>
           f == [q \in AllPositions |-> <<q[2][1].document_id, q[2][2]>>]
<1>1. \A q : q \in AllPositions <=> \E t, p, k : Is(q, t, p, k)
  <2>1. \A t \in DOMAIN terms : \A r : r \in PositionsUnder(t) <=>
           \E p \in terms[t].postings : \E k \in p.positions : r = <<p, k>>
    BY DEF PositionsUnder, Pairs
  <2> QED BY <2>1 DEF AllPositions, Pairs
<1>2. \A i, k : <<i, k>> \in Offsets <=> i \in Live /\ k \in 1..doc_lengths[i]
  BY DEF Offsets, Pairs
<1>3. \A o \in Offsets : \E i, k : o = <<i, k>>
  BY DEF Offsets, Pairs
<1>4. ASSUME NEW q \in AllPositions, NEW t, NEW p, NEW k, Is(q, t, p, k)
      PROVE  /\ f[q] = <<p.document_id, k>> /\ Occurs(t, p.document_id, k)
             /\ p.document_id \in Live /\ k \in 1..doc_lengths[p.document_id]
  <2>1. f[q] = <<p.document_id, k>>
    BY <1>4
  <2>2. p.document_id \in Live /\ k \in 1..doc_lengths[p.document_id]
    BY <1>4 DEF IInv, PostingsNameLiveSlots, PositionsTileDocuments
  <2>3. Occurs(t, p.document_id, k)
    BY <1>4 DEF Occurs, PostingsIn
  <2> QED BY <2>1, <2>2, <2>3
<1>5. ASSUME NEW o \in Offsets
      PROVE  \E q \in AllPositions : f[q] = o
  <2>1. PICK i, k : o = <<i, k>> /\ i \in Live /\ k \in 1..doc_lengths[i]
    BY <1>2, <1>3
  <2>2. PICK t \in DOMAIN terms : Occurs(t, i, k)
    BY <2>1 DEF IInv, PositionsTileDocuments
  <2>3. PICK p \in terms[t].postings : p.document_id = i /\ k \in p.positions
    BY <2>2 DEF Occurs, PostingsIn
  <2>4. <<t, <<p, k>>>> \in AllPositions /\ Is(<<t, <<p, k>>>>, t, p, k)
    BY <1>1, <2>3
  <2> QED BY <1>4, <2>1, <2>3, <2>4
<1> HIDE DEF f
<1>6. ASSUME NEW q \in AllPositions, NEW r \in AllPositions, f[q] = f[r]
      PROVE  q = r
  <2>1. PICK t, p, k : Is(q, t, p, k)
    BY <1>1
  <2>2. PICK u, s, m : Is(r, u, s, m)
    BY <1>1
  <2> HIDE DEF Is
  <2>3. /\ Occurs(t, p.document_id, k)
        /\ p.document_id \in Live /\ k \in 1..doc_lengths[p.document_id]
        /\ Occurs(u, s.document_id, m) /\ s.document_id = p.document_id /\ m = k
    BY <1>4, <1>6, <2>1, <2>2
  <2> USE DEF Is
  <2>4. t = u
    BY <2>1, <2>2, <2>3 DEF IInv, PositionsTileDocuments
  <2>5. p = s
    BY <2>1, <2>2, <2>3, <2>4 DEF IInv, CountersMatchPostings
  <2> QED BY <2>1, <2>2, <2>3, <2>4, <2>5
<1>7. f \in [AllPositions -> Offsets]
  <2>1. \A q \in AllPositions : f[q] \in Offsets
    BY <1>1, <1>2, <1>4
  <2> QED BY <2>1 DEF f
<1>8. f \in Bijection(AllPositions, Offsets)
  BY <1>5, <1>6, <1>7 DEF Bijection, Injection, Surjection, IsInjective
<1>9. IsFiniteSet(Offsets)
  <2>1. \A i \in Live : IsFiniteSet([j \in Live |-> 1..doc_lengths[j]][i])
    <3>1. \A i \in Live : doc_lengths[i] \in Nat
      BY DEF IInv, TypeOK, Live, InternalIds
    <3> QED BY <3>1, FS_Interval
  <2> QED BY <2>1, LiveFinite, PairsFinite DEF IInv, Offsets
<1>10. IsFiniteSet(AllPositions)
  BY <1>8, <1>9, FS_Injection DEF Bijection
<1> QED
  BY <1>8, <1>10, FS_Bijection DEF ExistsBijection

LEMMA StatsFollow ==
    ASSUME IInv, Recomputed
    PROVE  StatsMatchPostings
<1>1. Live = (1..Len(doc_lengths)) \ tombstone
  BY DEF IInv, TypeOK, Live, InternalIds
<1>2. stats.document_count = Cardinality(Live) /\ stats.total_tokens = Tokens(doc_lengths, Live)
  BY <1>1 DEF Recomputed, StatsOf
<1>3. stats.total_tokens = PostingsTotal
  BY <1>2, TokensAreOffsets, TotalIsPositions, PositionsTile DEF IInv, Recomputed
<1> QED
  BY <1>2, <1>3, OneLiveSlotPerId DEF StatsMatchPostings, PostingsTotal

LEMMA InitRecomputed == Init => Recomputed
<1> SUFFICES ASSUME Init PROVE Recomputed
  OBVIOUS
<1>1. TypeOK /\ Live = {} /\ Live = (1..Len(doc_lengths)) \ tombstone
  BY InitIInv DEF IInv, Init, Live, InternalIds
<1>2. Offsets = {}
  BY <1>1 DEF Offsets, Pairs
<1>3. Cardinality(Live) = 0 /\ Tokens(doc_lengths, Live) = 0
  BY <1>1, <1>2, TokensAreOffsets, FS_EmptySet
<1>4. DOMAIN terms = {}
  BY DEF Init
<1>5. StatsOf(doc_lengths, tombstone)
        = [document_count |-> Cardinality(Live), total_tokens |-> Tokens(doc_lengths, Live)]
  BY <1>1 DEF StatsOf
<1> QED
  BY <1>3, <1>4, <1>5, FS_EmptySet DEF Init, Recomputed

LEMMA WordsInFinite ==
    ASSUME NEW words \in Words
    PROVE  IsFiniteSet(WordsIn(words))
<1>1. IsFiniteSet(1..Len(words))
  BY FS_Interval DEF Words
<1>2. words \in Surjection(1..Len(words), WordsIn(words))
  BY DEF Words, WordsIn, Surjection
<1> QED
  BY <1>1, <1>2, FS_Surjection

LEMMA KeepsRecomputed ==
    ASSUME IInv, Recomputed, [Next]_vars
    PROVE  Recomputed'
<1>1. ASSUME NEW id \in StableId, RemoveDocument(id) PROVE Recomputed'
  <2>1. DOMAIN terms' = DOMAIN terms
    BY <1>1, RemovedPostings
  <2>2. stats' = StatsOf(doc_lengths', tombstone')
    BY <1>1 DEF RemoveDocument
  <2> QED
    BY <2>1, <2>2 DEF Recomputed
<1>2. ASSUME NEW id \in StableId, NEW info \in Info, NEW words \in Words,
             AddDocument(id, info, words)
      PROVE  Recomputed'
  <2>1. DOMAIN terms' = DOMAIN terms \cup WordsIn(words)
    BY <1>2, AddedPostings
  <2>2. IsFiniteSet(DOMAIN terms')
    BY <2>1, WordsInFinite, FS_Union DEF Recomputed
  <2>3. stats' = StatsOf(doc_lengths', tombstone')
    BY <1>2 DEF AddDocument
  <2> QED
    BY <2>2, <2>3 DEF Recomputed
<1>3. CASE UNCHANGED vars
  BY <1>3 DEF vars, Recomputed
<1> QED
  BY <1>1, <1>2, <1>3 DEF Next, RemoveUnknown

(* The token total and the document count, recomputed from the slots, are  *)
(* those the postings and the ids have: no token is lost or counted twice. *)
THEOREM StatsCorrect == Spec => []StatsMatchPostings
<1>1. IInv /\ Recomputed => StatsMatchPostings
  BY StatsFollow
<1>2. IInv /\ Recomputed /\ [Next]_vars => Recomputed'
  BY KeepsRecomputed
<1> QED
  BY <1>1, <1>2, InitRecomputed, Invariance, PTL DEF Spec

\* The slots remember the token counts they were given.
LengthsRecorded ==
    \A i \in InternalIds : doc_lengths[i] = docs[i].token_count /\ doc_lengths[i] <= MaxWords

LEMMA NextKeepsLengths ==
    ASSUME IInv, LengthsRecorded, Next
    PROVE  LengthsRecorded'
<1>1. ASSUME NEW id \in StableId, RemoveDocument(id) PROVE LengthsRecorded'
  BY <1>1 DEF RemoveDocument, LengthsRecorded, InternalIds
<1>2. ASSUME NEW id \in StableId, RemoveUnknown(id) PROVE LengthsRecorded'
  BY <1>2 DEF RemoveUnknown, vars, LengthsRecorded, InternalIds
<1>3. ASSUME NEW id \in StableId, NEW info \in Info, NEW words \in Words,
             AddDocument(id, info, words)
      PROVE  LengthsRecorded'
  <2> PICK new : new = Len(docs) + 1
    OBVIOUS
  <2>1. /\ \A j \in InternalIds : docs'[j] = docs[j] /\ doc_lengths'[j] = doc_lengths[j]
        /\ doc_lengths'[new] = Len(words) /\ InternalIds' = InternalIds \cup {new}
    BY <1>3, AddSlots DEF IInv
  <2>2. docs'[new].token_count = Len(words)
    BY <1>3 DEF AddDocument, IInv, TypeOK
  <2>3. Len(words) <= MaxWords
    BY BoundsAssumption DEF Words
  <2> QED
    BY <2>1, <2>2, <2>3 DEF LengthsRecorded
<1> QED
  BY <1>1, <1>2, <1>3 DEF Next

-----------------------------------------------------------------------------
(* Action properties.                                                      *)

(* An internal id keeps its document version for ever.                     *)
THEOREM SlotsKept == Spec => SlotsNeverReused
<1> DEFINE Kept == \A i \in InternalIds : /\ i \in InternalIds'
                                          /\ docs'[i] = docs[i]
                                          /\ doc_lengths'[i] = doc_lengths[i]
                                          /\ i \in tombstone => i \in tombstone'
<1>1. IInv /\ [Next]_vars => [Kept]_vars
  <2> SUFFICES ASSUME IInv, Next PROVE Kept
    OBVIOUS
  <2>1. ASSUME NEW id \in StableId, RemoveDocument(id) PROVE Kept
    BY <2>1 DEF RemoveDocument, TombstonesWith, InternalIds
  <2>2. ASSUME NEW id \in StableId, RemoveUnknown(id) PROVE Kept
    BY <2>2 DEF RemoveUnknown, vars, InternalIds
  <2>3. ASSUME NEW id \in StableId, NEW info \in Info, NEW words \in Words,
               AddDocument(id, info, words)
        PROVE  Kept
    <3>1. /\ InternalIds' = InternalIds \cup {Len(docs) + 1}
          /\ \A j \in InternalIds : docs'[j] = docs[j] /\ doc_lengths'[j] = doc_lengths[j]
      BY <2>3, AddSlots DEF IInv
    <3>2. tombstone \subseteq tombstone'
      BY <2>3 DEF AddDocument, TombstonesWith
    <3> QED
      BY <3>1, <3>2
  <2> QED
    BY <2>1, <2>2, <2>3 DEF Next
<1> QED
  BY <1>1, Invariance, PTL DEF Spec, SlotsNeverReused

(* What joins a posting list is newer than what it keeps: the lists stay   *)
(* sorted by document id although no operation sorts them.                 *)
THEOREM ListsStaySorted == Spec => PostingsAppendInOrder
<1> DEFINE InOrder == \A t \in DOMAIN terms' :
                         \A new \in PostingsIn(terms', t) \ PostingsIn(terms, t) :
                            \A old \in PostingsIn(terms', t) \cap PostingsIn(terms, t) :
                               old.document_id < new.document_id
<1>1. IInv /\ [Next]_vars => [InOrder]_vars
  <2> SUFFICES ASSUME IInv, Next PROVE InOrder
    OBVIOUS
  <2>1. ASSUME NEW id \in StableId, RemoveDocument(id) PROVE InOrder
    BY <2>1, RemovedPostings
  <2>2. ASSUME NEW id \in StableId, RemoveUnknown(id) PROVE InOrder
    BY <2>2 DEF RemoveUnknown, vars
  <2>3. ASSUME NEW id \in StableId, NEW info \in Info, NEW words \in Words,
               AddDocument(id, info, words)
        PROVE  InOrder
    <3> PICK n : n = Len(docs) + 1
      OBVIOUS
    <3>1. \A t : PostingsIn(terms', t)
                   = {p \in PostingsIn(terms, t) : ~Retires(id, p.document_id)}
                       \cup (IF t \in WordsIn(words) THEN {PostingFor(n, t, words)} ELSE {})
      BY <2>3, AddedPostings
    <3>2. \A t : \A p \in PostingsIn(terms, t) : p.document_id \in Nat /\ p.document_id < n
      BY DEF IInv, TypeOK, PostingsNameLiveSlots, PostingsIn, Live, InternalIds
    <3>3. \A t : \A p \in PostingsIn(terms', t) \ PostingsIn(terms, t) : p.document_id = n
      BY <3>1 DEF PostingFor
    <3> QED
      BY <3>2, <3>3
  <2> QED
    BY <2>1, <2>2, <2>3 DEF Next
<1> QED
  BY <1>1, Invariance, PTL DEF Spec, PostingsAppendInOrder

-----------------------------------------------------------------------------
(* Refinement: the index implements the document store.                    *)

\* The words read back are those the postings name.
LEMMA WordsReadBack ==
    ASSUME IInv, NEW i \in Live, NEW k \in 1..doc_lengths[i], NEW u, Occurs(u, i, k)
    PROVE  WordsOf(i)[k] = u
<1>1. u \in DOMAIN terms
  BY DEF Occurs, PostingsIn
<1>2. \A t \in DOMAIN terms : Occurs(t, i, k) => t = u
  BY <1>1 DEF IInv, PositionsTileDocuments
<1>3. (CHOOSE t \in DOMAIN terms : Occurs(t, i, k)) = u
  BY <1>1, <1>2
<1> QED
  BY <1>3 DEF WordsOf

LEMMA SameWords ==
    ASSUME IInv, IInv', NEW i \in Live, i \in Live', doc_lengths'[i] = doc_lengths[i],
           \A t, k : Occurs(t, i, k)' <=> Occurs(t, i, k)
    PROVE  WordsOf(i)' = WordsOf(i)
<1> DEFINE len == doc_lengths[i]
<1>1. WordsOf(i) = [k \in 1..len |-> CHOOSE t \in DOMAIN terms : Occurs(t, i, k)]
  BY DEF WordsOf
<1>2. WordsOf(i)' = [k \in 1..len |-> CHOOSE t \in DOMAIN terms' : Occurs(t, i, k)']
  BY DEF WordsOf
<1>3. ASSUME NEW k \in 1..len
      PROVE  (CHOOSE t \in DOMAIN terms' : Occurs(t, i, k)')
               = (CHOOSE t \in DOMAIN terms : Occurs(t, i, k))
  <2>1. PICK u \in DOMAIN terms : Occurs(u, i, k)
    BY DEF IInv, PositionsTileDocuments
  <2>2. Occurs(u, i, k)'
    BY <2>1
  <2>3. u \in DOMAIN terms'
    BY <2>2 DEF Occurs, PostingsIn
  <2>4. \A t \in DOMAIN terms' : Occurs(t, i, k)' => t = u
    <3>1. PositionsTileDocuments' /\ k \in 1..doc_lengths'[i]
      BY DEF IInv
    <3> QED
      BY <2>2, <2>3, <3>1 DEF PositionsTileDocuments
  <2>5. (CHOOSE t \in DOMAIN terms' : Occurs(t, i, k)') = u
    BY <2>2, <2>3, <2>4
  <2>6. \A t \in DOMAIN terms : Occurs(t, i, k) => t = u
    BY <2>1 DEF IInv, PositionsTileDocuments
  <2>7. (CHOOSE t \in DOMAIN terms : Occurs(t, i, k)) = u
    BY <2>1, <2>6
  <2> QED
    BY <2>5, <2>7
<1> QED
  BY <1>1, <1>2, <1>3

LEMMA InitStore == Init => Store!Init
<1> SUFFICES ASSUME Init PROVE StoreOf = << >>
  BY DEF Store!Init
<1>1. DOMAIN id_to_internal = {}
  BY DEF Init
<1>2. StoreOf = [x \in {} |-> x]
  BY <1>1 DEF StoreOf
<1> QED
  BY <1>2

\* An addition is a Put of the words added.
LEMMA AddIsPut ==
    ASSUME IInv, IInv', NEW id \in StableId, NEW info \in Info, NEW words \in Words,
           AddDocument(id, info, words)
    PROVE  Store!Put(id, [info |-> info, words |-> words])
<1> PICK new : new = Len(docs) + 1
  OBVIOUS
<1>1. /\ \A j \in InternalIds : docs'[j] = docs[j] /\ doc_lengths'[j] = doc_lengths[j]
      /\ docs'[new].info = info /\ doc_lengths'[new] = Len(words)
      /\ Live' = {j \in Live : ~Retires(id, j)} \cup {new}
      /\ Live \subseteq InternalIds /\ new \notin InternalIds
  BY AddSlots DEF IInv, Live
<1>2. id_to_internal' = [x \in DOMAIN id_to_internal \cup {id} |->
                            IF x = id THEN new ELSE id_to_internal[x]]
  BY DEF AddDocument
<1>3. WordsOf(new)' = words
  <2>1. WordsOf(new)' = [k \in 1..Len(words) |-> WordsOf(new)'[k]]
    BY <1>1 DEF WordsOf
  <2>2. ASSUME NEW k \in 1..Len(words) PROVE WordsOf(new)'[k] = words[k]
    <3>1. new \in Live' /\ k \in 1..doc_lengths'[new]
      BY <1>1
    <3>2. Occurs(words[k], new, k)'
      BY AddedOccurrences
    <3>3. words[k] \in DOMAIN terms'
      BY <3>2 DEF Occurs, PostingsIn
    <3>4. \A t \in DOMAIN terms' : Occurs(t, new, k)' => t = words[k]
      BY AddedOccurrences
    <3>5. (CHOOSE t \in DOMAIN terms' : Occurs(t, new, k)') = words[k]
      BY <3>2, <3>3, <3>4
    <3> QED
      BY <1>1, <3>5 DEF WordsOf
  <2>3. words = [k \in 1..Len(words) |-> words[k]]
    BY DEF Words
  <2> QED
    BY <2>1, <2>2, <2>3
<1>4. ASSUME NEW x \in DOMAIN id_to_internal, x # id
      PROVE  StoreOf'[x] = StoreOf[x]
  <2> PICK i : i = id_to_internal[x]
    OBVIOUS
  <2>1. i \in Live /\ docs[i].id = x
    BY DEF IInv, IdsNameLiveSlots
  <2>2. ~Retires(id, i)
    BY <1>4, <2>1 DEF Retires, IInv, IdsNameLiveSlots
  <2>3. i \in Live' /\ i # new /\ docs'[i] = docs[i] /\ doc_lengths'[i] = doc_lengths[i]
    BY <1>1, <2>1, <2>2
  <2>4. WordsOf(i)' = WordsOf(i)
    BY <2>1, <2>3, AddedOccurrences, SameWords
  <2>5. id_to_internal'[x] = i /\ x \in DOMAIN id_to_internal'
    BY <1>2, <1>4
  <2>6. StoreOf'[x] = [info |-> docs'[i].info, words |-> WordsOf(i)']
    BY <2>5 DEF StoreOf
  <2>7. StoreOf[x] = [info |-> docs[i].info, words |-> WordsOf(i)]
    BY DEF StoreOf
  <2> QED
    BY <2>3, <2>4, <2>6, <2>7
<1>5. StoreOf'[id] = [info |-> info, words |-> words]
  <2>1. id \in DOMAIN id_to_internal' /\ id_to_internal'[id] = new
    BY <1>2
  <2>2. StoreOf'[id] = [info |-> docs'[new].info, words |-> WordsOf(new)']
    BY <2>1 DEF StoreOf
  <2> QED
    BY <1>1, <1>3, <2>2
<1>6. StoreOf' = [x \in DOMAIN id_to_internal \cup {id} |-> StoreOf'[x]]
  BY <1>2 DEF StoreOf
<1>7. DOMAIN StoreOf = DOMAIN id_to_internal
  BY DEF StoreOf
<1> QED
  BY <1>4, <1>5, <1>6, <1>7 DEF Store!Put

\* A removal is a Delete.
LEMMA RemoveIsDelete ==
    ASSUME IInv, IInv', NEW id \in StableId, RemoveDocument(id)
    PROVE  Store!Delete(id)
<1>1. /\ id \in DOMAIN id_to_internal
      /\ DOMAIN id_to_internal' = DOMAIN id_to_internal \ {id}
      /\ \A x \in DOMAIN id_to_internal' : id_to_internal'[x] = id_to_internal[x]
      /\ docs' = docs /\ doc_lengths' = doc_lengths
  BY RemovedSlots DEF RemoveDocument
<1>2. ASSUME NEW x \in DOMAIN id_to_internal \ {id}
      PROVE  StoreOf'[x] = StoreOf[x]
  <2> PICK i : i = id_to_internal[x]
    OBVIOUS
  <2>1. i \in Live
    BY DEF IInv, IdsNameLiveSlots
  <2>2. i \in Live'
    BY <1>1 DEF IInv, IdsNameLiveSlots
  <2>3. WordsOf(i)' = WordsOf(i)
    BY <1>1, <2>1, <2>2, RemovedOccurrences, SameWords
  <2>4. StoreOf'[x] = [info |-> docs'[i].info, words |-> WordsOf(i)']
    BY <1>1 DEF StoreOf
  <2>5. StoreOf[x] = [info |-> docs[i].info, words |-> WordsOf(i)]
    BY DEF StoreOf
  <2> QED
    BY <1>1, <2>3, <2>4, <2>5
<1>3. StoreOf' = [x \in DOMAIN id_to_internal \ {id} |-> StoreOf'[x]]
  BY <1>1 DEF StoreOf
<1>4. DOMAIN StoreOf = DOMAIN id_to_internal
  BY DEF StoreOf
<1> QED
  BY <1>1, <1>2, <1>3, <1>4 DEF Store!Delete, Store!Restrict

(* What is added is what is read back, words in order and metadata.        *)
THEOREM AdditionsFaithful == Spec => AdditionsReadBack
<1> DEFINE ReadBack == \A id \in StableId, info \in Info, words \in Words :
                          AddDocument(id, info, words) =>
                             Store!Put(id, [info |-> info, words |-> words])
<1>1. IInv /\ IInv' => [ReadBack]_vars
  BY AddIsPut
<1> QED
  BY <1>1, Invariance, PTL DEF AdditionsReadBack

LEMMA NextRefines ==
    ASSUME IInv, IInv', [Next]_vars
    PROVE  [Store!Next]_StoreOf
<1>1. ASSUME NEW id \in StableId, RemoveDocument(id) PROVE Store!Next
  BY <1>1, RemoveIsDelete DEF Store!Next
<1>2. ASSUME UNCHANGED vars PROVE UNCHANGED StoreOf
  BY <1>2 DEF vars, StoreOf, WordsOf, Occurs, PostingsIn
<1>3. ASSUME NEW id \in StableId, NEW info \in Info, NEW words \in Words,
             AddDocument(id, info, words)
      PROVE  Store!Next
  <2>1. [info |-> info, words |-> words] \in Store!Document
    BY DEF Store!Document
  <2> QED
    BY <1>3, <2>1, AddIsPut DEF Store!Next
<1> QED
  BY <1>1, <1>2, <1>3 DEF Next, RemoveUnknown

(* Every behaviour of the index is one of the document store: what the     *)
(* postings say of a document is, at any time, the words last added under  *)
(* its id, and an operation touches no other document.                     *)
THEOREM Refinement == Spec => ImplementsStore
  BY NextRefines, InitStore, Invariance, PTL DEF Spec, Store!Spec, ImplementsStore

-----------------------------------------------------------------------------
(* Part 2: what a query finds.                                             *)

\* The postings of t for a slot are where t stands in it.
LEMMA PositionsAreOccurrences ==
    ASSUME NEW t, NEW i, NEW k
    PROVE  k \in PositionsIn(t, i) <=> Occurs(t, i, k)
  BY DEF PositionsIn, Occurs

\* Read back from the postings, word k of a live document is the one term that
\* stands at offset k.
LEMMA PositionsAreWords ==
    ASSUME IInv, NEW i \in Live
    PROVE  /\ Len(WordsOf(i)) = doc_lengths[i] /\ doc_lengths[i] \in Nat
           /\ \A t, k : k \in PositionsIn(t, i)
                          <=> k \in 1..doc_lengths[i] /\ WordsOf(i)[k] = t
<1>1. doc_lengths[i] \in Nat
  BY DEF IInv, TypeOK, Live, InternalIds
<1>2. Len(WordsOf(i)) = doc_lengths[i]
  BY <1>1 DEF WordsOf
<1>3. ASSUME NEW t, NEW k, Occurs(t, i, k)
      PROVE  t \in DOMAIN terms /\ k \in 1..doc_lengths[i]
  <2>1. PICK p \in PostingsIn(terms, t) : p.document_id = i /\ k \in p.positions
    BY <1>3 DEF Occurs
  <2>2. t \in DOMAIN terms /\ p \in terms[t].postings
    BY <2>1 DEF PostingsIn
  <2> QED
    BY <2>1, <2>2 DEF IInv, PositionsTileDocuments
<1>4. ASSUME NEW k \in 1..doc_lengths[i]
      PROVE  /\ WordsOf(i)[k] \in DOMAIN terms
             /\ Occurs(WordsOf(i)[k], i, k)
             /\ \A t : Occurs(t, i, k) => t = WordsOf(i)[k]
  <2>1. WordsOf(i)[k] = CHOOSE t \in DOMAIN terms : Occurs(t, i, k)
    BY DEF WordsOf
  <2>2. \E t \in DOMAIN terms : Occurs(t, i, k)
    BY DEF IInv, PositionsTileDocuments
  <2>3. WordsOf(i)[k] \in DOMAIN terms /\ Occurs(WordsOf(i)[k], i, k)
    BY <2>1, <2>2
  <2>4. \A t, u \in DOMAIN terms : Occurs(t, i, k) /\ Occurs(u, i, k) => t = u
    BY DEF IInv, PositionsTileDocuments
  <2> QED
    BY <1>3, <2>3, <2>4
<1> QED
  BY <1>1, <1>2, <1>3, <1>4, PositionsAreOccurrences

LEMMA ListsHoldLiveDocuments ==
    ASSUME IInv, NEW t
    PROVE  /\ DocumentsWith(t) \subseteq Live
           /\ \A i : PositionsIn(t, i) # {} => i \in DocumentsWith(t)
<1>1. \A p \in PostingsIn(terms, t) : p.document_id \in Live
  BY DEF PostingsIn, IInv, PostingsNameLiveSlots
<1> QED
  BY <1>1 DEF DocumentsWith, PositionsIn

\* The starts found in a live document are the occurrences in its words.
LEMMA StartsAreOccurrences ==
    ASSUME IInv, NEW ts \in Phrases, NEW i \in Live
    PROVE  PhraseStarts(ts, i) = Occurrences(ts, WordsOf(i))
<1>1. Len(ts) \in Nat \ {0}
  BY QueryAssumption DEF Phrases
<1>2. Len(WordsOf(i)) = doc_lengths[i] /\ doc_lengths[i] \in Nat
  BY PositionsAreWords
<1>3. \A t, k : k \in PositionsIn(t, i) <=> k \in 1..doc_lengths[i] /\ WordsOf(i)[k] = t
  BY PositionsAreWords
<1>4. ASSUME NEW s \in PhraseStarts(ts, i)
      PROVE  s \in Occurrences(ts, WordsOf(i))
  <2>1. s \in 1..doc_lengths[i] /\ WordsOf(i)[s] = ts[1]
    BY <1>3 DEF PhraseStarts
  <2>2. ASSUME NEW n \in 1..Len(ts)
        PROVE  s + n - 1 \in 1..doc_lengths[i] /\ WordsOf(i)[s + n - 1] = ts[n]
    <3>1. CASE n = 1
      <4>1. s + n - 1 = s
        BY <2>1, <3>1
      <4> QED BY <2>1, <3>1, <4>1
    <3>2. CASE n # 1
      <4>1. n \in 2..Len(ts)
        BY <1>1, <3>2
      <4>2. s + n - 1 \in PositionsIn(ts[n], i)
        BY <4>1 DEF PhraseStarts
      <4> QED BY <1>3, <4>2
    <3> QED BY <3>1, <3>2
  <2>3. s + Len(ts) - 1 <= doc_lengths[i]
    BY <1>1, <1>2, <2>1, <2>2
  <2> QED
    BY <1>2, <2>1, <2>2, <2>3 DEF Occurrences
<1>5. ASSUME NEW s \in Occurrences(ts, WordsOf(i))
      PROVE  s \in PhraseStarts(ts, i)
  <2>1. /\ s \in 1..doc_lengths[i] /\ s + Len(ts) - 1 <= doc_lengths[i]
        /\ \A n \in 1..Len(ts) : WordsOf(i)[s + n - 1] = ts[n]
    BY <1>2 DEF Occurrences
  <2>2. ASSUME NEW n \in 1..Len(ts)
        PROVE  s + n - 1 \in PositionsIn(ts[n], i)
    <3>1. s + n - 1 \in 1..doc_lengths[i]
      BY <1>1, <1>2, <2>1
    <3> QED BY <1>3, <2>1, <3>1
  <2>3. s \in PositionsIn(ts[1], i)
    <3>1. 1 \in 1..Len(ts) /\ s + 1 - 1 = s
      BY <1>1, <2>1
    <3> QED BY <2>2, <3>1
  <2>4. \A n \in 2..Len(ts) : n \in 1..Len(ts)
    BY <1>1
  <2> QED
    BY <2>2, <2>3, <2>4 DEF PhraseStarts
<1> QED
  BY <1>4, <1>5

\* Whoever is listed under t holds it somewhere.
LEMMA ListedOccurs ==
    ASSUME IInv, NEW t, NEW i \in DocumentsWith(t)
    PROVE  PositionsIn(t, i) # {}
<1>1. PICK p \in PostingsIn(terms, t) : p.document_id = i
  BY DEF DocumentsWith
<1>2. PICK k : k \in p.positions
  BY <1>1 DEF PostingsIn, IInv, CountersMatchPostings
<1> QED
  BY <1>1, <1>2 DEF PositionsIn

LEMMA TermsFind ==
    ASSUME IInv, NEW t \in Term
    PROVE  DocumentsWith(t) = {i \in Live : t \in WordsIn(WordsOf(i))}
<1>1. ASSUME NEW i \in DocumentsWith(t)
      PROVE  i \in Live /\ t \in WordsIn(WordsOf(i))
  <2>1. i \in Live
    BY ListsHoldLiveDocuments
  <2>2. PICK k : k \in PositionsIn(t, i)
    BY ListedOccurs
  <2> QED
    BY <2>1, <2>2, PositionsAreWords DEF WordsIn
<1>2. ASSUME NEW i \in Live, t \in WordsIn(WordsOf(i))
      PROVE  i \in DocumentsWith(t)
  <2>1. PICK k \in 1..Len(WordsOf(i)) : WordsOf(i)[k] = t
    BY <1>2 DEF WordsIn
  <2>2. k \in PositionsIn(t, i)
    BY <2>1, PositionsAreWords
  <2> QED
    BY <2>2, ListsHoldLiveDocuments
<1> QED
  BY <1>1, <1>2

LEMMA PhrasesFind ==
    ASSUME IInv, NEW ts \in Phrases
    PROVE  /\ DOMAIN match_phrase(ts) = {i \in Live : Occurrences(ts, WordsOf(i)) # {}}
           /\ \A i \in DOMAIN match_phrase(ts) :
                 match_phrase(ts)[i] = Occurrences(ts, WordsOf(i))
<1>1. DOMAIN match_phrase(ts) = {i \in DocumentsWith(ts[1]) : PhraseStarts(ts, i) # {}}
  BY DEF match_phrase
<1>2. \A i \in DOMAIN match_phrase(ts) : match_phrase(ts)[i] = PhraseStarts(ts, i)
  BY DEF match_phrase
<1>3. \A i \in Live : PhraseStarts(ts, i) = Occurrences(ts, WordsOf(i))
  BY StartsAreOccurrences
<1>4. \A i : PhraseStarts(ts, i) # {} => PositionsIn(ts[1], i) # {}
  BY DEF PhraseStarts
<1> QED
  BY <1>1, <1>2, <1>3, <1>4, ListsHoldLiveDocuments

LEMMA OccurrencesFinite ==
    ASSUME IInv, NEW i \in Live, NEW ts
    PROVE  /\ IsFiniteSet(Occurrences(ts, WordsOf(i)))
           /\ Cardinality(Occurrences(ts, WordsOf(i))) = 0 <=> Occurrences(ts, WordsOf(i)) = {}
<1>1. Occurrences(ts, WordsOf(i)) \in SUBSET (1..Len(WordsOf(i)))
  BY DEF Occurrences
<1>2. IsFiniteSet(1..Len(WordsOf(i)))
  BY PositionsAreWords, FS_Interval
<1> QED
  BY <1>1, <1>2, FS_Subset, FS_EmptySet

\* A term is a phrase of one word: its occurrences are the positions of its posting.
LEMMA TermOccurrences ==
    ASSUME IInv, NEW ts \in Phrases, Len(ts) = 1, NEW i \in Live
    PROVE  Occurrences(ts, WordsOf(i)) = PositionsIn(ts[1], i)
<1>1. PhraseStarts(ts, i) = PositionsIn(ts[1], i)
  BY DEF PhraseStarts
<1> QED
  BY <1>1, StartsAreOccurrences

\* A list has one posting for each of its documents.
LEMMA FrequencyCountsDocuments ==
    ASSUME IInv, NEW t \in DOMAIN terms
    PROVE  terms[t].document_frequency = Cardinality(DocumentsWith(t))
<1> DEFINE ps == terms[t].postings
           f  == [p \in ps |-> p.document_id]
<1>1. IsFiniteSet(ps) /\ terms[t].document_frequency = Cardinality(ps)
  BY DEF IInv, CountersMatchPostings
<1>2. PostingsIn(terms, t) = ps
  BY DEF PostingsIn
<1>3. f \in Bijection(ps, DocumentsWith(t))
  <2>1. f \in [ps -> DocumentsWith(t)]
    BY <1>2 DEF DocumentsWith
  <2>2. \A p, q \in ps : f[p] = f[q] => p = q
    BY DEF IInv, CountersMatchPostings
  <2>3. \A d \in DocumentsWith(t) : \E p \in ps : f[p] = d
    BY <1>2 DEF DocumentsWith
  <2> HIDE DEF f, ps
  <2>4. DOMAIN f = ps
    BY <2>1
  <2> QED
    BY <2>1, <2>2, <2>3, <2>4 DEF Bijection, Injection, IsInjective, Surjection
<1>4. ExistsBijection(ps, DocumentsWith(t))
  BY <1>3 DEF ExistsBijection
<1> HIDE DEF ps
<1> QED
  BY <1>1, <1>4, FS_Bijection

(* A term finds the live documents that contain it, each of them through   *)
(* its posting: the TERM case of evaluate().                               *)
THEOREM TermsFindDocuments ==
    Spec => [](\A t \in Term : DocumentsWith(t) = {i \in Live : t \in WordsIn(WordsOf(i))})
<1>1. IInv => \A t \in Term : DocumentsWith(t) = {i \in Live : t \in WordsIn(WordsOf(i))}
  BY TermsFind
<1> QED
  BY <1>1, Invariance, PTL

(* match_phrase() returns the documents with the phrase and in each of them*)
(* the offsets of all its occurrences, for phrases and documents of any    *)
(* length.                                                                 *)
THEOREM PhrasesCorrect == Spec => []PhrasesAreOccurrences
<1>1. IInv => PhrasesAreOccurrences
  BY PhrasesFind DEF PhrasesAreOccurrences
<1> QED
  BY <1>1, Invariance, PTL

(* The frequencies the scorer is given, for terms from the counters of the *)
(* lists, for phrases from match_phrase(), are numbers of occurrences and  *)
(* of documents with any.                                                  *)
THEOREM FrequenciesCorrect == Spec => []ScoresCountOccurrences
<1>1. ASSUME IInv, NEW ts \in Phrases, NEW i \in Live
      PROVE  LET tf == Cardinality(Occurrences(ts, WordsOf(i)))
                 df == Cardinality({d \in Live : Occurrences(ts, WordsOf(d)) # {}})
                 expected == IF tf = 0 THEN NoScore ELSE Inputs(tf, df)
             IN  /\ PhraseInputs(ts, i) = expected
                 /\ Len(ts) = 1 => TermInputs(ts[1], i) = expected
  <2> DEFINE occurrences == Occurrences(ts, WordsOf(i))
             documents   == {d \in Live : Occurrences(ts, WordsOf(d)) # {}}
  <2>1. Cardinality(occurrences) = 0 <=> occurrences = {}
    BY <1>1, OccurrencesFinite
  <2>2. DOMAIN match_phrase(ts) = documents
    BY <1>1, PhrasesFind
  <2>3. i \in documents <=> occurrences # {}
    OBVIOUS
  <2>4. i \in documents => match_phrase(ts)[i] = occurrences
    BY <1>1, <2>2, PhrasesFind
  <2>5. PhraseInputs(ts, i) = IF Cardinality(occurrences) = 0 THEN NoScore
                              ELSE Inputs(Cardinality(occurrences), Cardinality(documents))
    <3> HIDE DEF occurrences, documents
    <3>1. CASE occurrences = {}
      BY <2>1, <2>2, <2>3, <3>1 DEF PhraseInputs
    <3>2. CASE occurrences # {}
      BY <2>1, <2>2, <2>3, <2>4, <3>2 DEF PhraseInputs
    <3> QED
      BY <3>1, <3>2
  <2>6. ASSUME Len(ts) = 1
        PROVE  TermInputs(ts[1], i) = IF Cardinality(occurrences) = 0 THEN NoScore
                                      ELSE Inputs(Cardinality(occurrences), Cardinality(documents))
    <3> DEFINE t == ts[1]
    <3>1. occurrences = PositionsIn(t, i)
      BY <1>1, <2>6, TermOccurrences
    <3>2. DocumentsWith(t) = documents
      <4>1. \A d \in Live : Occurrences(ts, WordsOf(d)) = PositionsIn(t, d)
        BY <1>1, <2>6, TermOccurrences
      <4>2. DocumentsWith(t) \subseteq Live
        BY <1>1, ListsHoldLiveDocuments
      <4>3. \A d : PositionsIn(t, d) # {} => d \in DocumentsWith(t)
        BY <1>1, ListsHoldLiveDocuments
      <4>4. \A d \in DocumentsWith(t) : PositionsIn(t, d) # {}
        BY <1>1, ListedOccurs
      <4> HIDE DEF t
      <4> QED
        BY <4>1, <4>2, <4>3, <4>4
    <3>3. CASE PostingsOf(t, i) = {}
      <4>1. PositionsIn(t, i) = {}
        BY <3>3 DEF PostingsOf, PositionsIn
      <4> HIDE DEF t, occurrences, documents
      <4> QED
        BY <2>1, <3>1, <3>3, <4>1 DEF TermInputs, t
    <3>4. CASE PostingsOf(t, i) # {}
      <4> DEFINE p == CHOOSE q \in PostingsOf(t, i) : TRUE
      <4>1. p \in PostingsOf(t, i)
        BY <3>4
      <4>2. t \in DOMAIN terms /\ p \in terms[t].postings /\ p.document_id = i
        BY <4>1 DEF PostingsOf, PostingsIn
      <4>3. p.term_frequency = Cardinality(p.positions) /\ p.positions # {}
        BY <1>1, <4>2 DEF IInv, CountersMatchPostings
      <4>4. PositionsIn(t, i) = p.positions
        <5>1. \A q \in PostingsIn(terms, t) : q.document_id = i => q = p
          BY <1>1, <4>2 DEF PostingsIn, IInv, CountersMatchPostings
        <5>2. p \in PostingsIn(terms, t)
          BY <4>1 DEF PostingsOf
        <5> HIDE DEF p, t
        <5> QED
          BY <4>2, <5>1, <5>2 DEF PositionsIn
      <4>5. terms[t].document_frequency = Cardinality(DocumentsWith(t))
        BY <1>1, <4>2, FrequencyCountsDocuments
      <4>6. TermInputs(t, i) = Inputs(p.term_frequency, terms[t].document_frequency)
        BY <3>4 DEF TermInputs
      <4> HIDE DEF p, t, occurrences, documents
      <4> QED
        BY <2>1, <3>1, <3>2, <4>3, <4>4, <4>5, <4>6 DEF t
    <3> QED
      BY <3>3, <3>4
  <2> QED
    BY <2>5, <2>6
<1>2. IInv => ScoresCountOccurrences
  BY <1>1 DEF ScoresCountOccurrences
<1> QED
  BY <1>2, Invariance, PTL

-----------------------------------------------------------------------------
(* Trees.  What holds of all trees is proved by induction on their height. *)

\* Induction over the numbers: of the counterexamples one is least.
LEMMA LeastNumber ==
    ASSUME NEW T, T \subseteq Nat, T # {}
    PROVE  \E m \in T : \A k \in T : m <= k
<1> DEFINE R == OpToRel(<, Nat)
<1>1. \E x \in T : \A y \in T : ~ (<<y, x>> \in R)
  <2>1. IsWellFoundedOn(R, Nat)
    BY NatLessThanWellFounded
  <2> HIDE DEF R
  <2> QED BY <2>1, WFMin
<1>2. \A x, y \in Nat : <<y, x>> \in R <=> y < x
  BY DEF OpToRel
<1> HIDE DEF R
<1>3. PICK x \in T : \A y \in T : ~ (<<y, x>> \in R)
  BY <1>1
<1>4. \A y \in T : x <= y
  <2> TAKE y \in T
  <2>1. x \in Nat /\ y \in Nat /\ ~(y < x)
    BY <1>2, <1>3
  <2> QED BY <2>1
<1> QED
  BY <1>3, <1>4

\* Induction over the trees: of the counterexamples one is lowest.
LEMMA LowestTree ==
    ASSUME NEW T, T \subseteq Queries, T # {}
    PROVE  \E q \in T : \A p \in Lower(q) : p \notin T
<1> DEFINE hs == {Height[q] : q \in T}
<1>1. hs \subseteq Nat /\ hs # {}
  BY QueryAssumption
<1>2. PICK m \in hs : \A k \in hs : m <= k
  <2> HIDE DEF hs
  <2> QED BY <1>1, LeastNumber
<1>3. PICK q \in T : Height[q] = m
  BY <1>2
<1>4. ASSUME NEW p \in Lower(q), p \in T PROVE FALSE
  <2>1. Height[p] \in hs /\ Height[p] < m
    BY <1>3, <1>4 DEF Lower
  <2>2. Height[p] \in Nat /\ m \in Nat
    BY <1>1, <1>2, <2>1
  <2> QED BY <1>2, <2>1, <2>2
<1> QED
  BY <1>3, <1>4

\* The shape of a tree.
LEMMA Trees ==
    ASSUME NEW q \in Queries
    PROVE  \/ q.type = "TERM" /\ q.value \in Term \cup {NoTerm}
           \/ q.type = "PHRASE" /\ q.phrase_terms \in Phrases
           \/ q.type \in {"AND", "OR"} /\ q.left \in Lower(q) /\ q.right \in Lower(q)
           \/ q.type = "NOT" /\ q.right \in Lower(q)
  BY QueryAssumption DEF IsTree, TermNode, PhraseNode, AndNode, OrNode, NotNode

\* What Satisfying says of a tree, taking f for the trees below.
Meaning(f, q) ==
    CASE q.type = "TERM"   -> {words \in Words : q.value \in WordsIn(words)}
      [] q.type = "PHRASE" -> {words \in Words : Occurrences(q.phrase_terms, words) # {}}
      [] q.type = "AND"    -> f[q.left] \cap f[q.right]
      [] q.type = "OR"     -> f[q.left] \cup f[q.right]
      [] q.type = "NOT"    -> Words \ f[q.right]

LEMMA MeaningIsLocal ==
    ASSUME NEW f, NEW g, NEW q \in Queries, \A p \in Lower(q) : f[p] = g[p]
    PROVE  Meaning(f, q) = Meaning(g, q)
<1>1. CASE q.type \in {"TERM", "PHRASE"}
  BY <1>1 DEF Meaning
<1>2. CASE q.type \in {"AND", "OR"} /\ q.left \in Lower(q) /\ q.right \in Lower(q)
  BY <1>2 DEF Meaning
<1>3. CASE q.type = "NOT" /\ q.right \in Lower(q)
  BY <1>3 DEF Meaning
<1> QED
  BY <1>1, <1>2, <1>3, Trees

\* The trees up to height n, and the functions that satisfy the recursion on them.
UpTo(n) == {q \in Queries : Height[q] <= n}
Solutions(n) == {f \in [UpTo(n) -> SUBSET Words] : \A q \in UpTo(n) : f[q] = Meaning(f, q)}

LEMMA LowerIsUpTo ==
    ASSUME NEW n \in Nat, NEW q \in UpTo(n)
    PROVE  /\ q \in Queries /\ Lower(q) \subseteq UpTo(n)
           /\ n # 0 => Lower(q) \subseteq UpTo(n - 1)
           /\ n = 0 => Lower(q) = {}
<1>1. q \in Queries /\ Height[q] \in Nat /\ Height[q] <= n
  BY QueryAssumption DEF UpTo
<1>2. \A p \in Lower(q) : p \in Queries /\ Height[p] \in Nat /\ Height[p] < Height[q]
  BY QueryAssumption DEF Lower
<1> QED
  BY <1>1, <1>2 DEF UpTo

LEMMA SolutionsAgree ==
    ASSUME NEW n \in Nat, NEW m \in Nat, NEW f \in Solutions(n), NEW g \in Solutions(m),
           NEW q \in UpTo(n) \cap UpTo(m)
    PROVE  f[q] = g[q]
<1> DEFINE T == {p \in UpTo(n) \cap UpTo(m) : f[p] # g[p]}
<1> SUFFICES ASSUME T # {} PROVE FALSE
  OBVIOUS
<1>1. PICK p \in T : \A r \in Lower(p) : r \notin T
  <2>1. T \subseteq Queries
    BY DEF UpTo
  <2> HIDE DEF T
  <2> QED BY <2>1, LowestTree
<1>2. \A r \in Lower(p) : f[r] = g[r]
  BY <1>1, LowerIsUpTo
<1>3. Meaning(f, p) = Meaning(g, p)
  BY <1>2, MeaningIsLocal DEF UpTo
<1> QED
  BY <1>3 DEF Solutions

LEMMA MeaningIsSet ==
    ASSUME NEW f, NEW q \in Queries, \A p \in Lower(q) : f[p] \in SUBSET Words
    PROVE  Meaning(f, q) \in SUBSET Words
<1>1. CASE q.type \in {"TERM", "PHRASE"}
  BY <1>1 DEF Meaning
<1>2. CASE q.type \in {"AND", "OR"} /\ q.left \in Lower(q) /\ q.right \in Lower(q)
  BY <1>2 DEF Meaning
<1>3. CASE q.type = "NOT" /\ q.right \in Lower(q)
  BY <1>3 DEF Meaning
<1> QED
  BY <1>1, <1>2, <1>3, Trees

LEMMA SolutionsExist ==
    ASSUME NEW n \in Nat
    PROVE  Solutions(n) # {}
<1> DEFINE T == {k \in Nat : Solutions(k) = {}}
<1> SUFFICES ASSUME T # {} PROVE FALSE
  OBVIOUS
<1>1. PICK k \in T : \A j \in T : k <= j
  <2>1. T \subseteq Nat
    OBVIOUS
  <2> HIDE DEF T
  <2> QED BY <2>1, LeastNumber
<1>2. PICK f : /\ \A q \in UpTo(k) : \A p \in Lower(q) : f[p] \in SUBSET Words
               /\ \A q \in UpTo(k) : \A p \in Lower(q) : f[p] = Meaning(f, p)
  <2>1. CASE k = 0
    BY <2>1, LowerIsUpTo
  <2>2. CASE k # 0
    <3>1. k - 1 \in Nat /\ k - 1 \notin T
      BY <1>1, <2>2
    <3>2. PICK f \in Solutions(k - 1) : TRUE
      BY <3>1
    <3>3. \A q \in UpTo(k) : \A p \in Lower(q) : p \in UpTo(k - 1)
      BY <2>2, LowerIsUpTo
    <3> QED BY <3>2, <3>3 DEF Solutions
  <2> QED BY <2>1, <2>2
<1> DEFINE g == [q \in UpTo(k) |-> Meaning(f, q)]
<1>3. \A q \in UpTo(k) : g[q] \in SUBSET Words
  BY <1>2, MeaningIsSet DEF UpTo
<1>4. ASSUME NEW q \in UpTo(k) PROVE g[q] = Meaning(g, q)
  <2>1. \A p \in Lower(q) : g[p] = f[p]
    BY <1>2, LowerIsUpTo
  <2> QED BY <2>1, MeaningIsLocal DEF UpTo
<1>5. g \in Solutions(k)
  BY <1>3, <1>4 DEF Solutions
<1> QED BY <1>5

\* The recursion has a solution, so Satisfying obeys it.
LEMMA SatisfyingObeys ==
    Satisfying = [q \in Queries |-> Meaning(Satisfying, q)]
<1> DEFINE F(n) == CHOOSE f \in Solutions(n) : TRUE
           h == [q \in Queries |-> F(Height[q])[q]]
<1>1. \A n \in Nat : F(n) \in Solutions(n)
  BY SolutionsExist
<1>2. ASSUME NEW q \in Queries PROVE h[q] = Meaning(h, q)
  <2> PICK f, n : n = Height[q] /\ f = F(n)
    OBVIOUS
  <2>1. n \in Nat /\ q \in UpTo(n) /\ f \in Solutions(n)
    BY <1>1, QueryAssumption DEF UpTo
  <2>2. ASSUME NEW p \in Lower(q) PROVE h[p] = f[p]
    <3>1. p \in Queries /\ Height[p] \in Nat /\ p \in UpTo(Height[p]) /\ p \in UpTo(n)
      BY <2>1, LowerIsUpTo, QueryAssumption DEF Lower, UpTo
    <3>2. F(Height[p]) \in Solutions(Height[p])
      BY <1>1, <3>1
    <3>3. h[p] = F(Height[p])[p]
      BY <3>1
    <3> HIDE DEF F, h
    <3> QED BY <2>1, <3>1, <3>2, <3>3, SolutionsAgree
  <2>3. Meaning(f, q) = Meaning(h, q)
    <3> HIDE DEF h
    <3> QED BY <2>2, MeaningIsLocal
  <2>4. h[q] = f[q]
    OBVIOUS
  <2> QED BY <2>1, <2>3, <2>4 DEF Solutions
<1>3. h = [q \in Queries |-> Meaning(h, q)]
  BY <1>2
<1> HIDE DEF h
<1> QED
  BY <1>3, SMT DEF Satisfying, Meaning

-----------------------------------------------------------------------------
(* What a tree finds.                                                      *)

\* What evaluate says of a tree, taking f for the trees below.
Result(f, q) ==
    CASE q.type = "TERM"   -> DocumentsWith(q.value)
      [] q.type = "PHRASE" -> DOMAIN match_phrase(q.phrase_terms)
      [] q.type = "AND"    -> f[q.left] \cap f[q.right]
      [] q.type = "OR"     -> f[q.left] \cup f[q.right]
      [] q.type = "NOT"    -> all_document_ids \ f[q.right]

\* The live documents whose text the tree is true of.
Matching == [q \in Queries |-> {i \in Live : WordsOf(i) \in Satisfying[q]}]

\* The text of a live document, read back, is one that can have been added.
LEMMA LiveTexts ==
    ASSUME IInv, LengthsRecorded, NEW i \in Live
    PROVE  WordsOf(i) \in Words
<1>1. doc_lengths[i] \in 0..MaxWords /\ Len(WordsOf(i)) = doc_lengths[i]
  BY PositionsAreWords, BoundsAssumption DEF LengthsRecorded, Live
<1>2. \A k \in 1..doc_lengths[i] : WordsOf(i)[k] \in Term
  <2> TAKE k \in 1..doc_lengths[i]
  <2>1. \E t \in DOMAIN terms : Occurs(t, i, k)
    BY DEF IInv, PositionsTileDocuments
  <2>2. WordsOf(i)[k] \in DOMAIN terms
    BY <2>1 DEF WordsOf
  <2> QED BY <2>2 DEF IInv, TypeOK
<1>3. WordsOf(i) \in [1..doc_lengths[i] -> Term]
  BY <1>2 DEF WordsOf
<1> QED
  BY <1>1, <1>3 DEF Words

\* A stop word is in no list and in no text.
LEMMA StopWordsFindNothing ==
    ASSUME IInv, LengthsRecorded
    PROVE  /\ DocumentsWith(NoTerm) = {}
           /\ \A i \in Live : NoTerm \notin WordsIn(WordsOf(i))
<1>1. NoTerm \notin DOMAIN terms
  BY QueryAssumption DEF IInv, TypeOK
<1>2. DocumentsWith(NoTerm) = {}
  BY <1>1 DEF DocumentsWith, PostingsIn
<1>3. ASSUME NEW i \in Live PROVE NoTerm \notin WordsIn(WordsOf(i))
  <2>1. PICK n \in 0..MaxWords : WordsOf(i) \in [1..n -> Term]
    BY LiveTexts DEF Words
  <2>2. \A k \in 1..Len(WordsOf(i)) : WordsOf(i)[k] \in Term
    BY <2>1, BoundsAssumption
  <2> QED BY <2>2, QueryAssumption DEF WordsIn
<1> QED
  BY <1>2, <1>3

LEMMA MatchingObeys ==
    ASSUME IInv, LengthsRecorded, NEW q \in Queries
    PROVE  Matching[q] = Result(Matching, q)
<1>1. Satisfying[q] = Meaning(Satisfying, q)
  BY SatisfyingObeys
<1>2. Matching[q] = {i \in Live : WordsOf(i) \in Satisfying[q]}
  BY DEF Matching
<1>3. \A i \in Live : WordsOf(i) \in Words
  BY LiveTexts
<1>4. \A p \in Lower(q) : Matching[p] = {i \in Live : WordsOf(i) \in Satisfying[p]}
  BY DEF Matching, Lower
<1>5. CASE q.type = "TERM" /\ q.value \in Term \cup {NoTerm}
  <2>1. DocumentsWith(q.value) = {i \in Live : q.value \in WordsIn(WordsOf(i))}
    BY <1>5, TermsFind, StopWordsFindNothing
  <2>2. Result(Matching, q) = DocumentsWith(q.value)
    BY <1>5 DEF Result
  <2>3. Satisfying[q] = {words \in Words : q.value \in WordsIn(words)}
    BY <1>1, <1>5 DEF Meaning
  <2> QED BY <1>2, <1>3, <2>1, <2>2, <2>3
<1>6. CASE q.type = "PHRASE" /\ q.phrase_terms \in Phrases
  <2> PICK ts \in Phrases : ts = q.phrase_terms
    BY <1>6
  <2>1. DOMAIN match_phrase(ts) = {i \in Live : Occurrences(ts, WordsOf(i)) # {}}
    BY PhrasesFind
  <2>2. Result(Matching, q) = DOMAIN match_phrase(ts)
    BY <1>6 DEF Result
  <2>3. Satisfying[q] = {words \in Words : Occurrences(ts, words) # {}}
    BY <1>1, <1>6 DEF Meaning
  <2> QED BY <1>2, <1>3, <2>1, <2>2, <2>3
<1>7. CASE q.type = "AND" /\ q.left \in Lower(q) /\ q.right \in Lower(q)
  BY <1>1, <1>2, <1>4, <1>7 DEF Meaning, Result
<1>8. CASE q.type = "OR" /\ q.left \in Lower(q) /\ q.right \in Lower(q)
  BY <1>1, <1>2, <1>4, <1>8 DEF Meaning, Result
<1>9. CASE q.type = "NOT" /\ q.right \in Lower(q)
  BY <1>1, <1>2, <1>3, <1>4, <1>9 DEF Meaning, Result, all_document_ids
<1> QED
  BY <1>5, <1>6, <1>7, <1>8, <1>9, Trees

LEMMA EvaluateObeys ==
    ASSUME IInv, LengthsRecorded, NEW q \in Queries
    PROVE  evaluate[q] = Result(evaluate, q)
<1>1. Matching = [p \in Queries |-> Result(Matching, p)]
  <2>1. \A p \in Queries : Matching[p] = Result(Matching, p)
    BY MatchingObeys
  <2>2. Matching = [p \in Queries |-> Matching[p]]
    BY DEF Matching
  <2> HIDE DEF Matching
  <2> QED BY <2>1, <2>2
<1>2. evaluate = [p \in Queries |-> Result(evaluate, p)]
  <2> PICK h : h = [p \in Queries |-> Result(h, p)]
    BY <1>1
  <2> QED BY SMT DEF evaluate, Result
<1> QED
  BY <1>2, Zenon

LEMMA ResultIsLocal ==
    ASSUME NEW f, NEW g, NEW q \in Queries, \A p \in Lower(q) : f[p] = g[p]
    PROVE  Result(f, q) = Result(g, q)
<1>1. CASE q.type \in {"TERM", "PHRASE"}
  BY <1>1 DEF Result
<1>2. CASE q.type \in {"AND", "OR"} /\ q.left \in Lower(q) /\ q.right \in Lower(q)
  BY <1>2 DEF Result
<1>3. CASE q.type = "NOT" /\ q.right \in Lower(q)
  BY <1>3 DEF Result
<1> QED
  BY <1>1, <1>2, <1>3, Trees

\* The set operations over the posting lists find what the tree is true of.
LEMMA EvaluateMatches ==
    ASSUME IInv, LengthsRecorded
    PROVE  \A q \in Queries : evaluate[q] = {i \in Live : WordsOf(i) \in Satisfying[q]}
<1> DEFINE T == {q \in Queries : evaluate[q] # Matching[q]}
<1>1. T = {}
  <2> SUFFICES ASSUME T # {} PROVE FALSE
    OBVIOUS
  <2>1. PICK q \in T : \A p \in Lower(q) : p \notin T
    <3>1. T \subseteq Queries
      OBVIOUS
    <3> HIDE DEF T
    <3> QED BY <3>1, LowestTree
  <2>2. \A p \in Lower(q) : evaluate[p] = Matching[p]
    BY <2>1 DEF Lower
  <2>3. Result(evaluate, q) = Result(Matching, q)
    BY <2>1, <2>2, ResultIsLocal
  <2> QED BY <2>1, <2>3, EvaluateObeys, MatchingObeys
<1> QED
  BY <1>1 DEF Matching

(* A query of any depth finds exactly the stored documents whose words     *)
(* satisfy it: the ids of the live slots evaluate() returns are the ids    *)
(* whose text, read back from the postings, the tree is true of.           *)
THEOREM QueriesCorrect == Spec => []SearchFindsMatches
<1>1. ASSUME IInv, LengthsRecorded, NEW q \in Queries
      PROVE  /\ evaluate[q] \subseteq Live
             /\ {docs[i].id : i \in evaluate[q]}
                   = {id \in DOMAIN StoreOf : StoreOf[id].words \in Satisfying[q]}
  <2>1. evaluate[q] = {i \in Live : WordsOf(i) \in Satisfying[q]}
    BY <1>1, EvaluateMatches
  <2>2. /\ DOMAIN StoreOf = DOMAIN id_to_internal
        /\ \A id \in DOMAIN id_to_internal : StoreOf[id].words = WordsOf(id_to_internal[id])
    BY DEF StoreOf
  <2> QED
    BY <1>1, <2>1, <2>2 DEF IInv, IdsNameLiveSlots
<1>2. IInv /\ LengthsRecorded => SearchFindsMatches
  BY <1>1, Zenon DEF SearchFindsMatches
<1>3. Init => LengthsRecorded
  BY DEF Init, LengthsRecorded, InternalIds
<1>4. IInv /\ LengthsRecorded /\ [Next]_vars => LengthsRecorded'
  BY NextKeepsLengths DEF vars, LengthsRecorded, InternalIds
<1> QED
  BY <1>2, <1>3, <1>4, Invariance, PTL DEF Spec

-----------------------------------------------------------------------------
(* Part 3: saving and loading.                                             *)

(* The renumbering.                                                        *)

LEMMA DenseNumbers ==
    ASSUME TypeOK
    PROVE  LET N == Cardinality(Live)
           IN  /\ \A i \in Live : Dense(i) \in 1..N
               /\ \A i, j \in Live : Dense(i) = Dense(j) => i = j
               /\ \A n \in 1..N : \E i \in Live : Dense(i) = n
<1> DEFINE N == Cardinality(Live)
           Below(i) == {j \in Live : j <= i}
           f == [i \in Live |-> Dense(i)]
<1>1. IsFiniteSet(Live) /\ N \in Nat /\ Live \subseteq Nat
  BY LiveFinite
<1>2. \A i \in Live : IsFiniteSet(Below(i)) /\ Dense(i) = Cardinality(Below(i))
                      /\ Dense(i) \in Nat /\ Dense(i) <= N /\ i \in Below(i)
  BY <1>1, FS_Subset, FS_CardinalityType DEF Dense
<1>3. ASSUME NEW i \in Live PROVE Dense(i) \in 1..N
  <2> HIDE DEF Below, N
  <2>1. Dense(i) # 0
    BY <1>2, FS_EmptySet
  <2> QED BY <1>1, <1>2, <2>1
<1>4. ASSUME NEW i \in Live, NEW j \in Live, i < j PROVE Dense(i) # Dense(j)
  <2>1. Below(i) \subseteq Below(j) /\ j \notin Below(i) /\ j \in Below(j)
    <3>1. i \in Nat /\ j \in Nat /\ \A k \in Live : k \in Nat
      BY <1>1
    <3>2. \A k \in Live : k <= i => k <= j
      BY <1>4, <3>1
    <3>3. ~ (j <= i) /\ j <= j
      BY <1>4, <3>1
    <3> QED BY <3>2, <3>3
  <2> HIDE DEF Below
  <2> QED BY <1>2, <2>1, FS_Subset
<1>5. \A i, j \in Live : Dense(i) = Dense(j) => i = j
  BY <1>1, <1>4
<1>6. f \in [Live -> 1..N]
  BY <1>3
<1>7. f \in Injection(Live, 1..N)
  BY <1>5, <1>6 DEF Injection, IsInjective
<1>8. IsFiniteSet(1..N) /\ Cardinality(1..N) = N
  BY <1>1, FS_Interval
<1>9. f \in Surjection(Live, 1..N)
  <2> HIDE DEF f
  <2> QED BY <1>7, <1>8, FS_Injection
<1>10. ASSUME NEW n \in 1..N PROVE \E i \in Live : Dense(i) = n
  BY <1>9 DEF Surjection
<1> QED
  BY <1>3, <1>5, <1>10

\* The slot written at position n of the image.
Slot(n) == CHOOSE i \in Live : Dense(i) = n

LEMMA SlotInvertsDense ==
    ASSUME TypeOK
    PROVE  /\ \A i \in Live : Dense(i) \in 1..Cardinality(Live) /\ Slot(Dense(i)) = i
           /\ \A n \in 1..Cardinality(Live) : Slot(n) \in Live /\ Dense(Slot(n)) = n
  BY DenseNumbers DEF Slot

LEMMA CompactDocs ==
    ASSUME TypeOK
    PROVE  /\ CompactImage.docs \in Seq(Meta)
           /\ Len(CompactImage.docs) = Cardinality(Live)
           /\ \A n \in 1..Cardinality(Live) : CompactImage.docs[n] = docs[Slot(n)]
           /\ \A i \in Live : CompactImage.docs[Dense(i)] = docs[i]
<1>1. CompactImage.docs = [n \in 1..Cardinality(Live) |-> docs[Slot(n)]]
  BY DEF CompactImage, LiveDocs, Slot
<1>2. Cardinality(Live) \in Nat
  BY LiveFinite
<1>3. \A n \in 1..Cardinality(Live) : docs[Slot(n)] \in Meta
  <2>1. \A i \in Live : docs[i] \in Meta
    BY DEF TypeOK, Live, InternalIds
  <2> QED BY <2>1, SlotInvertsDense
<1> QED
  BY <1>1, <1>2, <1>3, SlotInvertsDense

-----------------------------------------------------------------------------
(* Consistent images.                                                      *)

StandsAt(f, t, i, k) == \E p \in f.terms[t] : p.document_id = i /\ k \in p.positions

ImageOK(f) ==
    /\ f \in Image
    /\ IsFiniteSet(DOMAIN f.terms)
    /\ \A i, j \in 1..Len(f.docs) : f.docs[i].id = f.docs[j].id => i = j
    /\ \A i \in 1..Len(f.docs) : f.docs[i].token_count <= MaxWords
    /\ \A t \in DOMAIN f.terms : ListOK(PostingList(f.terms[t]))
    /\ \A t \in DOMAIN f.terms : \A p \in f.terms[t] :
          /\ p.document_id \in 1..Len(f.docs)
          /\ p.positions \subseteq 1..f.docs[p.document_id].token_count
    /\ \A i \in 1..Len(f.docs) : \A k \in 1..f.docs[i].token_count :
          /\ \E t \in DOMAIN f.terms : StandsAt(f, t, i, k)
          /\ \A t, u \in DOMAIN f.terms : StandsAt(f, t, i, k) /\ StandsAt(f, u, i, k) => t = u

LEMMA CompactList ==
    ASSUME TypeOK, PostingsNameLiveSlots, NEW t \in DOMAIN terms
    PROVE  CompactImage.terms[t]
             = {[p EXCEPT !.document_id = Dense(p.document_id)] : p \in terms[t].postings}
<1>1. {q \in terms[t].postings : q.document_id \in Live} = terms[t].postings
  BY DEF PostingsNameLiveSlots
<1> QED
  BY <1>1 DEF CompactImage, Renumbered

LEMMA RenumberedPosting ==
    ASSUME NEW p \in Posting, NEW n \in Nat
    PROVE  LET q == [p EXCEPT !.document_id = n]
           IN  /\ q \in Posting /\ q.document_id = n
               /\ q.term_frequency = p.term_frequency /\ q.positions = p.positions
  BY DEF Posting

LEMMA CompactListOK ==
    ASSUME TypeOK, PostingsNameLiveSlots, NEW t \in DOMAIN terms, ListOK(terms[t])
    PROVE  ListOK(PostingList(CompactImage.terms[t]))
<1> DEFINE ps == terms[t].postings
           Moved(p) == [p EXCEPT !.document_id = Dense(p.document_id)]
           qs == {Moved(p) : p \in ps}
           f  == [p \in ps |-> Moved(p)]
<1>1. CompactImage.terms[t] = qs
  BY CompactList
<1>2. ps \subseteq Posting /\ \A p \in ps : p.document_id \in Live /\ Dense(p.document_id) \in Nat
  BY SlotInvertsDense, LiveFinite DEF ListOK, PostingLists, PostingsNameLiveSlots
<1>3. \A p \in ps : /\ Moved(p) \in Posting /\ Moved(p).document_id = Dense(p.document_id)
                    /\ Moved(p).term_frequency = p.term_frequency
                    /\ Moved(p).positions = p.positions
  BY <1>2, RenumberedPosting
<1>4. IsFiniteSet(qs) /\ Cardinality(qs) \in Nat
  <2>1. f \in Surjection(ps, qs)
    BY DEF Surjection
  <2> HIDE DEF f, qs
  <2> QED BY <2>1, FS_Surjection, FS_CardinalityType DEF ListOK
<1> HIDE DEF Moved
<1>5. \A p, q \in qs : p.document_id = q.document_id => p = q
  BY <1>2, <1>3, SlotInvertsDense DEF ListOK
<1>6. \A p \in qs : /\ IsFiniteSet(p.positions)
                    /\ p.term_frequency = Cardinality(p.positions)
                    /\ p.positions # {}
  BY <1>3 DEF ListOK
<1>7. qs \subseteq Posting
  BY <1>3
<1> HIDE DEF qs
<1> QED
  BY <1>1, <1>4, <1>5, <1>6, <1>7 DEF ListOK, PostingList, PostingLists

LEMMA CompactStands ==
    ASSUME IInv, NEW i \in Live, NEW t \in DOMAIN terms, NEW k
    PROVE  StandsAt(CompactImage, t, Dense(i), k) <=> Occurs(t, i, k)
<1> DEFINE Moved(p) == [p EXCEPT !.document_id = Dense(p.document_id)]
<1>1. CompactImage.terms[t] = {Moved(p) : p \in terms[t].postings}
  BY CompactList DEF IInv
<1>2. \A p \in terms[t].postings : /\ p.document_id \in Live
                                   /\ Moved(p).document_id = Dense(p.document_id)
                                   /\ Moved(p).positions = p.positions
  <2>1. \A p \in terms[t].postings : p \in Posting /\ p.document_id \in Live
                                      /\ Dense(p.document_id) \in Nat
    BY SlotInvertsDense, LiveFinite DEF IInv, TypeOK, PostingLists, PostingsNameLiveSlots
  <2> QED BY <2>1, RenumberedPosting
<1> HIDE DEF Moved
<1>3. \A p \in terms[t].postings : Dense(p.document_id) = Dense(i) <=> p.document_id = i
  BY <1>2, SlotInvertsDense DEF IInv
<1> QED
  BY <1>1, <1>2, <1>3 DEF StandsAt, Occurs, PostingsIn

\* Compaction makes a consistent image of a consistent index.
LEMMA CompactImageOK ==
    ASSUME IInv, Recomputed, LengthsRecorded
    PROVE  ImageOK(CompactImage)
<1> DEFINE f == CompactImage
           N == Cardinality(Live)
<1>1. /\ f.docs \in Seq(Meta) /\ Len(f.docs) = N
      /\ \A n \in 1..N : Slot(n) \in Live /\ Dense(Slot(n)) = n /\ f.docs[n] = docs[Slot(n)]
      /\ \A i \in Live : Dense(i) \in 1..N /\ f.docs[Dense(i)] = docs[i]
  BY CompactDocs, SlotInvertsDense DEF IInv
<1>2. DOMAIN f.terms = DOMAIN terms /\ f = [docs |-> f.docs, terms |-> f.terms]
      /\ f.terms = [t \in DOMAIN terms |-> f.terms[t]]
  BY DEF CompactImage
<1>3. \A t \in DOMAIN terms : ListOK(PostingList(f.terms[t]))
  BY CompactListOK, ListsOK DEF IInv, TypeOK
<1>4. \A i \in Live : doc_lengths[i] = docs[i].token_count /\ doc_lengths[i] <= MaxWords
  BY DEF LengthsRecorded, Live
<1>5. ASSUME NEW n \in 1..N, NEW m \in 1..N, f.docs[n].id = f.docs[m].id
      PROVE  n = m
  <2>1. Slot(n) = Slot(m)
    BY <1>1, <1>5 DEF IInv, IdsNameLiveSlots
  <2> QED BY <1>1, <2>1
<1>6. ASSUME NEW t \in DOMAIN terms, NEW q \in f.terms[t]
      PROVE  q.document_id \in 1..N /\ q.positions \subseteq 1..f.docs[q.document_id].token_count
  <2>1. PICK p \in terms[t].postings : q = [p EXCEPT !.document_id = Dense(p.document_id)]
    BY CompactList DEF IInv
  <2>2. p.document_id \in Live /\ p \in Posting
    BY DEF IInv, TypeOK, PostingLists, PostingsNameLiveSlots
  <2>3. q.document_id = Dense(p.document_id) /\ q.positions = p.positions
    BY <2>1, <2>2 DEF Posting
  <2>4. p.positions \subseteq 1..doc_lengths[p.document_id]
    BY DEF IInv, PositionsTileDocuments
  <2> QED BY <1>1, <1>4, <2>2, <2>3, <2>4
<1>7. ASSUME NEW n \in 1..N, NEW k \in 1..f.docs[n].token_count
      PROVE  /\ \E t \in DOMAIN terms : StandsAt(f, t, n, k)
             /\ \A t, u \in DOMAIN terms : StandsAt(f, t, n, k) /\ StandsAt(f, u, n, k) => t = u
  <2>1. Slot(n) \in Live /\ Dense(Slot(n)) = n /\ k \in 1..doc_lengths[Slot(n)]
    BY <1>1, <1>4
  <2>2. \A t \in DOMAIN terms : StandsAt(f, t, n, k) <=> Occurs(t, Slot(n), k)
    BY <2>1, CompactStands
  <2> QED BY <2>1, <2>2 DEF IInv, PositionsTileDocuments
<1>8. f \in Image
  <2>1. f.terms \in [DOMAIN terms -> SUBSET Posting] /\ DOMAIN terms \in SUBSET Term
    BY <1>2, <1>3 DEF ListOK, PostingList, PostingLists, IInv, TypeOK
  <2> QED BY <1>1, <1>2, <2>1 DEF Image
<1>9. \A n \in 1..N : f.docs[n].token_count <= MaxWords
  BY <1>1, <1>4
<1>10. IsFiniteSet(DOMAIN f.terms)
  BY <1>2 DEF Recomputed
<1>11. ImageOK(f)
  <2> HIDE DEF f, N
  <2> QED
    BY <1>1, <1>2, <1>3, <1>5, <1>6, <1>7, <1>8, <1>9, <1>10 DEF ImageOK
<1> QED
  BY <1>11

LEMMA LastSlotIsOnly ==
    ASSUME NEW f, ImageOK(f), NEW i \in 1..Len(f.docs)
    PROVE  LastSlot(f.docs, f.docs[i].id) = i
<1> DEFINE S == {j \in 1..Len(f.docs) : f.docs[j].id = f.docs[i].id}
<1>1. S = {i} /\ i \in Nat
  BY DEF ImageOK
<1>2. LastSlot(f.docs, f.docs[i].id) = Max(S)
  BY DEF LastSlot
<1> QED
  BY <1>1, <1>2 DEF Max

\* Loading a consistent image makes a consistent index, whatever was there before.
LEMMA LoadKeepsIInv ==
    ASSUME NEW f, ImageOK(f), LoadRaw(f)
    PROVE  IInv' /\ Recomputed' /\ LengthsRecorded'
<1> DEFINE N == 1..Len(f.docs)
<1>1. /\ docs' = f.docs /\ doc_lengths' = [i \in N |-> f.docs[i].token_count]
      /\ terms' = [t \in DOMAIN f.terms |-> PostingList(f.terms[t])]
      /\ tombstone' = {} /\ stats' = StatsOf(doc_lengths', tombstone')
      /\ id_to_internal' = [id \in {f.docs[i].id : i \in N} |-> LastSlot(f.docs, id)]
  BY DEF LoadRaw
<1>2. f.docs \in Seq(Meta) /\ DOMAIN f.terms \subseteq Term /\ Len(f.docs) \in Nat
      /\ \A i \in N : f.docs[i] \in Meta /\ f.docs[i].token_count \in Nat
  <2>1. f \in Image
    BY DEF ImageOK
  <2>2. f.docs \in Seq(Meta) /\ \E S \in SUBSET Term : f.terms \in [S -> SUBSET Posting]
    BY <2>1 DEF Image
  <2>3. \A i \in N : f.docs[i] \in Meta
    BY <2>2
  <2> QED BY <2>2, <2>3 DEF Meta
<1>3. InternalIds' = N /\ Live' = N
  BY <1>1 DEF InternalIds, Live
<1>4. \A i \in N : /\ f.docs[i].id \in DOMAIN id_to_internal'
                   /\ id_to_internal'[f.docs[i].id] = i
  BY <1>1, LastSlotIsOnly
<1>5. IdsNameLiveSlots'
  <2>1. \A id \in DOMAIN id_to_internal' : \E i \in N : id = f.docs[i].id
    BY <1>1
  <2>2. ASSUME NEW id \in DOMAIN id_to_internal'
        PROVE  id_to_internal'[id] \in Live' /\ docs'[id_to_internal'[id]].id = id
    <3>1. PICK i \in N : id = f.docs[i].id
      BY <2>1
    <3> QED BY <1>1, <1>3, <1>4, <3>1
  <2>3. ASSUME NEW i \in Live'
        PROVE  docs'[i].id \in DOMAIN id_to_internal' /\ id_to_internal'[docs'[i].id] = i
    BY <1>1, <1>3, <1>4
  <2> QED
    BY <2>2, <2>3 DEF IdsNameLiveSlots
<1>6. \A t \in DOMAIN terms' : ListOK(terms'[t])
  BY <1>1 DEF ImageOK
<1>7. (\A t \in DOMAIN terms' : terms'[t] \in PostingLists) /\ CountersMatchPostings'
  BY <1>6 DEF ListOK, CountersMatchPostings
<1>8. TypeOK'
  <2>1. doc_lengths' \in Seq(Nat) /\ Len(doc_lengths') = Len(f.docs)
    BY <1>1, <1>2
  <2>2. \A id \in DOMAIN id_to_internal' : id \in StableId /\ id_to_internal'[id] \in InternalIds'
    <3>1. \A id \in DOMAIN id_to_internal' : \E i \in N : id = f.docs[i].id
      BY <1>1
    <3> QED BY <1>2, <1>3, <1>4, <3>1 DEF Meta
  <2>3. DOMAIN terms' \subseteq Term /\ tombstone' \subseteq InternalIds' /\ docs' \in Seq(Meta)
    BY <1>1, <1>2
  <2> QED
    BY <1>1, <1>7, <2>1, <2>2, <2>3 DEF TypeOK
<1>9. /\ \A t \in DOMAIN terms' : t \in DOMAIN f.terms /\ terms'[t].postings = f.terms[t]
      /\ DOMAIN terms' = DOMAIN f.terms
      /\ \A t, i, k : t \in DOMAIN f.terms => (Occurs(t, i, k)' <=> StandsAt(f, t, i, k))
  BY <1>1 DEF PostingList, Occurs, PostingsIn, StandsAt
<1>10. PostingsNameLiveSlots'
  BY <1>3, <1>9 DEF PostingsNameLiveSlots, ImageOK
<1>11. PositionsTileDocuments'
  <2>1. \A i \in N : doc_lengths'[i] = f.docs[i].token_count
    BY <1>1
  <2>2. ASSUME NEW i \in Live', NEW k \in 1..doc_lengths'[i]
        PROVE  /\ \E t \in DOMAIN terms' : Occurs(t, i, k)'
               /\ \A t, u \in DOMAIN terms' : Occurs(t, i, k)' /\ Occurs(u, i, k)' => t = u
    BY <1>3, <1>9, <2>1 DEF ImageOK
  <2>3. ASSUME NEW t \in DOMAIN terms', NEW p \in terms'[t].postings
        PROVE  p.positions \subseteq 1..doc_lengths'[p.document_id]
    BY <1>9, <2>1 DEF ImageOK
  <2> QED BY <2>2, <2>3 DEF PositionsTileDocuments
<1>12. Recomputed'
  BY <1>1, <1>9 DEF Recomputed, ImageOK
<1>13. LengthsRecorded'
  BY <1>1, <1>3 DEF LengthsRecorded, ImageOK
<1> QED
  BY <1>5, <1>7, <1>8, <1>10, <1>11, <1>12, <1>13 DEF IInv

-----------------------------------------------------------------------------
(* The documents an image holds are those of the index.                    *)

ImageWords(f, i) == [k \in 1..f.docs[i].token_count |->
                        CHOOSE t \in DOMAIN f.terms : StandsAt(f, t, i, k)]

LEMMA ImageStoreIs ==
    ASSUME NEW f, ImageOK(f)
    PROVE  /\ ImageStore(f) = [id \in {f.docs[i].id : i \in 1..Len(f.docs)} |-> ImageStore(f)[id]]
           /\ \A i \in 1..Len(f.docs) :
                 ImageStore(f)[f.docs[i].id]
                   = [info |-> f.docs[i].info, words |-> ImageWords(f, i)]
<1> DEFINE N == 1..Len(f.docs)
           ids == {f.docs[i].id : i \in N}
           At(id) == CHOOSE n \in N : f.docs[n].id = id
<1>1. ImageStore(f) = [id \in ids |-> [info  |-> f.docs[At(id)].info,
                                       words |-> ImageWords(f, At(id))]]
  BY DEF ImageStore, ImageWords, StandsAt
<1>2. ASSUME NEW i \in N PROVE At(f.docs[i].id) = i
  BY DEF ImageOK
<1>3. \A i \in N : f.docs[i].id \in ids
  OBVIOUS
<1> HIDE DEF At, ids
<1> QED
  BY <1>1, <1>2, <1>3 DEF ids

LEMMA ImageWordIs ==
    ASSUME NEW f, ImageOK(f), NEW i \in 1..Len(f.docs), NEW k \in 1..f.docs[i].token_count,
           NEW u \in DOMAIN f.terms, StandsAt(f, u, i, k)
    PROVE  ImageWords(f, i)[k] = u
<1>1. \A t \in DOMAIN f.terms : StandsAt(f, t, i, k) => t = u
  BY DEF ImageOK
<1>2. (CHOOSE t \in DOMAIN f.terms : StandsAt(f, t, i, k)) = u
  BY <1>1
<1> QED
  BY <1>2 DEF ImageWords

\* What the index reads after loading is what the image said.
LEMMA LoadedStore ==
    ASSUME NEW f, ImageOK(f), LoadRaw(f)
    PROVE  StoreOf' = ImageStore(f)
<1> DEFINE N == 1..Len(f.docs)
<1>1. /\ docs' = f.docs /\ doc_lengths' = [i \in N |-> f.docs[i].token_count]
      /\ terms' = [t \in DOMAIN f.terms |-> PostingList(f.terms[t])]
      /\ tombstone' = {}
      /\ id_to_internal' = [id \in {f.docs[i].id : i \in N} |-> LastSlot(f.docs, id)]
  BY DEF LoadRaw
<1>2. IInv' /\ Live' = N
  BY <1>1, LoadKeepsIInv DEF Live, InternalIds
<1>3. \A t, i, k : t \in DOMAIN f.terms => (Occurs(t, i, k)' <=> StandsAt(f, t, i, k))
  BY <1>1 DEF PostingList, Occurs, PostingsIn, StandsAt
<1>4. ASSUME NEW i \in N PROVE WordsOf(i)' = ImageWords(f, i)
  <2>1. doc_lengths'[i] = f.docs[i].token_count
    BY <1>1
  <2>2. ASSUME NEW k \in 1..f.docs[i].token_count PROVE WordsOf(i)'[k] = ImageWords(f, i)[k]
    <3>1. PICK u \in DOMAIN f.terms : StandsAt(f, u, i, k)
      BY DEF ImageOK
    <3>2. u \in DOMAIN terms' /\ Occurs(u, i, k)'
      BY <1>1, <1>3, <3>1
    <3>3. \A t \in DOMAIN terms' : Occurs(t, i, k)' => t = u
      BY <1>2, <2>1, <3>2 DEF IInv, PositionsTileDocuments
    <3>4. (CHOOSE t \in DOMAIN terms' : Occurs(t, i, k)') = u
      BY <3>2, <3>3
    <3>5. WordsOf(i)'[k] = u
      BY <2>1, <3>4 DEF WordsOf
    <3> QED BY <3>1, <3>5, ImageWordIs
  <2>3. WordsOf(i)' = [k \in 1..f.docs[i].token_count |-> WordsOf(i)'[k]]
    BY <2>1 DEF WordsOf
  <2>4. ImageWords(f, i) = [k \in 1..f.docs[i].token_count |-> ImageWords(f, i)[k]]
    BY DEF ImageWords
  <2> QED BY <2>2, <2>3, <2>4
<1>5. ASSUME NEW id \in {f.docs[i].id : i \in N} PROVE StoreOf'[id] = ImageStore(f)[id]
  <2>1. PICK i \in N : id = f.docs[i].id
    OBVIOUS
  <2>2. id \in DOMAIN id_to_internal' /\ id_to_internal'[id] = i
    BY <1>1, <2>1, LastSlotIsOnly
  <2>3. StoreOf'[id] = [info |-> docs'[i].info, words |-> WordsOf(i)']
    BY <2>2 DEF StoreOf
  <2> QED BY <1>1, <1>4, <2>1, <2>3, ImageStoreIs
<1>6. StoreOf' = [id \in {f.docs[i].id : i \in N} |-> StoreOf'[id]]
  BY <1>1 DEF StoreOf
<1> QED
  BY <1>5, <1>6, ImageStoreIs

\* What a compacted image says is what the index reads.
LEMMA SavedIsStore ==
    ASSUME IInv, Recomputed, LengthsRecorded
    PROVE  ImageStore(CompactImage) = StoreOf
<1> DEFINE f == CompactImage
           N == Cardinality(Live)
<1>1. ImageOK(f) /\ DOMAIN f.terms = DOMAIN terms
  BY CompactImageOK DEF CompactImage
<1>2. /\ Len(f.docs) = N
      /\ \A n \in 1..N : Slot(n) \in Live /\ Dense(Slot(n)) = n
      /\ \A i \in Live : Dense(i) \in 1..N /\ f.docs[Dense(i)] = docs[i]
  BY CompactDocs, SlotInvertsDense DEF IInv
<1>3. \A i \in Live : doc_lengths[i] = docs[i].token_count
  BY DEF LengthsRecorded, Live
<1>4. \A i \in Live : \A t \in DOMAIN terms : \A k : StandsAt(f, t, Dense(i), k) <=> Occurs(t, i, k)
  BY CompactStands
<1> HIDE DEF f, N
<1>5. ASSUME NEW i \in Live PROVE WordsOf(i) = ImageWords(f, Dense(i))
  <2>1. f.docs[Dense(i)].token_count = doc_lengths[i]
    BY <1>2, <1>3
  <2>2. ASSUME NEW k \in 1..doc_lengths[i] PROVE WordsOf(i)[k] = ImageWords(f, Dense(i))[k]
    <3>1. PICK u \in DOMAIN terms : Occurs(u, i, k)
      BY DEF IInv, PositionsTileDocuments
    <3>2. StandsAt(f, u, Dense(i), k)
      BY <1>4, <3>1
    <3>3. ImageWords(f, Dense(i))[k] = u
      BY <1>1, <1>2, <2>1, <3>2, ImageWordIs
    <3> QED BY <3>1, <3>3, WordsReadBack
  <2>3. WordsOf(i) = [k \in 1..doc_lengths[i] |-> WordsOf(i)[k]]
    BY DEF WordsOf
  <2>4. ImageWords(f, Dense(i)) = [k \in 1..doc_lengths[i] |-> ImageWords(f, Dense(i))[k]]
    BY <2>1 DEF ImageWords
  <2> QED BY <2>2, <2>3, <2>4
<1>6. {f.docs[n].id : n \in 1..Len(f.docs)} = DOMAIN id_to_internal
  <2>1. ASSUME NEW n \in 1..N PROVE f.docs[n].id \in DOMAIN id_to_internal
    <3>1. Slot(n) \in Live /\ f.docs[n] = docs[Slot(n)]
      BY <1>2
    <3> QED BY <3>1 DEF IInv, IdsNameLiveSlots
  <2>2. ASSUME NEW id \in DOMAIN id_to_internal PROVE \E n \in 1..N : f.docs[n].id = id
    <3>1. id_to_internal[id] \in Live /\ docs[id_to_internal[id]].id = id
      BY DEF IInv, IdsNameLiveSlots
    <3> QED BY <1>2, <3>1
  <2>3. 1..Len(f.docs) = 1..N
    BY <1>2
  <2>4. PICK name : name = [n \in 1..N |-> f.docs[n].id]
    OBVIOUS
  <2>5. {f.docs[n].id : n \in 1..Len(f.docs)} = {name[n] : n \in 1..N}
    BY <2>3, <2>4
  <2>6. /\ \A n \in 1..N : name[n] \in DOMAIN id_to_internal
        /\ \A id \in DOMAIN id_to_internal : \E n \in 1..N : name[n] = id
    BY <2>1, <2>2, <2>4
  <2> QED BY ONLY <2>5, <2>6
<1>7. ASSUME NEW id \in DOMAIN id_to_internal PROVE ImageStore(f)[id] = StoreOf[id]
  <2>1. PICK i : i = id_to_internal[id]
    OBVIOUS
  <2>2. i \in Live /\ docs[i].id = id
    BY <2>1 DEF IInv, IdsNameLiveSlots
  <2>3. Dense(i) \in 1..Len(f.docs) /\ f.docs[Dense(i)] = docs[i]
    BY <1>2, <2>2
  <2>4. ImageStore(f)[id] = [info |-> docs[i].info, words |-> ImageWords(f, Dense(i))]
    <3>1. ImageStore(f)[f.docs[Dense(i)].id]
            = [info |-> f.docs[Dense(i)].info, words |-> ImageWords(f, Dense(i))]
      BY <1>1, <2>3, ImageStoreIs
    <3> QED BY <2>2, <2>3, <3>1
  <2>5. StoreOf[id] = [info |-> docs[i].info, words |-> WordsOf(i)]
    BY <2>1 DEF StoreOf
  <2> QED BY <1>5, <2>2, <2>4, <2>5
<1>8. ImageStore(f) = [id \in DOMAIN id_to_internal |-> ImageStore(f)[id]]
  BY <1>1, <1>6, ImageStoreIs
<1>9. StoreOf = [id \in DOMAIN id_to_internal |-> StoreOf[id]]
  BY DEF StoreOf
<1>10. ImageStore(f) = StoreOf
  BY <1>7, <1>8, <1>9
<1> QED
  BY <1>10 DEF f

\* The marker of a missing file is not the content of any.
LEMMA StoredIsSomething ==
    ASSUME NEW f, ImageOK(f)
    PROVE  ImageStore(f) # NoFile
<1> DEFINE N == 1..Len(f.docs)
           ids == {f.docs[i].id : i \in N}
<1>1. f.docs \in Seq(Meta) /\ \E S \in SUBSET Term : f.terms \in [S -> SUBSET Posting]
  <2>1. f \in Image
    BY DEF ImageOK
  <2> QED BY <2>1 DEF Image
<1>2. \A i \in N : f.docs[i] \in Meta
  BY <1>1
<1>3. ASSUME NEW i \in N PROVE ImageWords(f, i) \in Words
  <2>1. f.docs[i].token_count \in 0..MaxWords
    BY <1>2 DEF ImageOK, Meta
  <2>2. ASSUME NEW k \in 1..f.docs[i].token_count PROVE ImageWords(f, i)[k] \in Term
    <3>1. PICK u \in DOMAIN f.terms : StandsAt(f, u, i, k)
      BY DEF ImageOK
    <3> QED BY <1>1, <3>1, ImageWordIs
  <2>3. ImageWords(f, i) \in [1..f.docs[i].token_count -> Term]
    BY <2>2 DEF ImageWords
  <2> QED BY <2>1, <2>3 DEF Words
<1>4. ids \in SUBSET StableId
  BY <1>2 DEF Meta
<1>5. ASSUME NEW id \in ids PROVE ImageStore(f)[id] \in [info : Info, words : Words]
  <2>1. PICK i \in N : id = f.docs[i].id
    OBVIOUS
  <2>2. ImageStore(f)[id] = [info |-> f.docs[i].info, words |-> ImageWords(f, i)]
    BY <2>1, ImageStoreIs
  <2> QED BY <1>2, <1>3, <2>2 DEF Meta
<1>6. ImageStore(f) \in [ids -> [info : Info, words : Words]]
  BY <1>5, ImageStoreIs
<1>7. ImageStore(f) \in Stores
  <2> HIDE DEF ids
  <2> QED BY <1>4, <1>6 DEF Stores
<1> QED
  BY <1>7, FileAssumption

-----------------------------------------------------------------------------
(* The inductive invariant of saving, crashing and loading.                *)

StoreInv == /\ IInv /\ Recomputed /\ LengthsRecorded
            /\ index_file = NoFile \/ ImageOK(index_file)
            /\ tmp_file \in Image \cup {NoFile, Unfinished}
            /\ saving \in {"idle", "opened", "written"}
            /\ saving = "written" => tmp_file = CompactImage

\* The image a new process would have loaded.
LEMMA EmptyImageOK == ImageOK([docs |-> << >>, terms |-> << >>])
<1> DEFINE f == [docs |-> << >>, terms |-> << >>]
<1>1. Len(f.docs) = 0 /\ f.docs \in Seq(Meta) /\ DOMAIN f.terms = {}
  OBVIOUS
<1>2. f \in Image
  <2>1. f.terms \in [{} -> SUBSET Posting]
    BY <1>1
  <2> QED BY <1>1, <2>1 DEF Image
<1>3. IsFiniteSet(DOMAIN f.terms)
  BY <1>1, FS_EmptySet
<1> HIDE DEF f
<1>4. ImageOK(f)
  BY <1>1, <1>2, <1>3 DEF ImageOK
<1> QED
  BY <1>4 DEF f

LEMMA StoreInitInv == StoreInit => StoreInv
<1> SUFFICES ASSUME StoreInit PROVE StoreInv
  OBVIOUS
<1>1. IInv /\ Recomputed
  BY InitIInv, InitRecomputed DEF StoreInit
<1>2. LengthsRecorded
  BY DEF StoreInit, Init, LengthsRecorded, InternalIds
<1> QED
  BY <1>1, <1>2 DEF StoreInit, StoreInv

\* While the index and the files stay, so does what is said of them.
LEMMA SameIndex ==
    ASSUME StoreInv, UNCHANGED vars
    PROVE  /\ IInv' /\ Recomputed' /\ LengthsRecorded'
           /\ CompactImage' = CompactImage /\ StoreOf' = StoreOf
<1>1. IInv'
  BY UnchangedIInv DEF StoreInv
<1>2. Recomputed'
  BY DEF StoreInv, Recomputed, vars
<1>3. LengthsRecorded'
  BY DEF StoreInv, LengthsRecorded, InternalIds, vars
<1>4. CompactImage' = CompactImage
  BY DEF CompactImage, LiveDocs, Renumbered, Dense, Live, InternalIds, vars
<1>5. StoreOf' = StoreOf
  BY DEF vars, StoreOf, WordsOf, Occurs, PostingsIn
<1> QED
  BY <1>1, <1>2, <1>3, <1>4, <1>5

LEMMA StoreNextInv ==
    ASSUME StoreInv, [StoreNext]_<<vars, storeVars>>
    PROVE  StoreInv'
<1>1. CASE ChangeIndex
  <2>1. IInv'
    BY <1>1, NextKeepsIInv DEF ChangeIndex, StoreInv
  <2>2. Recomputed' /\ LengthsRecorded'
    BY <1>1, KeepsRecomputed, NextKeepsLengths DEF ChangeIndex, StoreInv
  <2> QED
    BY <1>1, <2>1, <2>2 DEF ChangeIndex, StoreInv, storeVars
<1>2. CASE SaveOpen
  BY <1>2, SameIndex DEF SaveOpen, StoreInv
<1>3. CASE SaveWrite
  <2>1. CompactImage \in Image
    BY CompactImageOK DEF StoreInv, ImageOK
  <2> QED
    BY <1>3, <2>1, SameIndex DEF SaveWrite, StoreInv
<1>4. CASE SaveRename
  <2>1. ImageOK(index_file')
    BY <1>4, CompactImageOK DEF SaveRename, StoreInv
  <2> QED
    BY <1>4, <2>1, SameIndex DEF SaveRename, StoreInv
<1>5. CASE SaveFail
  BY <1>5, SameIndex DEF SaveFail, StoreInv
<1>6. CASE Load
  BY <1>6, LoadKeepsIInv DEF Load, StoreInv, storeVars
<1>7. CASE Crash
  BY <1>7, EmptyImageOK, LoadKeepsIInv DEF Crash, StoreInv
<1>8. CASE LoadFail \/ UNCHANGED <<vars, storeVars>>
  BY <1>8, SameIndex DEF LoadFail, StoreInv, storeVars
<1> QED
  BY <1>1, <1>2, <1>3, <1>4, <1>5, <1>6, <1>7, <1>8 DEF StoreNext

-----------------------------------------------------------------------------
(* Theorems.                                                               *)

THEOREM StoreInvariance == StoreSpec => []StoreInv
  BY StoreInitInv, StoreNextInv, PTL DEF StoreSpec

(* Index and files keep their types through saves, crashes and loads.      *)
THEOREM StoreTypeCorrectness == StoreSpec => []StoreTypeOK
<1>1. StoreInv => StoreTypeOK
  BY DEF StoreInv, IInv, StoreTypeOK, ImageOK
<1> QED
  BY <1>1, StoreInvariance, PTL

(* index.dat is never cut off, whenever the process dies.                  *)
THEOREM FileStaysWhole == StoreSpec => []IndexFileWhole
<1>1. StoreInv => IndexFileWhole
  BY FileAssumption DEF StoreInv, IndexFileWhole, ImageOK
<1> QED
  BY <1>1, StoreInvariance, PTL

(* A loaded index is as consistent as one that was built: ids, counters,   *)
(* positions and statistics, which load_raw recomputes, all agree.         *)
THEOREM LoadedIndexConsistent ==
    StoreSpec => [](/\ IdsNameLiveSlots
                    /\ CountersMatchPostings
                    /\ PositionsTileDocuments
                    /\ StatsMatchPostings)
<1>1. StoreInv => /\ IdsNameLiveSlots
                  /\ CountersMatchPostings
                  /\ PositionsTileDocuments
                  /\ StatsMatchPostings
  BY StatsFollow DEF StoreInv, IInv
<1> QED
  BY <1>1, StoreInvariance, PTL

-----------------------------------------------------------------------------
(* Refinement.                                                             *)

LEMMA DurableInit == StoreInit => Durable!Init
<1> SUFFICES ASSUME StoreInit PROVE Durable!Init
  OBVIOUS
<1>1. StoreOf = << >>
  BY InitStore DEF StoreInit, Store!Init
<1>2. SavedStore = NoFile
  BY DEF StoreInit, SavedStore
<1> QED
  BY <1>1, <1>2 DEF Durable!Init, Durable!Memory!Init

\* What is saved depends on the file alone.
LEMMA SameFile ==
    ASSUME UNCHANGED index_file
    PROVE  UNCHANGED SavedStore
  BY DEF SavedStore, ImageStore

LEMMA FileIsStore ==
    ASSUME StoreInv
    PROVE  /\ index_file \notin {NoFile, Unfinished}
                 => ImageOK(index_file) /\ SavedStore = ImageStore(index_file)
           /\ ImageOK(index_file) => SavedStore # NoFile
  BY FileAssumption, StoredIsSomething DEF StoreInv, SavedStore, ImageOK

LEMMA DurableNext ==
    ASSUME StoreInv, StoreInv', [StoreNext]_<<vars, storeVars>>
    PROVE  [Durable!Next]_<<StoreOf, SavedStore>>
<1>1. CASE ChangeIndex
  <2>1. [Store!Next]_StoreOf
    BY <1>1, NextRefines DEF ChangeIndex, StoreInv
  <2>2. UNCHANGED SavedStore
    BY <1>1, SameFile DEF ChangeIndex, storeVars
  <2>3. Store!Next => Durable!Memory!Next
    BY DEF Store!Next, Store!Put, Store!Delete, Store!Document, Store!Restrict,
           Durable!Memory!Next, Durable!Memory!Put, Durable!Memory!Delete,
           Durable!Memory!Document, Durable!Memory!Restrict
  <2> QED
    BY <2>1, <2>2, <2>3 DEF Durable!Next, Durable!Change
<1>2. CASE SaveOpen \/ SaveWrite \/ SaveFail \/ LoadFail \/ UNCHANGED <<vars, storeVars>>
  <2>1. UNCHANGED vars /\ UNCHANGED index_file
    BY <1>2 DEF SaveOpen, SaveWrite, SaveFail, LoadFail, storeVars
  <2> QED
    BY <2>1, SameIndex, SameFile
<1>3. CASE SaveRename
  <2>1. index_file' = CompactImage /\ UNCHANGED vars
    BY <1>3 DEF SaveRename, StoreInv
  <2>2. SavedStore' = ImageStore(CompactImage)
    <3>1. ImageOK(CompactImage)
      BY CompactImageOK DEF StoreInv
    <3>2. CompactImage # NoFile /\ CompactImage # Unfinished
      BY <3>1, FileAssumption DEF ImageOK
    <3>3. SavedStore' = ImageStore(index_file')
      BY <2>1, <3>2 DEF SavedStore, ImageStore
    <3> HIDE DEF CompactImage
    <3> QED
      BY <2>1, <3>3
  <2>3. SavedStore' = StoreOf /\ UNCHANGED StoreOf
    BY <2>1, <2>2, SavedIsStore, SameIndex DEF StoreInv
  <2> QED
    BY <2>3 DEF Durable!Next, Durable!Save
<1>4. CASE Load
  <2>1. ImageOK(index_file) /\ SavedStore = ImageStore(index_file) /\ SavedStore # NoFile
    BY <1>4, FileIsStore DEF Load
  <2>2. StoreOf' = ImageStore(index_file)
    BY <1>4, <2>1, LoadedStore DEF Load
  <2>3. UNCHANGED SavedStore
    BY <1>4, SameFile DEF Load, storeVars
  <2> QED
    BY <2>1, <2>2, <2>3 DEF Durable!Next, Durable!Load, Durable!Memory!Replace
<1>5. CASE Crash
  <2> DEFINE f == [docs |-> << >>, terms |-> << >>]
  <2>1. StoreOf' = ImageStore(f)
    BY <1>5, EmptyImageOK, LoadedStore DEF Crash
  <2>2. ImageStore(f) = << >>
    <3>1. {f.docs[i].id : i \in 1..Len(f.docs)} = {}
      OBVIOUS
    <3>2. ImageStore(f) = [id \in {} |-> ImageStore(f)[id]]
      BY <3>1, EmptyImageOK, ImageStoreIs
    <3> QED BY <3>2
  <2>3. UNCHANGED SavedStore
    BY <1>5, SameFile DEF Crash
  <2> HIDE DEF f
  <2> QED
    BY <2>1, <2>2, <2>3 DEF Durable!Next, Durable!Crash, Durable!Memory!Replace
<1> QED
  BY <1>1, <1>2, <1>3, <1>4, <1>5 DEF StoreNext

(* Saving, crashing and loading implement the durable store: a save        *)
(* records everything in the one step that renames the file, or nothing;   *)
(* a crash loses the documents in memory and no saved one; and a load      *)
(* brings back, word for word, what was saved.                             *)
THEOREM DurableRefinement == StoreSpec => ImplementsDurableStore
  BY DurableInit, DurableNext, StoreInvariance, PTL
  DEF StoreSpec, ImplementsDurableStore, Durable!Spec

=============================================================================
