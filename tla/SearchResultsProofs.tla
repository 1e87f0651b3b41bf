------------------------ MODULE SearchResultsProofs ------------------------
(***************************************************************************)
(* Proofs about TopK, for any number of candidates, any scores and limits, *)
(* and about Snippet, for texts and queries of any length.                 *)
(***************************************************************************)
EXTENDS TopK, Snippet, FiniteSetTheorems, SequenceTheorems, WellFoundedInduction, TLAPS

LEMMA LimitIsPositive ==
    ASSUME NEW asked \in Asked
    PROVE  EffectiveTopK(asked) \in Nat \ {0}
  BY TopKAssumption DEF EffectiveTopK

\* Entries of different candidates differ; an entry carries its score.
LEMMA EntriesDiffer ==
    ASSUME NEW i, NEW j
    PROVE  /\ EntryOf(i).score = scores[i] /\ EntryOf(i).document_id = i
           /\ EntryOf(i) = EntryOf(j) => i = j
  BY DEF EntryOf

\* As long as there is room, nothing is left out of the heap.
AllKept == ~done /\ next - 1 < top_k => \A i \in 1..next - 1 : EntryOf(i) \in heap

LoopIsOver == done => next > Len(scores)

Inv == TypeOK /\ HeapHoldsBest /\ AllKept /\ LoopIsOver /\ AnswerIsBest

LEMMA InitInv == Init => Inv
<1> SUFFICES ASSUME Init PROVE Inv
  OBVIOUS
<1>1. top_k \in Nat \ {0}
  BY LimitIsPositive DEF Init
<1>2. PICK n \in 0..MaxCandidates : scores \in [1..n -> Score]
  BY DEF Init
<1>3. scores \in Seq(Score) /\ Len(scores) \in Nat
  BY <1>2, TopKAssumption
<1>4. IsFiniteSet({}) /\ Cardinality({}) = 0
  BY FS_EmptySet
<1>5. ordered \in Seq(Entries) /\ next \in 1..Len(scores) + 1
  BY <1>3 DEF Init
<1>6. TypeOK
  BY <1>1, <1>3, <1>4, <1>5 DEF Init, TypeOK
<1> QED
  BY <1>1, <1>4, <1>6 DEF Init, Inv, HeapHoldsBest, AllKept, LoopIsOver, AnswerIsBest

\* What the three actions of the loop have in common.
LEMMA LoopStep ==
    ASSUME Inv, Push \/ Replace \/ Reject
    PROVE  /\ ~done
           /\ next \in Nat \ {0} /\ next <= Len(scores) /\ Len(scores) \in Nat
           /\ next' = next + 1 /\ next' - 1 = next /\ next' \in 1..Len(scores) + 1
           /\ top_k \in Nat \ {0} /\ IsFiniteSet(heap) /\ Cardinality(heap) \in Nat
           /\ scores[next] \in Int
           /\ EntryOf(next) \in Entries /\ EntryOf(next) \notin heap
           /\ \A i : EntryOf(i)' = EntryOf(i)
           /\ \A e \in heap : e.score \in Int
<1>1. /\ next \in Nat \ {0} /\ Len(scores) \in Nat /\ top_k \in Nat \ {0}
      /\ IsFiniteSet(heap) /\ Cardinality(heap) \in Nat
  BY FS_CardinalityType DEF Inv, TypeOK
<1>2. next <= Len(scores) /\ next' = next + 1 /\ UNCHANGED <<top_k, scores, ordered, done>>
  BY DEF Push, Replace, Reject
<1>3. ~done
  BY <1>1, <1>2 DEF Inv, LoopIsOver
<1>4. next' - 1 = next /\ next' \in 1..Len(scores) + 1
  BY <1>1, <1>2
<1>5. scores[next] \in Score /\ Score \subseteq Int
  BY <1>1, <1>2, TopKAssumption DEF Inv, TypeOK
<1>6. EntryOf(next) \in Entries
  BY <1>1, <1>5 DEF EntryOf, Entries
<1>7. \A i \in 1..next - 1 : i # next
  BY <1>1
<1>8. EntryOf(next) \notin heap
  BY <1>3, <1>7, EntriesDiffer DEF Inv, HeapHoldsBest
<1>9. \A i : EntryOf(i)' = EntryOf(i)
  BY <1>2 DEF EntryOf
<1>10. \A e \in heap : e.score \in Int
  BY <1>5 DEF Inv, TypeOK, Entries
<1> QED
  BY <1>1, <1>2, <1>3, <1>4, <1>5, <1>6, <1>8, <1>9, <1>10

\* A step of the loop need only show what it does to the heap.
LEMMA LoopInv ==
    ASSUME Inv, Push \/ Replace \/ Reject,
           heap' \subseteq heap \cup {EntryOf(next)}, IsFiniteSet(heap'),
           Cardinality(heap') = IF next < top_k THEN next ELSE top_k,
           next < top_k => heap' = heap \cup {EntryOf(next)},
           \A i \in 1..next : EntryOf(i) \notin heap' => \A e \in heap' : scores[i] <= e.score
    PROVE  Inv'
<1>1. /\ ~done /\ next \in Nat /\ next' = next + 1 /\ next' - 1 = next
      /\ next' \in 1..Len(scores) + 1 /\ EntryOf(next) \in Entries
      /\ \A i : EntryOf(i)' = EntryOf(i)
  BY LoopStep
<1>2. UNCHANGED <<top_k, scores, ordered, done>>
  BY DEF Push, Replace, Reject
<1>3. TypeOK'
  BY <1>1, <1>2 DEF Inv, TypeOK
<1>4. heap' \subseteq {EntryOf(i)' : i \in 1..next}
  <2>1. heap \subseteq {EntryOf(i) : i \in 1..next - 1}
    BY <1>1 DEF Inv, HeapHoldsBest
  <2>2. \A i \in 1..next - 1 : i \in 1..next
    BY <1>1
  <2>3. next \in 1..next
    BY LoopStep
  <2> QED BY <1>1, <2>1, <2>2, <2>3
<1>5. HeapHoldsBest'
  <2>1. Cardinality(heap') = IF next' - 1 < top_k' THEN next' - 1 ELSE top_k'
    BY <1>1, <1>2
  <2>2. \A i \in 1..next' - 1 : EntryOf(i)' \notin heap' => \A e \in heap' : scores'[i] <= e.score
    BY <1>1, <1>2
  <2> QED BY <1>1, <1>4, <2>1, <2>2 DEF HeapHoldsBest
<1>6. AllKept'
  <2> SUFFICES ASSUME next < top_k, NEW i \in 1..next PROVE EntryOf(i)' \in heap'
    BY <1>1, <1>2 DEF AllKept
  <2>1. heap' = heap \cup {EntryOf(next)}
    OBVIOUS
  <2>2. i = next \/ i \in 1..next - 1
    BY <1>1
  <2>3. next - 1 < top_k
    BY <1>1, LoopStep
  <2> QED BY <1>1, <2>1, <2>2, <2>3 DEF Inv, AllKept
<1> QED
  BY <1>1, <1>2, <1>3, <1>5, <1>6 DEF Inv, LoopIsOver, AnswerIsBest

LEMMA PushInv == Inv /\ Push => Inv'
<1> SUFFICES ASSUME Inv, Push PROVE Inv'
  OBVIOUS
<1>1. /\ ~done /\ next \in Nat \ {0} /\ top_k \in Nat /\ IsFiniteSet(heap)
      /\ Cardinality(heap) \in Nat /\ EntryOf(next) \notin heap
  BY LoopStep
<1>2. heap' = heap \cup {EntryOf(next)} /\ Cardinality(heap) < top_k
  BY DEF Push
<1>3. IsFiniteSet(heap') /\ Cardinality(heap') = Cardinality(heap) + 1
  BY <1>1, <1>2, FS_AddElement
<1>4. next - 1 < top_k /\ Cardinality(heap) = next - 1
  BY <1>1, <1>2 DEF Inv, HeapHoldsBest
<1>5. Cardinality(heap') = IF next < top_k THEN next ELSE top_k
  BY <1>1, <1>3, <1>4
<1>6. \A i \in 1..next : EntryOf(i) \in heap'
  <2>1. \A i \in 1..next : i = next \/ i \in 1..next - 1
    BY <1>1
  <2> QED BY <1>1, <1>2, <1>4, <2>1 DEF Inv, AllKept
<1> QED
  BY <1>2, <1>3, <1>5, <1>6, LoopInv

\* At the limit: next candidates have been seen and top_k are in the heap.
LEMMA FullHeap ==
    ASSUME Inv, Replace \/ Reject
    PROVE  Cardinality(heap) = top_k /\ ~(next < top_k)
<1>1. ~done /\ next \in Nat \ {0} /\ top_k \in Nat
  BY LoopStep
<1>2. Cardinality(heap) = IF next - 1 < top_k THEN next - 1 ELSE top_k
  BY <1>1 DEF Inv, HeapHoldsBest
<1>3. Cardinality(heap) >= top_k
  BY DEF Replace, Reject
<1> QED
  BY <1>1, <1>2, <1>3

LEMMA ReplaceInv == Inv /\ Replace => Inv'
<1> SUFFICES ASSUME Inv, Replace PROVE Inv'
  OBVIOUS
<1>1. PICK top \in LowestEntries : /\ scores[next] > top.score
                                   /\ heap' = (heap \ {top}) \cup {EntryOf(next)}
  BY DEF Replace
<1>2. /\ ~done /\ next \in Nat \ {0} /\ top_k \in Nat \ {0} /\ IsFiniteSet(heap)
      /\ Cardinality(heap) \in Nat /\ scores[next] \in Int
      /\ EntryOf(next) \notin heap /\ \A e \in heap : e.score \in Int
  BY LoopStep
<1>3. top \in heap /\ \A f \in heap : top.score <= f.score
  BY <1>1 DEF LowestEntries
<1>4. IsFiniteSet(heap \ {top}) /\ Cardinality(heap \ {top}) = Cardinality(heap) - 1
  BY <1>2, <1>3, FS_RemoveElement
<1>5. IsFiniteSet(heap') /\ Cardinality(heap') = Cardinality(heap) - 1 + 1
  BY <1>1, <1>2, <1>4, FS_AddElement
<1>6. Cardinality(heap') = IF next < top_k THEN next ELSE top_k
  BY <1>2, <1>5, FullHeap
\* Everything now in the heap scores at least as much as what was popped.
<1>7. \A e \in heap' : top.score <= e.score /\ e.score \in Int
  BY <1>1, <1>2, <1>3, EntriesDiffer
<1>8. ASSUME NEW i \in 1..next, EntryOf(i) \notin heap', NEW e \in heap'
      PROVE  scores[i] <= e.score
  <2>1. i \in 1..next - 1
    BY <1>1, <1>2, <1>8
  <2>2. CASE EntryOf(i) \in heap
    <3>1. EntryOf(i) = top
      BY <1>1, <1>8, <2>2
    <3> QED BY <1>7, <3>1, EntriesDiffer
  <2>3. CASE EntryOf(i) \notin heap
    <3>1. scores[i] <= top.score
      BY <1>2, <1>3, <2>1, <2>3 DEF Inv, HeapHoldsBest
    <3>2. scores[i] \in Int
      <4>1. scores \in Seq(Score)
        BY DEF Inv, TypeOK
      <4>2. i \in 1..Len(scores)
        BY <2>1, LoopStep
      <4>3. scores[i] \in Score
        BY <4>1, <4>2
      <4> QED BY <4>3, TopKAssumption
    <3> QED BY <1>2, <1>3, <1>7, <3>1, <3>2
  <2> QED BY <2>2, <2>3
<1> QED
  BY <1>1, <1>2, <1>5, <1>6, <1>8, FullHeap, LoopInv

LEMMA RejectInv == Inv /\ Reject => Inv'
<1> SUFFICES ASSUME Inv, Reject PROVE Inv'
  OBVIOUS
<1>1. PICK top \in LowestEntries : scores[next] <= top.score
  BY DEF Reject
<1>2. /\ ~done /\ next \in Nat \ {0} /\ top_k \in Nat \ {0} /\ IsFiniteSet(heap)
      /\ scores[next] \in Int /\ \A e \in heap : e.score \in Int
  BY LoopStep
<1>3. top \in heap /\ \A f \in heap : top.score <= f.score
  BY <1>1 DEF LowestEntries
<1>4. heap' = heap
  BY DEF Reject
<1>5. Cardinality(heap') = IF next < top_k THEN next ELSE top_k
  BY <1>4, FullHeap
<1>6. ASSUME NEW i \in 1..next, EntryOf(i) \notin heap, NEW e \in heap
      PROVE  scores[i] <= e.score
  <2>1. CASE i = next
    BY <1>1, <1>2, <1>3, <2>1
  <2>2. CASE i \in 1..next - 1
    BY <1>2, <1>6, <2>2 DEF Inv, HeapHoldsBest
  <2> QED BY <1>2, <2>1, <2>2
<1> QED
  BY <1>2, <1>4, <1>5, <1>6, FullHeap, LoopInv

LEMMA DrainInv == Inv /\ Drain => Inv'
<1> SUFFICES ASSUME Inv, Drain PROVE Inv'
  OBVIOUS
<1>1. PICK s \in [1..Cardinality(heap) -> heap] :
         /\ Range(s) = heap
         /\ \A i, j \in DOMAIN s : i < j => Before(s[i], s[j])
         /\ ordered' = s
  BY DEF Drain
<1>2. ~done /\ next > Len(scores) /\ done' /\ heap' = {} /\ UNCHANGED <<top_k, scores, next>>
  BY DEF Drain
<1>3. /\ next \in 1..Len(scores) + 1 /\ Len(scores) \in Nat /\ top_k \in Nat
      /\ Cardinality(heap) \in Nat
  BY FS_CardinalityType DEF Inv, TypeOK
<1>4. next - 1 = Len(scores)
  BY <1>2, <1>3
<1>5. ordered' \in Seq(Entries) /\ Len(ordered') = Cardinality(heap)
      /\ DOMAIN s = 1..Len(ordered')
  BY <1>1, <1>3 DEF Inv, TypeOK
<1>6. TypeOK'
  BY <1>2, <1>5, FS_EmptySet DEF Inv, TypeOK
<1>7. \A i : EntryOf(i)' = EntryOf(i)
  BY <1>2 DEF EntryOf
<1>8. \A i \in 1..Len(ordered') : ordered'[i] \in heap
  BY <1>1, <1>5
<1>9. \A i \in 1..Len(ordered') : \E c \in 1..Len(scores) : ordered'[i] = EntryOf(c)
  BY <1>2, <1>4, <1>8 DEF Inv, HeapHoldsBest
<1>10. Len(ordered') = IF Len(scores) < top_k THEN Len(scores) ELSE top_k
  BY <1>2, <1>4, <1>5 DEF Inv, HeapHoldsBest
<1>11. \A i, j \in 1..Len(ordered') : i < j => Before(ordered'[i], ordered'[j])
  BY <1>1, <1>5
<1>12. \A c \in 1..Len(scores) : EntryOf(c) \notin Range(ordered') =>
          \A i \in 1..Len(ordered') : scores[c] <= ordered'[i].score
  BY <1>1, <1>2, <1>4, <1>8 DEF Inv, HeapHoldsBest
<1>13. AnswerIsBest'
  BY <1>2, <1>7, <1>9, <1>10, <1>11, <1>12 DEF AnswerIsBest, Before
<1> QED
  BY <1>2, <1>6, <1>13 DEF Inv, HeapHoldsBest, AllKept, LoopIsOver

LEMMA UnchangedInv == Inv /\ UNCHANGED vars => Inv'
<1> SUFFICES ASSUME Inv, UNCHANGED vars PROVE Inv'
  OBVIOUS
<1>1. /\ \A i : EntryOf(i)' = EntryOf(i)
      /\ UNCHANGED <<top_k, scores, next, heap, ordered, done>>
  BY DEF EntryOf, vars
<1>2. TypeOK' /\ LoopIsOver'
  BY <1>1 DEF Inv, TypeOK, LoopIsOver
<1>3. HeapHoldsBest' /\ AllKept'
  BY <1>1 DEF Inv, HeapHoldsBest, AllKept
<1>4. AnswerIsBest'
  <2>1. Range(ordered)' = Range(ordered)
    BY <1>1 DEF Range
  <2> QED BY <1>1, <2>1 DEF Inv, AnswerIsBest
<1> QED
  BY <1>2, <1>3, <1>4 DEF Inv

(* The invariant of the selection.                                         *)
THEOREM SelectionInvariant == Spec => []Inv
<1>1. Inv /\ [Next]_vars => Inv'
  BY PushInv, ReplaceInv, RejectInv, DrainInv, UnchangedInv DEF Next
<1> QED
  BY <1>1, InitInv, PTL DEF Spec

(* Type correctness.                                                       *)
THEOREM TopKTypes == Spec => []TypeOK
  BY SelectionInvariant, PTL DEF Inv

(* The heap always holds the best candidates seen so far.                  *)
THEOREM HeapCorrect == Spec => []HeapHoldsBest
  BY SelectionInvariant, PTL DEF Inv

(* The results are the best top_k candidates, in order.                    *)
THEOREM AnswerCorrect == Spec => []AnswerIsBest
  BY SelectionInvariant, PTL DEF Inv

(* With a default within the maximum no answer is longer than the maximum, *)
(* whatever was asked for.                                                 *)
THEOREM LimitKept ==
    ASSUME DefaultTopK <= MaxTopK
    PROVE  Spec => []AnswerWithinLimit
<1> DEFINE Bounded == top_k <= MaxTopK /\ (~done => Len(ordered) = 0)
<1>1. Init => Bounded
  <2>1. \A asked \in Asked : EffectiveTopK(asked) <= MaxTopK
    BY TopKAssumption DEF EffectiveTopK
  <2> QED BY <2>1 DEF Init
<1>2. Bounded /\ [Next]_vars => Bounded'
  BY DEF Next, Push, Replace, Reject, Drain, vars
<1>3. Inv /\ Bounded => AnswerWithinLimit
  BY TopKAssumption DEF Inv, TypeOK, AnswerIsBest, AnswerWithinLimit
<1> QED
  BY <1>1, <1>2, <1>3, SelectionInvariant, PTL DEF Spec

-----------------------------------------------------------------------------

\* What Min and Max choose, from the order of the natural numbers.
LEMMA LeastPlace ==
    ASSUME NEW T, T \subseteq Nat, T # {}
    PROVE  Min(T) \in T /\ \A k \in T : Min(T) <= k
<1> DEFINE R == OpToRel(<, Nat)
<1>1. \E x \in T : \A y \in T : ~ (<<y, x>> \in R)
  <2>1. IsWellFoundedOn(R, Nat)
    BY NatLessThanWellFounded
  <2> HIDE DEF R
  <2> QED BY <2>1, WFMin
<1>2. \A x, y \in Nat : <<y, x>> \in R <=> y < x
  BY DEF OpToRel
<1> HIDE DEF R
<1>3. PICK x \in T : \A y \in T : ~ (<<y, x>> \in R)
  BY <1>1
<1>4. \A y \in T : x <= y
  <2> TAKE y \in T
  <2>1. x \in Nat /\ y \in Nat /\ ~(y < x)
    BY <1>2, <1>3
  <2> QED BY <2>1
<1> QED
  BY <1>4 DEF Min

LEMMA LastPlace ==
    ASSUME NEW a \in Nat, NEW b \in Nat, NEW T, T \subseteq a..b, T # {}
    PROVE  Max(T) \in T /\ \A k \in T : k <= Max(T)
<1> DEFINE D == {b - k : k \in T}
<1>1. D \subseteq Nat /\ D # {}
  <2>1. \A k \in T : b - k \in Nat
    OBVIOUS
  <2>2. PICK k : k \in T
    OBVIOUS
  <2>3. b - k \in D
    BY <2>2
  <2> QED BY <2>1, <2>3
<1>2. Min(D) \in D /\ \A d \in D : Min(D) <= d
  <2> HIDE DEF D
  <2> QED BY <1>1, LeastPlace
<1>3. PICK k \in T : Min(D) = b - k
  BY <1>2
<1>4. ASSUME NEW j \in T PROVE j <= k
  <2>1. b - j \in D
    OBVIOUS
  <2>2. b - k <= b - j
    BY <1>2, <1>3, <2>1
  <2> QED BY <2>2
<1> QED
  BY <1>4 DEF Max

SnippetType == content \in Seq(Char) /\ words \in WordLists

\* A match of a word: its place, and no space in it.
IsMatch(s, w, p) == /\ p \in 0..Len(s) /\ p + Len(w) <= Len(s)
                    /\ \A i \in 1..Len(w) : to_lower(s[p + i]) = to_lower(w[i])

\* Lower-casing keeps places, so a find is a match.
LEMMA PlacesFound ==
    ASSUME NEW s, Len(s) \in Nat, NEW w, Len(w) \in Nat
    PROVE  \A p : p \in Finds(Lower(s), Lower(w)) <=> IsMatch(s, w, p)
<1>1. Len(Lower(s)) = Len(s) /\ Len(Lower(w)) = Len(w)
  BY DEF Lower
<1>2. /\ \A i \in 1..Len(s) : Lower(s)[i] = to_lower(s[i])
      /\ \A i \in 1..Len(w) : Lower(w)[i] = to_lower(w[i])
  BY DEF Lower
<1>3. ASSUME NEW p \in 0..Len(s), p + Len(w) <= Len(s), NEW i \in 1..Len(w)
      PROVE  p + i \in 1..Len(s)
  BY <1>3
<1> QED
  BY <1>1, <1>2, <1>3 DEF Finds, IsMatch

\* FirstPlaces gives matches, and leaves out just the words with none.
LEMMA FirstPlace ==
    ASSUME SnippetType, NEW s, Len(s) \in Nat
    PROVE  /\ DOMAIN FirstPlaces(s) \subseteq 1..Len(words)
           /\ \A i \in DOMAIN FirstPlaces(s) :
                 /\ FirstPlaces(s)[i] \in Nat /\ Len(words[i]) \in Nat \ {0}
                 /\ IsMatch(s, words[i], FirstPlaces(s)[i])
           /\ \A i \in 1..Len(words) : i \notin DOMAIN FirstPlaces(s) =>
                 \A p : ~IsMatch(s, words[i], p)
<1> DEFINE F(i) == Finds(Lower(s), Lower(words[i]))
<1>1. \A i \in 1..Len(words) : Len(words[i]) \in Nat \ {0}
  BY SnippetAssumption DEF SnippetType
<1>2. \A i \in 1..Len(words) : \A p : p \in F(i) <=> IsMatch(s, words[i], p)
  BY <1>1, PlacesFound
<1>3. \A i \in 1..Len(words) : F(i) \subseteq Nat
  BY <1>2 DEF IsMatch
<1>4. \A i \in 1..Len(words) : F(i) # {} => Min(F(i)) \in F(i)
  BY <1>3, LeastPlace
<1>5. FirstPlaces(s) = [i \in {j \in 1..Len(words) : F(j) # {}} |-> Min(F(i))]
  BY DEF FirstPlaces
<1> HIDE DEF F
<1> QED
  BY <1>1, <1>2, <1>3, <1>4, <1>5

\* The match a window is made for is one of a word of the query.
LEMMA BestIsMatch ==
    ASSUME SnippetType, Best.found
    PROVE  \E w \in 1..Len(words) : /\ Len(words[w]) \in Nat \ {0} /\ Best.len = Len(words[w])
                                    /\ IsMatch(content, words[w], Best.pos)
<1> DEFINE place == FirstPlaces(content)
           places == {place[i] : i \in DOMAIN place}
           pos   == Min(places)
           firsts == {i \in DOMAIN place : place[i] = pos}
           word  == Min(firsts)
<1>1. DOMAIN place # {} /\ Best = [found |-> TRUE, pos |-> pos, len |-> Len(words[word])]
  BY DEF Best, NoMatch
<1>2. Len(content) \in Nat
  BY DEF SnippetType
<1>3. /\ DOMAIN place \subseteq 1..Len(words) /\ Len(words) \in Nat
      /\ \A i \in DOMAIN place : /\ place[i] \in Nat /\ Len(words[i]) \in Nat \ {0}
                                 /\ IsMatch(content, words[i], place[i])
  BY <1>2, FirstPlace, SnippetAssumption DEF SnippetType
<1> HIDE DEF place
<1>4. places \subseteq Nat /\ places # {}
  BY <1>1, <1>3
<1>5. pos \in places
  <2> HIDE DEF places
  <2> QED BY <1>4, LeastPlace
<1>6. firsts \subseteq Nat /\ firsts # {}
  <2>1. PICK i \in DOMAIN place : place[i] = pos
    BY <1>5
  <2> HIDE DEF pos
  <2> QED BY <1>3, <2>1
<1>7. word \in firsts
  <2> HIDE DEF firsts
  <2> QED BY <1>6, LeastPlace
<1>8. word \in DOMAIN place /\ place[word] = pos
  BY <1>7
<1> HIDE DEF word, pos
<1> QED
  BY <1>1, <1>3, <1>8

\* Words have no space, so neither end of the window moves into the match.
LEMMA MatchHasNoSpace ==
    ASSUME SnippetType, Best.found
    PROVE  /\ Best.pos \in Nat /\ Best.len \in Nat \ {0} /\ Best.pos + Best.len <= size
           /\ \A p \in Best.pos..Best.pos + Best.len - 1 : ~IsBreak(p)
<1>1. PICK w \in 1..Len(words) : /\ Len(words[w]) \in Nat \ {0} /\ Best.len = Len(words[w])
                                 /\ IsMatch(content, words[w], Best.pos)
  BY BestIsMatch
<1>2. /\ Best.pos \in Nat /\ Best.pos + Best.len <= size /\ size \in Nat
      /\ \A i \in 1..Best.len : to_lower(content[Best.pos + i]) = to_lower(words[w][i])
  BY <1>1 DEF IsMatch, size, SnippetType
<1>3. \A i \in 1..Best.len : to_lower(words[w][i]) \notin Space
  BY <1>1, SnippetAssumption DEF SnippetType
<1>4. ASSUME NEW p \in Best.pos..Best.pos + Best.len - 1
      PROVE  ~IsBreak(p)
  <2> PICK i \in 1..Best.len : p + 1 = Best.pos + i
    <3>1. PICK pos, len : pos = Best.pos /\ len = Best.len
      OBVIOUS
    <3>2. pos \in Nat /\ len \in Nat /\ p \in pos..pos + len - 1
      BY <1>1, <1>2, <3>1
    <3>3. p + 1 - pos \in 1..len /\ p + 1 = pos + (p + 1 - pos)
      BY <3>2
    <3> QED BY <3>1, <3>3
  <2>1. p + 1 \in 1..Len(content)
    <3>1. PICK pos, len : pos = Best.pos /\ len = Best.len
      OBVIOUS
    <3>2. pos \in Nat /\ len \in Nat /\ p \in pos..pos + len - 1 /\ pos + len <= size /\ size \in Nat
      BY <1>1, <1>2, <3>1
    <3> QED BY <3>2 DEF size
  <2>2. content[p + 1] \in Char
    BY <2>1 DEF SnippetType
  <2> QED
    BY <1>2, <1>3, <2>2, SnippetAssumption DEF IsBreak, Byte
<1> QED
  BY <1>1, <1>2, <1>4

\* See MatchIsShown: the match lies between the ends of the window, since a
\* space within the radius stops each end on its way to it.
LEMMA WindowShowsMatch ==
    ASSUME SnippetType
    PROVE  MatchIsShown
<1> SUFFICES ASSUME Best.found, WordsAreShort
             PROVE  /\ Window(Best).start <= Best.pos
                    /\ Best.pos + Best.len <= Window(Best).end
                    /\ Window(Best).start = 0 \/ IsBreak(Window(Best).start)
                    /\ Window(Best).end = size \/ IsBreak(Window(Best).end)
  BY DEF MatchIsShown
<1> PICK pos, len : pos = Best.pos /\ len = Best.len
  OBVIOUS
<1> PICK C : C = ContextChars
  OBVIOUS
<1>1. /\ pos \in Nat /\ len \in Nat \ {0} /\ pos + len <= size
      /\ \A p \in pos..pos + len - 1 : ~IsBreak(p)
      /\ size \in Nat /\ C \in Nat \ {0}
  BY MatchHasNoSpace, SnippetAssumption DEF SnippetType, size
<1>2. \A p \in 0..size : p + C < size => \E q \in p..p + C : IsBreak(q)
  BY DEF WordsAreShort
<1> DEFINE left  == IF pos > C THEN pos - C ELSE 0
           ends  == {size, left + 2 * C + len}
           right == Min(ends)
           start == SnapForward(left)
           end   == SnapBack(start, right)
<1>3. left \in Nat /\ left <= pos /\ (left + C >= pos \/ left = 0)
  BY <1>1
<1>4. right \in Nat /\ right <= size /\ (right = size \/ right >= pos + len + C)
  <2>1. ends \subseteq Nat /\ ends # {} /\ left + 2 * C + len >= pos + len + C
    BY <1>1
  <2>2. right \in ends /\ right <= size
    <3>1. Min(ends) \in ends /\ \A k \in ends : Min(ends) <= k
      <4> HIDE DEF ends
      <4> QED BY <2>1, LeastPlace
    <3> QED BY <3>1
  <2> HIDE DEF left
  <2> QED BY <1>1, <2>1, <2>2
<1> HIDE DEF right
<1>5. start \in 0..pos /\ (start = 0 \/ IsBreak(start))
  <2>1. CASE left = 0
    BY <1>1, <2>1 DEF SnapForward
  <2>2. CASE left # 0
    <3>1. left = pos - C /\ left > 0 /\ left \in 0..size /\ left + C < size
      BY <1>1, <2>2
    <3>2. PICK q \in left..pos : IsBreak(q)
      <4>1. left + C = pos
        BY <1>1, <3>1
      <4> HIDE DEF left
      <4> QED BY <1>2, <3>1, <4>1
    <3>3. q < pos
      BY <1>1, <3>1, <3>2
    <3> DEFINE T == {p \in left..size : p = size \/ IsBreak(p)}
    <3>4. T \subseteq Nat /\ q \in T
      BY <1>1, <3>1, <3>2, <3>3
    <3>5. start = Min(T)
      BY <2>2 DEF SnapForward
    <3>6. start \in T /\ start <= q
      <4> HIDE DEF T, start
      <4> QED BY <3>4, <3>5, LeastPlace
    <3> HIDE DEF start, left
    <3> QED BY <1>1, <3>1, <3>3, <3>6
  <2> QED BY <2>1, <2>2
<1> HIDE DEF start, left
<1>6. end \in Nat /\ end >= pos + len /\ (end = size \/ IsBreak(end))
  <2>1. CASE right < size
    <3>1. right >= pos + len + C /\ right > start
      BY <1>1, <1>4, <1>5, <2>1
    <3>2. PICK q \in pos + len..pos + len + C : IsBreak(q)
      <4>1. pos + len \in 0..size /\ pos + len + C < size
        BY <1>1, <1>4, <2>1, <3>1
      <4> QED BY ONLY <1>2, <4>1
    <3> DEFINE T == {p \in start..right : p = start \/ IsBreak(p)}
    <3>3. T \subseteq start..right /\ q \in T
      BY <1>1, <1>4, <1>5, <3>1, <3>2
    <3>4. end = Max(T)
      BY <2>1, <3>1 DEF SnapBack
    <3>5. end \in T /\ q <= end
      <4>1. start \in Nat /\ right \in Nat /\ T # {}
        BY <1>1, <1>4, <1>5, <3>3
      <4> HIDE DEF T, end
      <4>2. Max(T) \in T /\ \A k \in T : k <= Max(T)
        BY <3>3, <4>1, LastPlace
      <4> QED BY <3>3, <3>4, <4>2
    <3> HIDE DEF end
    <3> QED BY <1>1, <1>4, <1>5, <3>2, <3>5
  <2>2. CASE right = size
    BY <1>1, <2>2 DEF SnapBack
  <2> QED BY <1>1, <1>4, <2>1, <2>2
<1> HIDE DEF end
<1>7. Window(Best) = [start |-> start, end |-> end]
  <2>1. ~(start >= end)
    BY <1>1, <1>5, <1>6
  <2>2. Window(Best) = IF start >= end THEN [start |-> 0, end |-> Min({size, 2 * ContextChars})]
                       ELSE [start |-> start, end |-> end]
    BY DEF Window, start, end, left, right
  <2> QED BY <2>1, <2>2
<1> QED
  BY <1>1, <1>5, <1>6, <1>7

\* f numbers the places K of s in order, and the text is what s has there.
Numbers(f, K, s, text) ==
    /\ f \in [K -> 1..Len(text)]
    /\ \A i, j \in K : i < j => f[i] < f[j]
    /\ \A k \in 1..Len(text) : \E i \in K : f[i] = k
    /\ \A i \in K : s[i] = text[f[i]]

\* Then, if the rest of s is decoration, the text is what is left without it.
LEMMA InOrder ==
    ASSUME NEW s, Len(s) \in Nat, NEW text \in Seq(Char),
           NEW K, K = {i \in 1..Len(s) : s[i] \notin Decoration},
           NEW f, Numbers(f, K, s, text)
    PROVE  Decorates(s, text)
<1>1. /\ f \in [K -> 1..Len(text)]
      /\ \A i, j \in K : i < j => f[i] < f[j]
      /\ \A k \in 1..Len(text) : \E i \in K : f[i] = k
      /\ \A i \in K : s[i] = text[f[i]]
  BY DEF Numbers
<1> PICK n \in Nat : n = Len(text)
  OBVIOUS
<1>2. /\ K \subseteq Nat /\ f \in [K -> 1..n]
      /\ \A i, j \in K : i < j => f[i] < f[j]
      /\ \A k \in 1..n : \E i \in K : f[i] = k
  BY <1>1
<1>3. n \in Nat
  OBVIOUS
<1> USE <1>2
<1>4. ASSUME NEW J, J \subseteq K, NEW m \in 0..n, \A j \in J : f[j] <= m,
             \A k \in 1..m : \E j \in J : f[j] = k
      PROVE  Cardinality(J) = m
  <2> DEFINE g == [k \in 1..m |-> CHOOSE j \in J : f[j] = k]
  <2>1. \A k \in 1..m : g[k] \in J /\ f[g[k]] = k
    BY <1>4
  <2>2. \A j \in J : f[j] \in 1..m
    BY <1>4
  <2>3. \A i, j \in J : f[i] = f[j] => i = j
    <3> SUFFICES ASSUME NEW i \in J, NEW j \in J, f[i] = f[j] PROVE i = j
      OBVIOUS
    <3>1. i \in Nat /\ j \in Nat /\ i \in K /\ j \in K
      BY <1>4
    <3>2. f[i] \in Nat /\ f[j] \in Nat
      BY <3>1
    <3>3. ~(i < j) /\ ~(j < i)
      BY <3>1, <3>2
    <3> QED BY <3>1, <3>3
  <2>4. g \in [1..m -> J]
    BY <2>1
  <2> HIDE DEF g
  <2>5. \A j \in J : g[f[j]] = j
    <3> SUFFICES ASSUME NEW j, j \in J PROVE g[f[j]] = j
      OBVIOUS
    <3>1. g[f[j]] \in J /\ f[g[f[j]]] = f[j]
      BY <2>1, <2>2
    <3> QED BY <2>3, <3>1
  <2>6. g \in Bijection(1..m, J)
    <3>1. \A a, b \in 1..m : g[a] = g[b] => a = b
      BY <2>1
    <3>2. \A j \in J : \E a \in 1..m : g[a] = j
      BY <2>2, <2>5
    <3> QED BY <2>4, <3>1, <3>2 DEF Bijection, Injection, Surjection, IsInjective
  <2>7. IsFiniteSet(1..m) /\ Cardinality(1..m) = m
    BY FS_Interval
  <2> QED
    BY <2>6, <2>7, FS_Bijection DEF ExistsBijection
<1>5. Cardinality(K) = n
  <2>1. K \subseteq K /\ n \in 0..n /\ \A j \in K : f[j] <= n
    OBVIOUS
  <2> QED BY <1>4, <2>1
<1>6. ASSUME NEW i \in K PROVE Cardinality({j \in K : j <= i}) = f[i]
  <2> DEFINE J == {j \in K : j <= i}
  <2>1. J \subseteq K /\ f[i] \in 0..n
    <3>1. f[i] \in 1..n
      OBVIOUS
    <3>2. f[i] \in 0..n
      BY ONLY <3>1, <1>3
    <3> QED BY <3>2
  <2>2. \A j \in J : f[j] <= f[i]
    <3> SUFFICES ASSUME NEW j \in J PROVE f[j] <= f[i]
      OBVIOUS
    <3>1. j \in K /\ (j < i \/ j = i) /\ f[j] \in Nat /\ f[i] \in Nat
      BY <2>1
    <3> QED BY <3>1
  <2>3. \A k \in 1..f[i] : \E j \in J : f[j] = k
    <3> SUFFICES ASSUME NEW k \in 1..f[i] PROVE \E j \in J : f[j] = k
      OBVIOUS
    <3>1. k \in 1..n
      BY <2>1
    <3>2. PICK j \in K : f[j] = k
      BY <3>1
    <3>3. i \in Nat /\ j \in Nat /\ i \in K /\ f[i] \in Nat /\ k <= f[i] /\ k \in Nat
      BY <3>2
    <3>4. ~(i < j)
      <4>1. SUFFICES ASSUME i < j PROVE FALSE
        OBVIOUS
      <4>2. f[i] < f[j]
        BY <3>2, <3>3, <4>1
      <4> QED BY ONLY <3>2, <3>3, <4>2
    <3>5. j <= i
      BY ONLY <3>3, <3>4
    <3> QED BY <3>2, <3>5
  <2> HIDE DEF J
  <2>4. Cardinality(J) = f[i]
    BY <1>4, <2>1, <2>2, <2>3
  <2> QED BY <2>4 DEF J
<1> QED
  BY <1>1, <1>5, <1>6 DEF Decorates, Rank

LEMMA Joined ==
    ASSUME NEW X, NEW a \in Seq(X), NEW b \in Seq(X)
    PROVE  /\ a \o b \in Seq(X) /\ Len(a \o b) = Len(a) + Len(b)
           /\ \A i \in 1..Len(a) + Len(b) :
                 (a \o b)[i] = IF i <= Len(a) THEN a[i] ELSE b[i - Len(a)]
  OBVIOUS

LEMMA Inserted ==
    ASSUME NEW X, NEW s \in Seq(X), NEW e \in X, NEW i \in 1..Len(s) + 1
    PROVE  /\ InsertAt(s, i, e) \in Seq(X)
           /\ Len(InsertAt(s, i, e)) = Len(s) + 1
           /\ \A j \in 1..Len(s) + 1 :
                 InsertAt(s, i, e)[j] = IF j < i THEN s[j] ELSE IF j = i THEN e ELSE s[j - 1]
<1> DEFINE a == SubSeq(s, 1, i - 1)
           b == SubSeq(s, i, Len(s))
<1>1. /\ a \in Seq(X) /\ Len(a) = i - 1 /\ \A j \in 1..i - 1 : a[j] = s[j]
      /\ b \in Seq(X) /\ Len(b) = Len(s) + 1 - i
      /\ \A j \in 1..Len(s) + 1 - i : b[j] = s[i + j - 1]
  OBVIOUS
<1>2. InsertAt(s, i, e) = (a \o <<e>>) \o b
  BY DEF InsertAt
<1> HIDE DEF a, b
<1> DEFINE c == a \o <<e>>
<1>3. /\ c \in Seq(X) /\ Len(c) = i
      /\ \A j \in 1..i : c[j] = IF j < i THEN s[j] ELSE e
  BY <1>1
<1> HIDE DEF c
<1>4. /\ c \o b \in Seq(X) /\ Len(c \o b) = Len(s) + 1
      /\ \A j \in 1..Len(s) + 1 : (c \o b)[j] = IF j <= i THEN c[j] ELSE b[j - i]
  <2>1. /\ c \o b \in Seq(X) /\ Len(c \o b) = Len(c) + Len(b)
        /\ \A j \in 1..Len(c) + Len(b) : (c \o b)[j] = IF j <= Len(c) THEN c[j] ELSE b[j - Len(c)]
    <3>1. c \in Seq(X) /\ b \in Seq(X)
      BY <1>1, <1>3
    <3> QED BY ONLY <3>1, Joined
  <2>2. Len(c) = i /\ Len(c) + Len(b) = Len(s) + 1
    BY <1>1, <1>3
  <2> QED BY ONLY <2>1, <2>2
<1>5. \A j \in 1..Len(s) + 1 : j > i => b[j - i] = s[j - 1]
  <2> SUFFICES ASSUME NEW j \in 1..Len(s) + 1, j > i PROVE b[j - i] = s[j - 1]
    OBVIOUS
  <2>1. j - i \in 1..Len(s) + 1 - i /\ i + (j - i) - 1 = j - 1
    OBVIOUS
  <2> QED BY <1>1, <2>1
<1>6. InsertAt(s, i, e) = c \o b
  BY <1>2 DEF c
<1> QED
  BY <1>3, <1>4, <1>5, <1>6

Symbol == Char \cup Decoration

\* What is at place j of a marked text, by where it comes from.
MarkedAt(e, m, L, j) == CASE j <= m -> e[j]
                          [] j = m + 1 -> "<mark>"
                          [] m + 1 < j /\ j <= m + L + 1 -> e[j - 1]
                          [] j = m + L + 2 -> "</mark>"
                          [] OTHER -> e[j - 2]

LEMMA Marked ==
    ASSUME NEW e \in Seq(Char), NEW m \in Nat, NEW L \in Nat, m + L <= Len(e)
    PROVE  /\ Mark(e, m, L) \in Seq(Symbol)
           /\ Len(Mark(e, m, L)) = Len(e) + 2
           /\ \A j \in 1..Len(e) + 2 : Mark(e, m, L)[j] = MarkedAt(e, m, L, j)
<1> DEFINE c == InsertAt(e, m + L + 1, "</mark>")
<1>1. e \in Seq(Symbol) /\ "<mark>" \in Symbol /\ "</mark>" \in Symbol
  BY DEF Symbol, Decoration
<1>2. m + L + 1 \in 1..Len(e) + 1 /\ m + 1 \in 1..(Len(e) + 1) + 1 /\ Len(e) \in Nat
  OBVIOUS
<1>3. /\ c \in Seq(Symbol) /\ Len(c) = Len(e) + 1
      /\ \A j \in 1..Len(e) + 1 : c[j] = IF j < m + L + 1 THEN e[j]
                                         ELSE IF j = m + L + 1 THEN "</mark>" ELSE e[j - 1]
  BY <1>1, <1>2, Inserted
<1> HIDE DEF c
<1>4. /\ InsertAt(c, m + 1, "<mark>") \in Seq(Symbol)
      /\ Len(InsertAt(c, m + 1, "<mark>")) = (Len(e) + 1) + 1
      /\ \A j \in 1..(Len(e) + 1) + 1 :
            InsertAt(c, m + 1, "<mark>")[j] = IF j < m + 1 THEN c[j]
                                              ELSE IF j = m + 1 THEN "<mark>" ELSE c[j - 1]
  <2>1. m + 1 \in 1..Len(c) + 1
    BY <1>2, <1>3
  <2>2. PICK i : i = m + 1
    OBVIOUS
  <2>3. i \in 1..Len(c) + 1
    BY <2>1, <2>2
  <2>4. /\ InsertAt(c, i, "<mark>") \in Seq(Symbol)
        /\ Len(InsertAt(c, i, "<mark>")) = Len(c) + 1
        /\ \A j \in 1..Len(c) + 1 :
              InsertAt(c, i, "<mark>")[j] = IF j < i THEN c[j]
                                            ELSE IF j = i THEN "<mark>" ELSE c[j - 1]
    <3>1. c \in Seq(Symbol) /\ "<mark>" \in Symbol
      BY <1>1, <1>3
    <3> QED BY ONLY <3>1, <2>3, Inserted
  <2> QED BY ONLY <1>3, <2>2, <2>4
<1>5. Mark(e, m, L) = InsertAt(c, m + 1, "<mark>")
  BY DEF Mark, c
<1> DEFINE s == Mark(e, m, L)
<1>6. s \in Seq(Symbol) /\ Len(s) = Len(e) + 2
  BY <1>2, <1>4, <1>5
<1>7. ASSUME NEW j \in 1..Len(e) + 2
      PROVE  s[j] = MarkedAt(e, m, L, j)
  <2>1. s[j] = IF j < m + 1 THEN c[j] ELSE IF j = m + 1 THEN "<mark>" ELSE c[j - 1]
    BY <1>2, <1>4, <1>5
  <2> HIDE DEF s
  <2>2. CASE j <= m
    <3>1. j \in 1..Len(e) + 1 /\ j < m + L + 1 /\ j < m + 1
      BY <2>2
    <3> QED BY <1>3, <2>1, <2>2, <3>1 DEF MarkedAt
  <2>3. CASE j = m + 1
    BY <2>1, <2>3 DEF MarkedAt
  <2>4. CASE j > m + 1
    <3>1. j - 1 \in 1..Len(e) + 1 /\ ~(j < m + 1) /\ (j - 1) - 1 = j - 2
      BY <1>2, <2>4
    <3>2. c[j - 1] = IF j - 1 < m + L + 1 THEN e[j - 1]
                     ELSE IF j - 1 = m + L + 1 THEN "</mark>" ELSE e[j - 2]
      BY <1>3, <3>1
    <3>3. s[j] = c[j - 1]
      BY <2>1, <2>4, <3>1
    <3>4. j \in Nat /\ Len(e) \in Nat /\ ~(j <= m) /\ j # m + 1
      BY <1>2, <2>4
    <3>5. CASE j <= m + L + 1
      BY <2>4, <3>2, <3>3, <3>4, <3>5 DEF MarkedAt
    <3>6. CASE j = m + L + 2
      BY <2>4, <3>2, <3>3, <3>4, <3>6 DEF MarkedAt
    <3>7. CASE j > m + L + 2
      BY <2>4, <3>2, <3>3, <3>4, <3>7 DEF MarkedAt
    <3> QED BY <3>4, <3>5, <3>6, <3>7
  <2> QED BY <2>2, <2>3, <2>4
<1> QED
  BY <1>6, <1>7

Dots(there) == IF there THEN 1 ELSE 0

LEMMA DotsIfThere ==
    ASSUME NEW there \in BOOLEAN
    PROVE  /\ Ellipsis(there) \in Seq(Symbol) /\ Len(Ellipsis(there)) = Dots(there)
           /\ \A i \in 1..Len(Ellipsis(there)) : Ellipsis(there)[i] = "..."
<1>1. "..." \in Symbol
  BY DEF Symbol, Decoration
<1>2. CASE there
  BY <1>1, <1>2 DEF Ellipsis, Dots
<1>3. CASE ~there
  BY <1>1, <1>3 DEF Ellipsis, Dots
<1> QED
  BY <1>2, <1>3

LEMMA Framed ==
    ASSUME NEW h \in Seq(Symbol), NEW a \in BOOLEAN, NEW b \in BOOLEAN
    PROVE  LET s == Ellipsis(a) \o h \o Ellipsis(b)
           IN  /\ Len(s) = Dots(a) + Len(h) + Dots(b)
               /\ \A i \in 1..Len(s) : s[i] = IF i <= Dots(a) \/ i > Dots(a) + Len(h) THEN "..."
                                              ELSE h[i - Dots(a)]
<1> DEFINE x == Ellipsis(a)
           y == Ellipsis(b)
<1>1. /\ x \in Seq(Symbol) /\ Len(x) = Dots(a) /\ \A i \in 1..Len(x) : x[i] = "..."
      /\ y \in Seq(Symbol) /\ Len(y) = Dots(b) /\ \A i \in 1..Len(y) : y[i] = "..."
  BY DotsIfThere
<1>2. Dots(a) \in Nat /\ Dots(b) \in Nat
  BY DEF Dots
<1> HIDE DEF x, y
<1> DEFINE z == x \o h
<1>3. /\ z \in Seq(Symbol) /\ Len(z) = Len(x) + Len(h)
      /\ \A i \in 1..Len(x) + Len(h) : z[i] = IF i <= Len(x) THEN x[i] ELSE h[i - Len(x)]
  <2> HIDE DEF z
  <2>1. x \in Seq(Symbol) /\ h \in Seq(Symbol)
    BY <1>1
  <2>2. z = x \o h
    BY DEF z
  <2> QED BY ONLY <2>1, <2>2, Joined
<1> HIDE DEF z
<1>4. /\ Len(z \o y) = Len(z) + Len(y)
      /\ \A i \in 1..Len(z) + Len(y) : (z \o y)[i] = IF i <= Len(z) THEN z[i] ELSE y[i - Len(z)]
  <2>1. z \in Seq(Symbol) /\ y \in Seq(Symbol)
    BY <1>1, <1>3
  <2> QED BY ONLY <2>1, Joined
<1>5. (x \o h) \o y = z \o y
  BY DEF z
<1> DEFINE s == Ellipsis(a) \o h \o Ellipsis(b)
<1>6. s = z \o y
  BY <1>5 DEF x, y
<1> HIDE DEF s
<1>7. Len(s) = Dots(a) + Len(h) + Dots(b) /\ Len(h) \in Nat
  BY <1>1, <1>3, <1>4, <1>6
<1>8. ASSUME NEW i \in 1..Len(s)
      PROVE  s[i] = IF i <= Dots(a) \/ i > Dots(a) + Len(h) THEN "..." ELSE h[i - Dots(a)]
  <2>1. s[i] = IF i <= Len(z) THEN z[i] ELSE y[i - Len(z)]
    BY <1>1, <1>3, <1>4, <1>6, <1>7
  <2>2. CASE i <= Len(z)
    BY <1>1, <1>2, <1>3, <1>7, <2>1, <2>2
  <2>3. CASE i > Len(z)
    <3>1. i - Len(z) \in 1..Len(y)
      BY <1>1, <1>2, <1>3, <1>7, <2>3
    <3> QED BY <1>1, <1>2, <1>3, <1>7, <2>1, <2>3, <3>1
  <2> QED BY <1>1, <1>2, <1>3, <1>7, <2>2, <2>3
<1> QED
  BY <1>7, <1>8 DEF s

\* The window is a piece of the text, and not empty if the text is not.
LEMMA WindowIsPiece ==
    ASSUME SnippetType, content # << >>
    PROVE  /\ Window(Best).start \in 0..size - 1
           /\ Window(Best).end \in Window(Best).start + 1..size
<1> PICK pos, len : pos = Best.pos /\ len = Best.len
  OBVIOUS
<1>1. size \in Nat /\ size # 0
  BY DEF SnippetType, size
<1>2. pos \in 0..size /\ len \in Nat
  <2>1. CASE Best.found
    BY <1>1, <2>1, MatchHasNoSpace
  <2>2. CASE ~Best.found
    <3>1. Best = NoMatch
      BY <2>2 DEF Best
    <3> QED BY <1>1, <3>1 DEF NoMatch
  <2> QED BY <2>1, <2>2
<1> PICK C : C = ContextChars
  OBVIOUS
<1>3. C \in Nat \ {0}
  BY SnippetAssumption
<1> DEFINE left  == IF pos > C THEN pos - C ELSE 0
           ends  == {size, left + 2 * C + len}
           right == Min(ends)
           start == SnapForward(left)
           end   == SnapBack(start, right)
           first == {size, 2 * C}
<1>4. left \in 0..size
  BY <1>1, <1>2, <1>3
<1>5. right \in Nat /\ right <= size
  <2>1. ends \subseteq Nat /\ ends # {}
    BY <1>1, <1>2, <1>3, <1>4
  <2>2. right \in ends /\ \A k \in ends : right <= k
    <3> HIDE DEF ends
    <3> QED BY <2>1, LeastPlace
  <2>3. size \in ends
    OBVIOUS
  <2> HIDE DEF right, ends
  <2> QED BY <2>1, <2>2, <2>3
<1>6. Min(first) \in 1..size
  <2>1. first \subseteq Nat /\ first # {} /\ size \in first /\ 0 \notin first
    BY <1>1, <1>3
  <2> HIDE DEF first
  <2>2. Min(first) \in first /\ Min(first) <= size
    BY <2>1, LeastPlace
  <2>3. PICK k : k = Min(first)
    OBVIOUS
  <2>4. k \in Nat /\ k # 0 /\ k <= size
    BY ONLY <2>1, <2>2, <2>3
  <2>5. k \in 1..size
    BY ONLY <1>1, <2>4
  <2> QED BY <2>3, <2>5
<1> HIDE DEF right
<1>7. start \in 0..size
  <2>1. CASE left = 0
    BY <1>1, <2>1 DEF SnapForward
  <2>2. CASE left # 0
    <3> DEFINE T == {p \in left..size : p = size \/ IsBreak(p)}
    <3>1. T \subseteq 0..size /\ size \in T /\ T \subseteq Nat
      BY <1>1, <1>4
    <3>2. start = Min(T)
      BY <2>2 DEF SnapForward
    <3> HIDE DEF T, start
    <3> QED BY <3>1, <3>2, LeastPlace
  <2> QED BY <2>1, <2>2
<1> HIDE DEF start, left
<1>8. end \in Nat /\ end <= size
  <2>1. CASE right < size /\ right > start
    <3> DEFINE T == {p \in start..right : p = start \/ IsBreak(p)}
    <3>1. T \subseteq start..right /\ start \in T
      BY <1>5, <1>7, <2>1
    <3>2. end = Max(T)
      BY <2>1 DEF SnapBack
    <3>3. start \in Nat /\ right \in Nat
      BY <1>5, <1>7
    <3>4. end \in start..right
      <4> HIDE DEF T, end
      <4> QED BY <3>1, <3>2, <3>3, LastPlace
    <3> HIDE DEF end
    <3> QED BY <1>1, <1>5, <3>3, <3>4
  <2>2. CASE ~(right < size /\ right > start)
    BY <1>5, <2>2 DEF SnapBack
  <2> QED BY <2>1, <2>2
<1> HIDE DEF end
<1>9. Window(Best) = IF start >= end THEN [start |-> 0, end |-> Min(first)]
                     ELSE [start |-> start, end |-> end]
  BY DEF Window, start, end, left, right
<1> HIDE DEF first
<1>10. CASE start >= end
  BY <1>1, <1>6, <1>9, <1>10
<1>11. CASE ~(start >= end)
  BY <1>1, <1>7, <1>8, <1>9, <1>11
<1> QED
  BY <1>10, <1>11

\* So is the excerpt.
LEMMA ExcerptIsPiece ==
    ASSUME SnippetType, content # << >>
    PROVE  LET w == Window(Best)
               e == Excerpt(w)
           IN  /\ e \in Seq(Char) /\ Len(e) = w.end - w.start /\ Len(e) > 0
               /\ \A k \in 1..Len(e) : e[k] = content[w.start + k]
<1> DEFINE w == Window(Best)
<1>1. PICK a, b : a = w.start /\ b = w.end
  OBVIOUS
<1>2. a \in 0..Len(content) - 1 /\ b \in a + 1..Len(content) /\ content \in Seq(Char)
  BY <1>1, WindowIsPiece DEF size, SnippetType
<1> DEFINE e == SubSeq(content, a + 1, b)
<1>3. Excerpt(w) = e
  BY <1>1 DEF Excerpt
<1>4. /\ e \in Seq(Char) /\ Len(e) = b - a
      /\ \A k \in 1..b - a : e[k] = content[a + 1 + k - 1]
  BY <1>2
<1> HIDE DEF e, w
<1>5. Len(e) > 0 /\ \A k \in 1..Len(e) : e[k] = content[a + k]
  BY <1>2, <1>4
<1> QED
  BY <1>1, <1>3, <1>4, <1>5 DEF w

\* What is between the marks is a match.
LEMMA HighlightIsMatch ==
    ASSUME SnippetType, NEW e \in Seq(Char)
    PROVE  \/ /\ Highlighted(e, Best) = e
              /\ ~Best.found \/ \A i \in 1..Len(words) : \A p : ~IsMatch(e, words[i], p)
           \/ \E i \in 1..Len(words) : \E p \in Nat :
                 /\ Len(words[i]) \in Nat \ {0} /\ IsMatch(e, words[i], p)
                 /\ Highlighted(e, Best) = Mark(e, p, Len(words[i]))
<1> DEFINE place == FirstPlaces(e)
           word  == Min(DOMAIN place)
<1>1. /\ DOMAIN place \subseteq 1..Len(words)
      /\ \A i \in DOMAIN place : /\ place[i] \in Nat /\ Len(words[i]) \in Nat \ {0}
                                 /\ IsMatch(e, words[i], place[i])
      /\ \A i \in 1..Len(words) : i \notin DOMAIN place => \A p : ~IsMatch(e, words[i], p)
  <2>1. Len(e) \in Nat
    OBVIOUS
  <2> QED BY <2>1, FirstPlace
<1>2. Highlighted(e, Best) = IF ~Best.found \/ DOMAIN place = {} THEN e
                             ELSE Mark(e, place[word], Len(words[word]))
  BY DEF Highlighted
<1> HIDE DEF place
<1>3. CASE ~Best.found \/ DOMAIN place = {}
  BY <1>1, <1>2, <1>3
<1>4. CASE ~(~Best.found \/ DOMAIN place = {})
  <2>1. DOMAIN place \subseteq Nat /\ DOMAIN place # {}
    BY <1>1, <1>4, SnippetAssumption DEF SnippetType
  <2>2. word \in DOMAIN place
    <3> HIDE DEF word
    <3> QED BY <2>1, LeastPlace DEF word
  <2> HIDE DEF word
  <2> QED BY <1>1, <1>2, <1>4, <2>2
<1> QED
  BY <1>3, <1>4

\* s is e with a word of L symbols marked after m of them, d dots before it
\* and d2 behind it.
IsMarked(s, e, d, d2, m, L) ==
    LET o == d + m + 1
        c == d + m + L + 2
    IN  /\ Len(s) = d + Len(e) + 2 + d2
        /\ s[o] = "<mark>" /\ s[c] = "</mark>"
        /\ \A i \in 1..Len(s) : i <= d \/ i > d + Len(e) + 2 => s[i] = "..."
        /\ \A i \in d + 1..o - 1 : s[i] = e[i - d]
        /\ \A i \in o + 1..c - 1 : s[i] = e[i - d - 1]
        /\ \A i \in c + 1..d + Len(e) + 2 : s[i] = e[i - d - 2]

LEMMA FramedMarked ==
    ASSUME NEW e \in Seq(Char), NEW a \in BOOLEAN, NEW b \in BOOLEAN,
           NEW m \in Nat, NEW L \in Nat, m + L <= Len(e)
    PROVE  IsMarked(Ellipsis(a) \o Mark(e, m, L) \o Ellipsis(b), e, Dots(a), Dots(b), m, L)
<1> PICK d \in Nat : d = Dots(a)
  BY DEF Dots
<1> PICK d2 \in Nat : d2 = Dots(b)
  BY DEF Dots
<1> PICK h : h = Mark(e, m, L)
  OBVIOUS
<1> PICK n \in Nat : n = Len(e)
  OBVIOUS
<1> DEFINE s == Ellipsis(a) \o h \o Ellipsis(b)
           o == d + m + 1
           c == d + m + L + 2
<1>0. d \in Nat /\ m \in Nat /\ L \in Nat /\ n \in Nat /\ m + L <= n
  OBVIOUS
<1>1. /\ h \in Seq(Symbol) /\ Len(h) = n + 2
      /\ \A j \in 1..n + 2 : h[j] = MarkedAt(e, m, L, j)
  <2>1. /\ Mark(e, m, L) \in Seq(Symbol) /\ Len(Mark(e, m, L)) = Len(e) + 2
        /\ \A j \in 1..Len(e) + 2 : Mark(e, m, L)[j] = MarkedAt(e, m, L, j)
    BY Marked
  <2> QED BY <2>1
<1>2. /\ Len(s) = d + (n + 2) + d2
      /\ \A i \in 1..Len(s) : s[i] = IF i <= d \/ i > d + (n + 2) THEN "..." ELSE h[i - d]
  <2>1. h \in Seq(Symbol)
    BY <1>1
  <2>2. /\ Len(s) = Dots(a) + Len(h) + Dots(b)
        /\ \A i \in 1..Len(s) : s[i] = IF i <= Dots(a) \/ i > Dots(a) + Len(h) THEN "..."
                                       ELSE h[i - Dots(a)]
    BY <2>1, Framed
  <2> HIDE DEF s
  <2> QED BY <1>1, <2>2
<1> HIDE DEF s
<1>3. Len(s) = d + n + 2 + d2 /\ Len(s) \in Nat
  BY <1>2
<1>4. ASSUME NEW j \in 1..n + 2 PROVE d + j \in 1..Len(s) /\ s[d + j] = h[j]
  <2>1. d + j \in 1..d + n + 2 + d2
    OBVIOUS
  <2>2. ~(d + j <= d) /\ ~(d + j > d + (n + 2)) /\ (d + j) - d = j
    OBVIOUS
  <2> QED BY ONLY <1>2, <1>3, <2>1, <2>2
<1>5. s[o] = "<mark>" /\ s[c] = "</mark>"
  <2>1. m + 1 \in 1..n + 2 /\ m + L + 2 \in 1..n + 2
    BY ONLY <1>0
  <2>2. h[m + 1] = "<mark>" /\ h[m + L + 2] = "</mark>"
    BY <1>1, <2>1 DEF MarkedAt
  <2>3. o = d + (m + 1) /\ c = d + (m + L + 2)
    OBVIOUS
  <2> QED BY <1>4, <2>1, <2>2, <2>3
<1>6. ASSUME NEW i, i \in d + 1..o - 1 PROVE s[i] = e[i - d]
  <2>1. i - d \in 1..n + 2 /\ i - d <= m /\ d + (i - d) = i
    BY ONLY <1>0, <1>6
  <2>2. h[i - d] = e[i - d]
    <3>1. h[i - d] = MarkedAt(e, m, L, i - d)
      BY <1>1, <2>1
    <3>2. MarkedAt(e, m, L, i - d) = e[i - d]
      BY <2>1 DEF MarkedAt
    <3> QED BY <3>1, <3>2
  <2> QED BY <1>4, <2>1, <2>2
<1>7. ASSUME NEW i, i \in o + 1..c - 1 PROVE s[i] = e[i - d - 1]
  <2>1. i - d \in 1..n + 2 /\ m + 1 < i - d /\ i - d <= m + L + 1 /\ d + (i - d) = i
    BY ONLY <1>0, <1>7
  <2>2. h[i - d] = e[(i - d) - 1]
    <3>1. h[i - d] = MarkedAt(e, m, L, i - d)
      BY <1>1, <2>1
    <3>2. MarkedAt(e, m, L, i - d) = e[(i - d) - 1]
      BY <2>1 DEF MarkedAt
    <3> QED BY <3>1, <3>2
  <2> QED BY <1>4, <2>1, <2>2
<1>8. ASSUME NEW i, i \in c + 1..d + n + 2 PROVE s[i] = e[i - d - 2]
  <2>1. i - d \in 1..n + 2 /\ m + L + 2 < i - d /\ d + (i - d) = i
    BY ONLY <1>0, <1>8
  <2>2. h[i - d] = e[(i - d) - 2]
    <3>1. h[i - d] = MarkedAt(e, m, L, i - d)
      BY <1>1, <2>1
    <3>2. MarkedAt(e, m, L, i - d) = e[(i - d) - 2]
      BY <2>1 DEF MarkedAt
    <3> QED BY <3>1, <3>2
  <2> QED BY <1>4, <2>1, <2>2
<1>9. ASSUME NEW i, i \in 1..Len(s), i <= d \/ i > d + n + 2 PROVE s[i] = "..."
  <2>1. i <= d \/ i > d + (n + 2)
    BY ONLY <1>0, <1>3, <1>9
  <2> QED BY ONLY <1>2, <1>9, <2>1
<1>10. IsMarked(s, e, d, d2, m, L)
  BY <1>3, <1>5, <1>6, <1>7, <1>8, <1>9 DEF IsMarked
<1> QED
  BY <1>10 DEF s

\* The excerpt e is shown as s, with dots where a and b say, and marks at the
\* places opened and closed.
ShownAs(s, e, a, b, opened, closed) ==
    /\ Decorates(s, e)
    /\ s[1] = "..." <=> a
    /\ s[Len(s)] = "..." <=> b
    /\ Places(s, "<mark>") = opened /\ Places(s, "</mark>") = closed

\* An excerpt without a mark.
LEMMA PlainExcerpt ==
    ASSUME NEW e \in Seq(Char), Len(e) > 0, NEW a \in BOOLEAN, NEW b \in BOOLEAN
    PROVE  ShownAs(Ellipsis(a) \o e \o Ellipsis(b), e, a, b, {}, {})
<1> PICK d \in Nat : d = Dots(a)
  BY DEF Dots
<1> PICK d2 \in Nat : d2 = Dots(b)
  BY DEF Dots
<1> PICK n \in Nat : n = Len(e)
  OBVIOUS
<1> PICK s : s = Ellipsis(a) \o e \o Ellipsis(b)
  OBVIOUS
<1>0. d \in Nat /\ d2 \in Nat /\ n \in Nat /\ n > 0 /\ n = Len(e)
  OBVIOUS
<1>1. /\ Len(s) = d + n + d2
      /\ \A i \in 1..Len(s) : s[i] = IF i <= d \/ i > d + n THEN "..." ELSE e[i - d]
  <2>1. e \in Seq(Symbol)
    BY DEF Symbol
  <2>2. LET x == Ellipsis(a) \o e \o Ellipsis(b)
        IN  /\ Len(x) = Dots(a) + Len(e) + Dots(b)
            /\ \A i \in 1..Len(x) : x[i] = IF i <= Dots(a) \/ i > Dots(a) + Len(e) THEN "..."
                                           ELSE e[i - Dots(a)]
    BY <2>1, Framed
  <2> QED BY <2>2
<1>2. \A k \in 1..n : e[k] \notin Decoration /\ e[k] # "..." /\ e[k] # "<mark>" /\ e[k] # "</mark>"
  <2> SUFFICES ASSUME NEW k \in 1..n PROVE e[k] \in Char
    BY SnippetAssumption DEF Decoration
  <2> QED BY <1>0
<1> DEFINE K == d + 1..d + n
           f == [i \in K |-> i - d]
<1>3. \A i \in K : i \in 1..Len(s) /\ i - d \in 1..n /\ s[i] = e[i - d]
  <2> SUFFICES ASSUME NEW i, i \in K PROVE i \in 1..Len(s) /\ i - d \in 1..n /\ s[i] = e[i - d]
    OBVIOUS
  <2>1. i \in d + 1..d + n
    OBVIOUS
  <2>2. i \in 1..d + n + d2 /\ i - d \in 1..n /\ ~(i <= d) /\ ~(i > d + n)
    BY ONLY <1>0, <2>1
  <2> QED BY ONLY <1>1, <2>2
<1>4. \A i \in 1..Len(s) : i \notin K => s[i] = "..."
  <2> SUFFICES ASSUME NEW i, i \in 1..Len(s), i \notin K PROVE s[i] = "..."
    OBVIOUS
  <2>1. i \in 1..d + n + d2 /\ ~(i \in d + 1..d + n)
    BY <1>1
  <2>2. i <= d \/ i > d + n
    BY ONLY <1>0, <2>1
  <2>3. i \in 1..Len(s)
    OBVIOUS
  <2> QED BY ONLY <1>1, <2>2, <2>3
<1>5. "..." \in Decoration
  BY DEF Decoration
<1>6. K = {i \in 1..Len(s) : s[i] \notin Decoration}
  <2> HIDE DEF K
  <2> QED BY <1>2, <1>3, <1>4, <1>5
<1>7. /\ f \in [K -> 1..Len(e)]
      /\ \A i, j \in K : i < j => f[i] < f[j]
      /\ \A k \in 1..Len(e) : \E i \in K : f[i] = k
      /\ \A i \in K : s[i] = e[f[i]]
  <2>1. \A i, j \in K : i < j => i - d < j - d
    BY ONLY <1>0
  <2>2. \A k \in 1..n : d + k \in K /\ (d + k) - d = k
    BY ONLY <1>0
  <2> HIDE DEF K
  <2> QED BY <1>0, <1>3, <2>1, <2>2
<1>8. Decorates(s, e)
  <2>0. Numbers(f, K, s, e)
    BY <1>7 DEF Numbers
  <2>1. Len(s) \in Nat
    BY ONLY <1>0, <1>1
  <2> HIDE DEF K, f
  <2> QED BY <1>6, <2>0, <2>1, InOrder
<1>9. s[1] = "..." <=> a
  <2>1. CASE a
    <3>1. 1 \in 1..Len(s) /\ 1 <= d
      BY <1>0, <1>1, <2>1 DEF Dots
    <3> QED BY <1>1, <2>1, <3>1
  <2>2. CASE ~a
    <3>1. d = 0
      BY <2>2 DEF Dots
    <3>2. 1 \in K /\ 1 - d \in 1..n
      BY <1>0, <3>1
    <3> HIDE DEF K
    <3> QED BY <1>2, <1>3, <2>2, <3>2
  <2> QED BY <2>1, <2>2
<1>10. s[Len(s)] = "..." <=> b
  <2>0. Len(s) = d + n + d2 /\ Len(s) \in 1..Len(s)
    BY ONLY <1>0, <1>1
  <2>1. CASE b
    <3>1. d2 = 1
      BY <2>1 DEF Dots
    <3>2. Len(s) > d + n
      BY ONLY <1>0, <2>0, <3>1
    <3> QED BY <1>1, <2>0, <2>1, <3>2
  <2>2. CASE ~b
    <3>1. d2 = 0
      BY <2>2 DEF Dots
    <3>2. Len(s) \in d + 1..d + n
      BY ONLY <1>0, <2>0, <3>1
    <3>3. Len(s) \in K
      BY <3>2
    <3> HIDE DEF K
    <3> QED BY <1>2, <1>3, <2>2, <3>3
  <2> QED BY <2>1, <2>2
<1>11. \A i \in 1..Len(s) : s[i] # "<mark>" /\ s[i] # "</mark>"
  <2> HIDE DEF K
  <2> QED BY <1>2, <1>3, <1>4
<1> QED
  BY <1>8, <1>9, <1>10, <1>11 DEF Places, ShownAs

\* Behind place o of s, and before c, is what e has behind place m.
Encloses(s, o, c, e, m, L) ==
    /\ Len(SubSeq(s, o + 1, c - 1)) = L
    /\ \A k \in 1..L : SubSeq(s, o + 1, c - 1)[k] = e[m + k]

\* An excerpt with a marked word.
LEMMA MarkedExcerpt ==
    ASSUME NEW e \in Seq(Char), NEW a \in BOOLEAN, NEW b \in BOOLEAN,
           NEW m \in Nat, NEW L \in Nat \ {0}, m + L <= Len(e),
           NEW s, s = Ellipsis(a) \o Mark(e, m, L) \o Ellipsis(b)
    PROVE  \E o, c : ShownAs(s, e, a, b, {o}, {c}) /\ Encloses(s, o, c, e, m, L)
<1> PICK d \in Nat : d = Dots(a)
  BY DEF Dots
<1> PICK d2 \in Nat : d2 = Dots(b)
  BY DEF Dots
<1> PICK n \in Nat : n = Len(e)
  OBVIOUS
<1> PICK o : o = d + m + 1
  OBVIOUS
<1> PICK c : c = d + m + L + 2
  OBVIOUS
<1>0. /\ d \in Nat /\ d2 \in Nat /\ n \in Nat /\ m \in Nat /\ L \in Nat /\ L > 0 /\ m + L <= n
      /\ o = d + m + 1 /\ c = d + m + L + 2 /\ n = Len(e)
  OBVIOUS
<1>1. /\ Len(s) = d + n + 2 + d2
      /\ s[o] = "<mark>" /\ s[c] = "</mark>"
      /\ \A i \in 1..Len(s) : i <= d \/ i > d + n + 2 => s[i] = "..."
      /\ \A i \in d + 1..o - 1 : s[i] = e[i - d]
      /\ \A i \in o + 1..c - 1 : s[i] = e[i - d - 1]
      /\ \A i \in c + 1..d + n + 2 : s[i] = e[i - d - 2]
  <2>1. IsMarked(s, e, d, d2, m, L)
    <3>1. L \in Nat
      OBVIOUS
    <3> QED BY <3>1, FramedMarked
  <2> QED BY <1>0, <2>1 DEF IsMarked
<1>2. \A k \in 1..n : e[k] \notin Decoration /\ e[k] # "..." /\ e[k] # "<mark>" /\ e[k] # "</mark>"
  <2> SUFFICES ASSUME NEW k \in 1..n PROVE e[k] \in Char
    BY SnippetAssumption DEF Decoration
  <2> QED BY <1>0
<1> DEFINE K == (d + 1..d + n + 2) \ {o, c}
           g(i) == IF i < o THEN i - d ELSE IF i < c THEN i - d - 1 ELSE i - d - 2
           f == [i \in K |-> g(i)]
<1>3. \A i \in K : i \in 1..Len(s) /\ g(i) \in 1..n /\ s[i] = e[g(i)]
  <2> SUFFICES ASSUME NEW i, i \in K PROVE i \in 1..Len(s) /\ g(i) \in 1..n /\ s[i] = e[g(i)]
    OBVIOUS
  <2>1. i \in d + 1..d + n + 2 /\ i # o /\ i # c
    OBVIOUS
  <2>2. i \in 1..d + n + 2 + d2
    BY ONLY <1>0, <2>1
  <2>3. CASE i < o
    <3>1. i \in d + 1..o - 1 /\ i - d \in 1..n
      BY ONLY <1>0, <2>1, <2>3
    <3> QED BY <1>1, <2>2, <2>3, <3>1
  <2>4. CASE ~(i < o) /\ i < c
    <3>1. i \in o + 1..c - 1 /\ i - d - 1 \in 1..n
      BY ONLY <1>0, <2>1, <2>4
    <3> QED BY <1>1, <2>2, <2>4, <3>1
  <2>5. CASE ~(i < o) /\ ~(i < c)
    <3>1. i \in c + 1..d + n + 2 /\ i - d - 2 \in 1..n
      BY ONLY <1>0, <2>1, <2>5
    <3> QED BY <1>1, <2>2, <2>5, <3>1
  <2> QED BY <2>3, <2>4, <2>5
<1>4. \A i \in K : /\ i \in 1..Len(s) /\ s[i] \notin Decoration
                   /\ s[i] # "..." /\ s[i] # "<mark>" /\ s[i] # "</mark>"
  <2> SUFFICES ASSUME NEW i \in K
               PROVE  /\ i \in 1..Len(s) /\ s[i] \notin Decoration
                      /\ s[i] # "..." /\ s[i] # "<mark>" /\ s[i] # "</mark>"
    OBVIOUS
  <2>1. PICK k : k = g(i)
    OBVIOUS
  <2>2. i \in 1..Len(s) /\ k \in 1..n /\ s[i] = e[k]
    BY <1>3, <2>1
  <2> QED BY <1>2, <2>2
<1>5. \A i \in 1..Len(s) : i \notin K => i = o \/ i = c \/ s[i] = "..."
  <2> SUFFICES ASSUME NEW i, i \in 1..Len(s), i \notin K, i # o, i # c PROVE s[i] = "..."
    OBVIOUS
  <2>1. i \in 1..d + n + 2 + d2 /\ ~(i \in d + 1..d + n + 2) /\ i \in 1..Len(s)
    BY <1>1
  <2>2. i <= d \/ i > d + n + 2
    BY ONLY <1>0, <2>1
  <2> QED BY ONLY <1>1, <2>1, <2>2
<1>6. "..." \in Decoration /\ "<mark>" \in Decoration /\ "</mark>" \in Decoration
  BY DEF Decoration
<1>7. o \in 1..Len(s) /\ c \in 1..Len(s) /\ o # c
  <2>1. o \in 1..d + n + 2 + d2 /\ c \in 1..d + n + 2 + d2 /\ o # c
    BY ONLY <1>0
  <2> QED BY <1>1, <2>1
<1>8. K = {i \in 1..Len(s) : s[i] \notin Decoration}
  <2> HIDE DEF K, g
  <2>2. \A i \in 1..Len(s) : i \notin K => s[i] \in Decoration
    <3> SUFFICES ASSUME NEW i, i \in 1..Len(s), i \notin K PROVE s[i] \in Decoration
      OBVIOUS
    <3>1. i = o \/ i = c \/ s[i] = "..."
      BY <1>5
    <3>2. s[o] = "<mark>" /\ s[c] = "</mark>"
      BY <1>1
    <3> QED BY ONLY <1>6, <3>1, <3>2
  <2> QED BY ONLY <1>4, <2>2
<1>9. /\ f \in [K -> 1..Len(e)]
      /\ \A i, j \in K : i < j => f[i] < f[j]
      /\ \A k \in 1..Len(e) : \E i \in K : f[i] = k
      /\ \A i \in K : s[i] = e[f[i]]
  <2>1. \A i, j \in K : i < j => g(i) < g(j)
    BY ONLY <1>0
  <2>2. \A k \in 1..n : \E i \in K : g(i) = k
    <3> SUFFICES ASSUME NEW k, k \in 1..n PROVE \E i \in K : g(i) = k
      OBVIOUS
    <3>1. k \in 1..n
      OBVIOUS
    <3>2. CASE k <= m
      <4>1. d + k \in K /\ g(d + k) = k
        BY ONLY <1>0, <3>1, <3>2
      <4> QED BY <4>1
    <3>3. CASE m < k /\ k <= m + L
      <4>1. d + k + 1 \in K /\ g(d + k + 1) = k
        BY ONLY <1>0, <3>1, <3>3
      <4> QED BY <4>1
    <3>4. CASE k > m + L
      <4>1. d + k + 2 \in K /\ g(d + k + 2) = k
        BY ONLY <1>0, <3>1, <3>4
      <4> QED BY <4>1
    <3> QED BY <1>0, <3>1, <3>2, <3>3, <3>4
  <2> HIDE DEF K, g
  <2> QED BY <1>0, <1>3, <2>1, <2>2
<1>10. Decorates(s, e)
  <2>0. Numbers(f, K, s, e)
    BY <1>9 DEF Numbers
  <2>1. Len(s) \in Nat
    BY ONLY <1>0, <1>1
  <2> HIDE DEF K, f
  <2> QED BY <1>8, <2>0, <2>1, InOrder
<1>11. s[1] = "..." <=> a
  <2>1. CASE a
    <3>1. 1 \in 1..Len(s) /\ 1 <= d
      BY <1>0, <1>1, <2>1 DEF Dots
    <3> QED BY <1>1, <2>1, <3>1
  <2>2. CASE ~a
    <3>1. d = 0
      BY <2>2 DEF Dots
    <3>2. 1 \in K \/ 1 = o
      BY ONLY <1>0, <3>1
    <3> HIDE DEF K, g
    <3> QED BY <1>1, <1>4, <2>2, <3>2
  <2> QED BY <2>1, <2>2
<1>12. s[Len(s)] = "..." <=> b
  <2>0. Len(s) = d + n + 2 + d2 /\ Len(s) \in 1..Len(s)
    BY ONLY <1>0, <1>1
  <2>1. CASE b
    <3>1. d2 = 1
      BY <2>1 DEF Dots
    <3>2. Len(s) > d + n + 2
      BY ONLY <1>0, <2>0, <3>1
    <3> QED BY <1>1, <2>0, <2>1, <3>2
  <2>2. CASE ~b
    <3>1. d2 = 0
      BY <2>2 DEF Dots
    <3>2. Len(s) \in K \/ Len(s) = c
      BY ONLY <1>0, <2>0, <3>1
    <3> HIDE DEF K, g
    <3> QED BY <1>1, <1>4, <2>2, <3>2
  <2> QED BY <2>1, <2>2
<1>13. /\ \A i \in 1..Len(s) : s[i] = "<mark>" <=> i = o
       /\ \A i \in 1..Len(s) : s[i] = "</mark>" <=> i = c
  <2> HIDE DEF K, g
  <2> QED BY <1>1, <1>4, <1>5, <1>7
<1>14. Places(s, "<mark>") = {o} /\ Places(s, "</mark>") = {c}
  BY <1>7, <1>13 DEF Places
<1>15. s \in Seq(Symbol)
  <2>1. Mark(e, m, L) \in Seq(Symbol)
    BY Marked
  <2>2. Ellipsis(a) \in Seq(Symbol) /\ Ellipsis(b) \in Seq(Symbol)
    BY DotsIfThere
  <2>3. PICK h, x, y : h = Mark(e, m, L) /\ x = Ellipsis(a) /\ y = Ellipsis(b)
    OBVIOUS
  <2>4. x \o h \in Seq(Symbol) /\ y \in Seq(Symbol)
    BY <2>1, <2>2, <2>3, Joined
  <2>5. (x \o h) \o y \in Seq(Symbol)
    BY <2>4, Joined
  <2> QED BY <2>3, <2>5
<1>16. /\ Len(SubSeq(s, o + 1, c - 1)) = L
       /\ \A k \in 1..L : SubSeq(s, o + 1, c - 1)[k] = e[m + k]
  <2>1. o + 1 \in 1..Len(s) + 1 /\ c - 1 \in o..Len(s) /\ (c - 1) - (o + 1) + 1 = L
    <3>1. o + 1 \in 1..d + n + 2 + d2 + 1 /\ c - 1 \in o..d + n + 2 + d2 /\ (c - 1) - (o + 1) + 1 = L
      BY ONLY <1>0
    <3> QED BY <1>1, <3>1
  <2>2. PICK p, q : p = o + 1 /\ q = c - 1
    OBVIOUS
  <2>3. p \in 1..Len(s) + 1 /\ q \in p - 1..Len(s) /\ q - p + 1 = L
    BY ONLY <1>0, <2>1, <2>2
  <2>4. Len(SubSeq(s, p, q)) = q - p + 1 /\ \A k \in 1..q - p + 1 : SubSeq(s, p, q)[k] = s[p + k - 1]
    BY ONLY <1>15, <2>3, SubSeqProperties
  <2>5. ASSUME NEW k, k \in 1..L PROVE s[p + k - 1] = e[m + k]
    <3>1. p + k - 1 \in o + 1..c - 1 /\ (p + k - 1) - d - 1 = m + k
      BY ONLY <1>0, <2>2, <2>5
    <3>2. \A i \in o + 1..c - 1 : s[i] = e[i - d - 1]
      BY <1>1
    <3> QED BY ONLY <3>1, <3>2
  <2> QED BY ONLY <2>2, <2>3, <2>4, <2>5
<1>17. ShownAs(s, e, a, b, {o}, {c})
  BY <1>10, <1>11, <1>12, <1>14 DEF ShownAs
<1>18. Encloses(s, o, c, e, m, L)
  BY <1>16 DEF Encloses
<1> QED
  BY ONLY <1>17, <1>18

\* If words are short the excerpt has a match.
LEMMA ExcerptHasMatch ==
    ASSUME SnippetType, content # << >>, Best.found, WordsAreShort
    PROVE  \E i \in 1..Len(words) : \E p : IsMatch(Excerpt(Window(Best)), words[i], p)
<1>1. PICK i \in 1..Len(words) : /\ Len(words[i]) \in Nat \ {0} /\ Best.len = Len(words[i])
                                 /\ IsMatch(content, words[i], Best.pos)
  BY BestIsMatch
<1>2. PICK e : e = Excerpt(Window(Best))
  OBVIOUS
<1>3. PICK a, b : a = Window(Best).start /\ b = Window(Best).end
  OBVIOUS
<1>4. PICK pos, L : pos = Best.pos /\ L = Len(words[i])
  OBVIOUS
<1>5. a \in Nat /\ b \in Nat /\ Len(e) = b - a /\ \A k \in 1..Len(e) : e[k] = content[a + k]
  <2>1. Len(e) = b - a /\ \A k \in 1..Len(e) : e[k] = content[a + k]
    BY <1>2, <1>3, ExcerptIsPiece
  <2>2. a \in 0..size - 1 /\ b \in a + 1..size /\ size \in Nat
    BY <1>3, WindowIsPiece DEF size, SnippetType
  <2>3. a \in Nat /\ b \in Nat
    BY ONLY <2>2
  <2> QED BY <2>1, <2>3
<1>6. a <= pos /\ pos + L <= b
  BY <1>1, <1>3, <1>4, WindowShowsMatch DEF MatchIsShown
<1>7. /\ pos \in Nat /\ L \in Nat
      /\ \A k \in 1..L : to_lower(content[pos + k]) = to_lower(words[i][k])
  BY <1>1, <1>4 DEF IsMatch, SnippetType
<1>8. IsMatch(e, words[i], pos - a)
  <2>1. pos - a \in 0..Len(e) /\ (pos - a) + L <= Len(e)
    BY ONLY <1>5, <1>6, <1>7
  <2>2. ASSUME NEW k, k \in 1..L PROVE to_lower(e[(pos - a) + k]) = to_lower(words[i][k])
    <3>1. (pos - a) + k \in 1..Len(e) /\ a + ((pos - a) + k) = pos + k
      BY ONLY <1>5, <1>6, <1>7, <2>2
    <3>2. e[(pos - a) + k] = content[pos + k]
      BY <1>5, <3>1
    <3> QED BY <1>7, <2>2, <3>2
  <2> QED BY <1>4, <2>1, <2>2 DEF IsMatch
<1> QED
  BY <1>2, <1>8

LEMMA MarksAreRight ==
    ASSUME SnippetType
    PROVE  MarksEncloseAWord
<1> SUFFICES ASSUME content # << >> PROVE MarksEncloseAWord
  BY DEF MarksEncloseAWord
<1> PICK best : best = Best
  OBVIOUS
<1> PICK w : w = Window(best)
  OBVIOUS
<1> PICK e : e = Excerpt(w)
  OBVIOUS
<1> PICK a, b : a = (w.start > 0) /\ b = (w.end < size)
  OBVIOUS
<1> PICK s : s = generate
  OBVIOUS
<1>1. e \in Seq(Char) /\ Len(e) > 0 /\ Len(e) \in Nat
  BY ExcerptIsPiece
<1>2. a \in BOOLEAN /\ b \in BOOLEAN
  OBVIOUS
<1>3. s = Ellipsis(a) \o Highlighted(e, Best) \o Ellipsis(b)
  BY DEF generate
<1>4. SUFFICES /\ Decorates(s, e)
               /\ s[1] = "..." <=> a
               /\ s[Len(s)] = "..." <=> b
               /\ Best.found /\ WordsAreShort => Places(s, "<mark>") # {}
               /\ Places(s, "<mark>") = {} <=> Places(s, "</mark>") = {}
               /\ \A x \in Places(s, "<mark>"), y \in Places(s, "</mark>") :
                     \E i \in 1..Len(words) :
                        Lower(SubSeq(s, x + 1, y - 1)) = Lower(words[i])
  BY DEF MarksEncloseAWord
<1>5. CASE /\ Highlighted(e, Best) = e
           /\ ~Best.found \/ \A i \in 1..Len(words) : \A p : ~IsMatch(e, words[i], p)
  <2>1. ShownAs(s, e, a, b, {}, {})
    <3>1. ShownAs(Ellipsis(a) \o e \o Ellipsis(b), e, a, b, {}, {})
      BY <1>1, <1>2, PlainExcerpt
    <3> QED BY <1>3, <1>5, <3>1
  <2>2. ~(Best.found /\ WordsAreShort)
    BY <1>5, ExcerptHasMatch
  <2> QED BY <2>1, <2>2 DEF ShownAs
<1>6. CASE \E i \in 1..Len(words) : \E p \in Nat :
              /\ Len(words[i]) \in Nat \ {0} /\ IsMatch(e, words[i], p)
              /\ Highlighted(e, Best) = Mark(e, p, Len(words[i]))
  <2>1. PICK i \in 1..Len(words), m \in Nat :
              /\ Len(words[i]) \in Nat \ {0} /\ IsMatch(e, words[i], m)
              /\ Highlighted(e, Best) = Mark(e, m, Len(words[i]))
    BY <1>6
  <2>2. PICK L \in Nat \ {0} : L = Len(words[i])
    BY <2>1
  <2>3. m + L <= Len(e) /\ \A k \in 1..L : to_lower(e[m + k]) = to_lower(words[i][k])
    BY <2>1, <2>2 DEF IsMatch
  <2>4. s = Ellipsis(a) \o Mark(e, m, L) \o Ellipsis(b)
    BY <1>3, <2>1, <2>2
  <2>5. PICK o, c : ShownAs(s, e, a, b, {o}, {c}) /\ Encloses(s, o, c, e, m, L)
    <3>1. /\ e \in Seq(Char) /\ a \in BOOLEAN /\ b \in BOOLEAN
          /\ m \in Nat /\ L \in Nat \ {0} /\ m + L <= Len(e)
      BY <1>1, <1>2, <2>3
    <3> QED BY ONLY <2>4, <3>1, MarkedExcerpt
  <2>6. Lower(SubSeq(s, o + 1, c - 1)) = Lower(words[i])
    <3>1. PICK t : t = SubSeq(s, o + 1, c - 1)
      OBVIOUS
    <3>2. Len(t) = L /\ Len(words[i]) = L /\ \A k \in 1..L : to_lower(t[k]) = to_lower(words[i][k])
      BY <2>2, <2>3, <2>5, <3>1 DEF Encloses
    <3> QED BY <3>1, <3>2 DEF Lower
  <2> QED BY <2>5, <2>6 DEF ShownAs
<1> QED
  BY <1>1, <1>5, <1>6, HighlightIsMatch

-----------------------------------------------------------------------------
(* The text grows, the words stay.                                         *)

LEMMA TextStaysText ==
    ASSUME SnippetType, [Write]_snippetVars
    PROVE  SnippetType'
<1>1. CASE Write
  <2>1. PICK c \in Char : content' = Append(content, c)
    BY <1>1 DEF Write
  <2>2. words' = words
    BY <1>1 DEF Write
  <2> QED BY <2>1, <2>2 DEF SnippetType
<1>2. CASE UNCHANGED snippetVars
  BY <1>2 DEF SnippetType, snippetVars
<1> QED
  BY <1>1, <1>2

\* See MatchIsShown: the excerpt of a result shows the earliest match of the
\* query, between words, for texts, words and a radius of any size.
THEOREM ExcerptsShowMatch == SnippetSpec => []MatchIsShown
<1>1. SnippetInit => SnippetType
  BY DEF SnippetInit, SnippetType
<1>2. SnippetType /\ [Write]_snippetVars => SnippetType'
  BY TextStaysText
<1>3. SnippetType => MatchIsShown
  BY WindowShowsMatch
<1> QED
  BY <1>1, <1>2, <1>3, PTL DEF SnippetSpec

\* See MarksEncloseAWord: the marks in an excerpt stand around a word of the
\* query, and without them it is a piece of the text, for texts of any length.
THEOREM ExcerptsAreMarked == SnippetSpec => []MarksEncloseAWord
<1>1. SnippetInit => SnippetType
  BY DEF SnippetInit, SnippetType
<1>2. SnippetType /\ [Write]_snippetVars => SnippetType'
  BY TextStaysText
<1>3. SnippetType => MarksEncloseAWord
  BY MarksAreRight
<1> QED
  BY <1>1, <1>2, <1>3, PTL DEF SnippetSpec
=============================================================================
