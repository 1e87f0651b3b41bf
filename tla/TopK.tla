-------------------------------- MODULE TopK --------------------------------
(***************************************************************************)
(* How search() selects and orders the best candidates                     *)
(* (src/search_engine.cpp): a heap of at most top_k entries, its lowest    *)
(* score on top, drained and sorted at the end.                            *)
(*                                                                         *)
(* The candidates come in the order of their document ids, and are numbered*)
(* in this order here.  Scores are integers: only their order matters.     *)
(***************************************************************************)
EXTENDS Integers, FiniteSets, Sequences, Functions

CONSTANTS Score,          \* scores a candidate can have
          Asked,          \* values of top_k a caller passes
          DefaultTopK,    \* config_.default_top_k
          MaxTopK,        \* config_.max_top_k
          MaxCandidates   \* bound: candidates of a query

ASSUME TopKAssumption == /\ Score \subseteq Int
                         /\ Asked \subseteq Nat
                         /\ DefaultTopK \in Nat \ {0}
                         /\ MaxTopK \in Nat
                         /\ MaxCandidates \in Nat

VARIABLES top_k,    \* the limit in force
          scores,   \* candidate -> score_document() of it
          next,     \* the candidate the loop comes to
          heap,     \* the set of entries in the priority queue
          ordered,  \* the sorted results
          done      \* the heap has been drained

vars == <<top_k, scores, next, heap, ordered, done>>

\* Mutant: no upper limit.
DefaultedOnly(asked) == IF asked = 0 THEN DefaultTopK ELSE asked

EffectiveTopK(asked) ==
    LET clamped == IF asked <= MaxTopK THEN asked ELSE MaxTopK
    IN  IF clamped = 0 THEN DefaultTopK ELSE clamped

EntryOf(i) == [score |-> scores[i], document_id |-> i]

\* Mutant: the comparison of the queue is the other way round.
HighestEntries == {e \in heap : \A f \in heap : f.score <= e.score}

\* The entries top() may be: the queue compares scores only.
LowestEntries == {e \in heap : \A f \in heap : e.score <= f.score}

\* Mutant: lowest scores first.
WorstFirst(e, f) == e.score < f.score \/ (e.score = f.score /\ e.document_id < f.document_id)

\* The order of the results: best first, then "deterministic tie-break".
Before(e, f) == e.score > f.score \/ (e.score = f.score /\ e.document_id < f.document_id)

-----------------------------------------------------------------------------

Init == /\ top_k \in {EffectiveTopK(asked) : asked \in Asked}
        /\ scores \in UNION {[1..n -> Score] : n \in 0..MaxCandidates}
        /\ next = 1
        /\ heap = {}
        /\ ordered = << >>
        /\ done = FALSE

Push == /\ next <= Len(scores)
        /\ Cardinality(heap) < top_k
        /\ heap' = heap \cup {EntryOf(next)}
        /\ next' = next + 1
        /\ UNCHANGED <<top_k, scores, ordered, done>>

Replace == /\ next <= Len(scores)
           /\ Cardinality(heap) >= top_k
           /\ \E top \in LowestEntries :
                 /\ scores[next] > top.score
                 /\ heap' = (heap \ {top}) \cup {EntryOf(next)}
           /\ next' = next + 1
           /\ UNCHANGED <<top_k, scores, ordered, done>>

Reject == /\ next <= Len(scores)
          /\ Cardinality(heap) >= top_k
          /\ \E top \in LowestEntries : scores[next] <= top.score
          /\ next' = next + 1
          /\ UNCHANGED <<top_k, scores, heap, ordered, done>>

Drain == /\ ~done
         /\ next > Len(scores)
         /\ \E s \in [1..Cardinality(heap) -> heap] :
               /\ Range(s) = heap
               /\ \A i, j \in DOMAIN s : i < j => Before(s[i], s[j])
               /\ ordered' = s
         /\ heap' = {}
         /\ done' = TRUE
         /\ UNCHANGED <<top_k, scores, next>>

Next == Push \/ Replace \/ Reject \/ Drain

Spec == Init /\ [][Next]_vars

-----------------------------------------------------------------------------

Entries == [score : Score, document_id : Nat]

(* Types; the limit is never zero.                                         *)
TypeOK == /\ top_k \in Nat \ {0}
          /\ scores \in Seq(Score)
          /\ next \in 1..Len(scores) + 1
          /\ heap \in SUBSET Entries /\ IsFiniteSet(heap)
          /\ ordered \in Seq(Entries)
          /\ done \in BOOLEAN

(* The heap holds the best of the candidates seen so far: as many as there *)
(* are, up to top_k, and none that was rejected or dropped scores higher   *)
(* than one that was kept.  What is dropped is never looked at again, so   *)
(* one wrong pop loses a result for good.                                  *)
HeapHoldsBest ==
    ~done => /\ heap \subseteq {EntryOf(i) : i \in 1..next - 1}
             /\ Cardinality(heap) = IF next - 1 < top_k THEN next - 1 ELSE top_k
             /\ \A i \in 1..next - 1 :
                   EntryOf(i) \notin heap => \A e \in heap : scores[i] <= e.score

(* The answer is the best top_k candidates, each once, best first and ties *)
(* by document id; nothing left out scores higher than anything listed.    *)
AnswerIsBest ==
    done => /\ Len(ordered) = IF Len(scores) < top_k THEN Len(scores) ELSE top_k
            /\ \A i \in 1..Len(ordered) : \E c \in 1..Len(scores) : ordered[i] = EntryOf(c)
            /\ \A i, j \in 1..Len(ordered) : i < j =>
                  \/ ordered[i].score > ordered[j].score
                  \/ /\ ordered[i].score = ordered[j].score
                     /\ ordered[i].document_id < ordered[j].document_id
            /\ \A c \in 1..Len(scores) :
                  EntryOf(c) \notin Range(ordered) =>
                     \A i \in 1..Len(ordered) : scores[c] <= ordered[i].score

(* "top_k <= 100" (README.md:151): whatever is asked for, no answer lists  *)
(* more than max_top_k results, if the default is no more than that.  (The *)
(* code clamps first and puts the default in for zero afterwards.)         *)
AnswerWithinLimit == Len(ordered) <= MaxTopK
=============================================================================
