-------------------------- MODULE QueryEvaluation --------------------------
(***************************************************************************)
(* What a query finds in an index: evaluate() and match_phrase() of        *)
(* src/search_engine.cpp, over the states of InvertedIndex, against what   *)
(* the query says of the words of the stored documents.                    *)
(*                                                                         *)
(* A list of document ids is a set here: every list the code intersects,   *)
(* unites or subtracts was sorted before (evaluate() sorts the leaves).    *)
(***************************************************************************)
EXTENDS InvertedIndex, QueryTree

CONSTANTS NoTerm,    \* what a stop word is normalized to (the empty string)
          MaxPhrase, \* bound: words of a phrase
          Queries,   \* the trees considered: with a tree its operands
          Height     \* of a tree: more than that of its operands

Phrases == UNION {[1..n -> Term] : n \in 1..MaxPhrase}

\* What the operands of a tree are taken from.
Lower(q) == {p \in Queries : Height[p] < Height[q]}

IsTree(q) ==
    \/ \E t \in Term \cup {NoTerm} : q = TermNode(t)
    \/ \E ts \in Phrases : q = PhraseNode(ts)
    \/ \E l, r \in Lower(q) : q = AndNode(l, r) \/ q = OrNode(l, r)
    \/ \E r \in Lower(q) : q = NotNode(r)

ASSUME QueryAssumption ==
    /\ NoTerm \notin Term
    /\ MaxPhrase \in Nat
    /\ Height \in [Queries -> Nat]
    /\ \A q \in Queries : IsTree(q)

-----------------------------------------------------------------------------
(* The code.                                                               *)

DocumentsWith(t) == {p.document_id : p \in PostingsIn(terms, t)}

\* The positions in the posting of t for document i; none if it has no posting.
PositionsIn(t, i) == UNION {p.positions : p \in {q \in PostingsIn(terms, t) : q.document_id = i}}

\* Mutant: all words are looked for at the start of the phrase.
StartsWithoutShift(ts, i) ==
    {s \in PositionsIn(ts[1], i) : \A n \in 2..Len(ts) : s + 1 \in PositionsIn(ts[n], i)}

\* Where the phrase starts in document i: word n stands n - 1 offsets later.
PhraseStarts(ts, i) ==
    {s \in PositionsIn(ts[1], i) : \A n \in 2..Len(ts) : s + n - 1 \in PositionsIn(ts[n], i)}

\* The documents with the phrase, each with the offsets it starts at.
match_phrase(ts) ==
    [i \in {d \in DocumentsWith(ts[1]) : PhraseStarts(ts, d) # {}} |-> PhraseStarts(ts, i)]

\* Mutant: NOT subtracts from all slots ever allocated.
AllSlots == InternalIds

\* all_document_ids(), what NOT subtracts from.
all_document_ids == Live

\* What score_document() passes to the scorer for a leaf and a candidate; a leaf
\* that is not in the document adds nothing.
NoScore == [tf |-> 0, df |-> 0]
Inputs(tf, df) == [tf |-> tf, df |-> df]

\* Mutant: the first posting of the list is taken.
FirstPosting(t, i) == {p \in PostingsIn(terms, t) :
                          \A q \in PostingsIn(terms, t) : p.document_id <= q.document_id}

PostingsOf(t, i) == {p \in PostingsIn(terms, t) : p.document_id = i}

TermInputs(t, i) == IF PostingsOf(t, i) = {} THEN NoScore
                    ELSE Inputs((CHOOSE p \in PostingsOf(t, i) : TRUE).term_frequency,
                                terms[t].document_frequency)

PhraseInputs(ts, i) == IF i \notin DOMAIN match_phrase(ts) THEN NoScore
                       ELSE Inputs(Cardinality(match_phrase(ts)[i]),
                                   Cardinality(DOMAIN match_phrase(ts)))

evaluate[q \in Queries] ==
    CASE q.type = "TERM"   -> DocumentsWith(q.value)
      [] q.type = "PHRASE" -> DOMAIN match_phrase(q.phrase_terms)
      [] q.type = "AND"    -> evaluate[q.left] \cap evaluate[q.right]
      [] q.type = "OR"     -> evaluate[q.left] \cup evaluate[q.right]
      [] q.type = "NOT"    -> all_document_ids \ evaluate[q.right]

-----------------------------------------------------------------------------
(* The reference: what a query says of a document.                         *)

Occurrences(ts, words) ==
    {s \in 1..Len(words) : /\ s + Len(ts) - 1 <= Len(words)
                           /\ \A n \in 1..Len(ts) : words[s + n - 1] = ts[n]}

\* The texts a query is true of.
Satisfying[q \in Queries] ==
    CASE q.type = "TERM"   -> {words \in Words : q.value \in WordsIn(words)}
      [] q.type = "PHRASE" -> {words \in Words : Occurrences(q.phrase_terms, words) # {}}
      [] q.type = "AND"    -> Satisfying[q.left] \cap Satisfying[q.right]
      [] q.type = "OR"     -> Satisfying[q.left] \cup Satisfying[q.right]
      [] q.type = "NOT"    -> Words \ Satisfying[q.right]

(* A query finds exactly the stored documents whose words satisfy it, each *)
(* once and in its latest version.  The postings, the offsets, the         *)
(* tombstones and the id map all have a part in it: evaluate() trusts the  *)
(* lists and never asks whether a slot is live.                            *)
SearchFindsMatches ==
    LET stored == StoreOf
    IN  \A q \in Queries :
            LET found == evaluate[q]
            IN  /\ found \subseteq Live
                /\ {docs[i].id : i \in found} =
                      {id \in DOMAIN stored : stored[id].words \in Satisfying[q]}

(* The offsets match_phrase() returns are the occurrences of the phrase in *)
(* the document: their number is the term frequency, and the number of     *)
(* documents the document frequency, a phrase is scored with.              *)
PhrasesAreOccurrences ==
    \A ts \in Phrases :
        /\ DOMAIN match_phrase(ts) = {i \in Live : Occurrences(ts, WordsOf(i)) # {}}
        /\ \A i \in DOMAIN match_phrase(ts) :
              match_phrase(ts)[i] = Occurrences(ts, WordsOf(i))

(* A document is scored by its own words: the frequencies the scorer is    *)
(* given for a term or a phrase are the number of its occurrences in this  *)
(* version of this document, and the number of stored documents that have  *)
(* any, although one comes from counters kept with the postings, the other *)
(* from a search through them.                                             *)
ScoresCountOccurrences ==
    \A ts \in Phrases, i \in Live :
        LET tf == Cardinality(Occurrences(ts, WordsOf(i)))
            df == Cardinality({d \in Live : Occurrences(ts, WordsOf(d)) # {}})
            expected == IF tf = 0 THEN NoScore ELSE Inputs(tf, df)
        IN  /\ PhraseInputs(ts, i) = expected
            /\ Len(ts) = 1 => TermInputs(ts[1], i) = expected
=============================================================================
