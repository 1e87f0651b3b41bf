------------------------- MODULE MCQueryEvaluation -------------------------
(* QueryEvaluation over every index of two documents and two terms.        *)
EXTENDS QueryEvaluation, TLC

TermLeaves == {TermNode(t) : t \in Term \cup {NoTerm}}
Excluded   == {NotNode(t) : t \in TermLeaves}

\* Bound: terms, phrases of up to two words, trees of one operator over terms, the
\* right one of which may be excluded, and double negations.
MCQueries == TermLeaves
             \cup {PhraseNode(ts) : ts \in {p \in Phrases : Len(p) <= 2}}
             \cup OneOperatorOver(TermLeaves, TermLeaves \cup Excluded)
             \cup {NotNode(q) : q \in Excluded}

MCHeight[q \in MCQueries] ==
    CASE q.type \in {"TERM", "PHRASE"} -> 0
      [] q.type = "NOT"               -> MCHeight[q.right] + 1
      [] q.type \in {"AND", "OR"}     -> Max({MCHeight[q.left], MCHeight[q.right]}) + 1

Symmetry == Permutations(StableId) \cup Permutations(Term) \cup Permutations(Info)
=============================================================================
