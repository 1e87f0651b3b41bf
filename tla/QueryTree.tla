----------------------------- MODULE QueryTree -----------------------------
(***************************************************************************)
(* The tree the parser builds and the engine evaluates                     *)
(* (include/tinysearch/query.h).                                           *)
(***************************************************************************)

TermNode(term)    == [type |-> "TERM", value |-> term]
PhraseNode(terms) == [type |-> "PHRASE", phrase_terms |-> terms]
AndNode(l, r)     == [type |-> "AND", left |-> l, right |-> r]
OrNode(l, r)      == [type |-> "OR", left |-> l, right |-> r]
NotNode(operand)  == [type |-> "NOT", right |-> operand]

\* Every tree with one operator: a negation of S, or a pair from S and T.
OneOperatorOver(S, T) == {NotNode(q) : q \in S}
                           \cup {AndNode(q[1], q[2]) : q \in S \X T}
                           \cup {OrNode(q[1], q[2]) : q \in S \X T}
=============================================================================
