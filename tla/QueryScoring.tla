---------------------------- MODULE QueryScoring ----------------------------
(***************************************************************************)
(* Which leaves of a query a document is scored by                         *)
(* (collect_scoring_terms() of src/search_engine.cpp), for the tree of     *)
(* every query QueryParser accepts.  A leaf is the position of its token.  *)
(***************************************************************************)
EXTENDS QueryParser, FiniteSets

Leaf(q) == IF q.type = "TERM" THEN q.value ELSE q.phrase_terms

\* What the functions below are defined for: the leaves there are, and every node of
\* a tree of the grammar.
Leaves == {p \in DOMAIN tokens : tokens[p] \in {"TERM", "PHRASE"}}
Nodes  == UNION {Trees[x] : x \in DOMAIN Trees}

\* Mutant: NOT passes the flag on as it is.
ScoresThroughNot(terms, q, negated) ==
    CASE q.type \in {"TERM", "PHRASE"} -> IF negated THEN {} ELSE {Leaf(q)}
      [] q.type = "NOT" -> terms[<<q.right, negated>>]
      [] q.type \in {"AND", "OR"} -> terms[<<q.left, negated>>] \cup terms[<<q.right, negated>>]

\* One call, with what it gets from the calls it makes.
Scores(terms, q, negated) ==
    CASE q.type \in {"TERM", "PHRASE"} -> IF negated THEN {} ELSE {Leaf(q)}
      [] q.type = "NOT" -> terms[<<q.right, ~negated>>]
      [] q.type \in {"AND", "OR"} -> terms[<<q.left, negated>>] \cup terms[<<q.right, negated>>]

ScoringTerms[c \in Nodes \X BOOLEAN] == Scores(ScoringTerms, c[1], c[2])

collect_scoring_terms(q, negated) == ScoringTerms[<<q, negated>>]

\* The sets S of leaves such that a query matches a document of which just those in S
\* hold, if `matching` says so of the operands.
Matches(matching, q) ==
    CASE q.type \in {"TERM", "PHRASE"} -> {S \in SUBSET Leaves : Leaf(q) \in S}
      [] q.type = "NOT" -> (SUBSET Leaves) \ matching[q.right]
      [] q.type = "AND" -> matching[q.left] \cap matching[q.right]
      [] q.type = "OR"  -> matching[q.left] \cup matching[q.right]

Matching[q \in Nodes] == Matches(Matching, q)

-----------------------------------------------------------------------------

\* The NOTs a leaf stands under: their operands reach to its position or beyond.
NotsOver(p) == {i \in DOMAIN tokens :
                   /\ tokens[i] = "NOT" /\ i < p
                   /\ \E j \in p..Len(tokens) : NotTrees(Trees, i, j) # {}}

(* A document is scored by what makes it match, and by nothing that stands *)
(* in the way: finding one more scored leaf in a document never loses the  *)
(* match; finding one more of the others never wins it, unless it stands   *)
(* under more than one NOT.  Those the code may score, and                 *)
(* search_engine.h:99 says it does not: see NothingUnderNotScores.         *)
ScoredLeavesHelp ==
    parse # Error =>
        LET matching == Matching[parse.node]
            scored   == collect_scoring_terms(parse.node, FALSE)
        IN  \A p \in Leaves, S \in SUBSET Leaves :
               IF p \in scored THEN S \in matching => S \cup {p} \in matching
               ELSE Cardinality(NotsOver(p)) < 2 =>
                       (S \cup {p} \in matching => S \in matching)

(* A document is scored by "every TERM/PHRASE reachable without crossing a *)
(* NOT" (search_engine.h:99-100): by none that stands under one.           *)
NothingUnderNotScores ==
    parse # Error => \A p \in collect_scoring_terms(parse.node, FALSE) : NotsOver(p) = {}
=============================================================================
