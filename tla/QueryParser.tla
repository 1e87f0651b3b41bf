---------------------------- MODULE QueryParser ----------------------------
(***************************************************************************)
(* The recursive descent of src/parser.cpp, and the grammar that parser.h  *)
(* states.                                                                 *)
(*                                                                         *)
(* A token is its kind.  A leaf of the tree is the position of its token,  *)
(* which stands for the normalized text.  An exception is one result,      *)
(* Error: its message is left out.                                         *)
(***************************************************************************)
EXTENDS Naturals, Sequences, QueryTree

VARIABLE tokens   \* what lex() made of the query, without END

\* BAD_PHRASE: a phrase with no searchable term or with too many.
Kinds == {"TERM", "PHRASE", "BAD_PHRASE", "AND", "OR", "NOT", "(", ")"}

Kind(p) == IF p \in DOMAIN tokens THEN tokens[p] ELSE "END"

-----------------------------------------------------------------------------
(* The code.  A function at position p returns its node and the position   *)
(* it stopped at.                                                          *)

Parsed(node, pos) == [node |-> node, pos |-> pos]
Error             == [node |-> << >>, pos |-> 0]

starts_primary(kind) == kind \in {"TERM", "PHRASE", "BAD_PHRASE", "(", "NOT"}

\* The functions call each other.  They are the values of one recursive function,
\* called `calls` below, for their name, the position they begin at and, if they
\* have a loop, the number of its rounds; no loop has more rounds than tokens.
parse_or(calls, p)  == calls[<<"or", p, Len(tokens)>>]
parse_and(calls, p) == calls[<<"and", p, Len(tokens)>>]
parse_not(calls, p) == calls[<<"not", p, 0>>]

parse_primary(calls, p) ==
    CASE Kind(p) = "TERM"   -> Parsed(TermNode(p), p + 1)
      [] Kind(p) = "PHRASE" -> Parsed(PhraseNode(p), p + 1)
      [] Kind(p) = "("      -> LET inner == parse_or(calls, p + 1)
                               IN  IF inner # Error /\ Kind(inner.pos) = ")"
                                   THEN Parsed(inner.node, inner.pos + 1)
                                   ELSE Error
      [] Kind(p) \notin {"TERM", "PHRASE", "("} -> Error

\* Mutant: NOT takes everything up to the next OR.
NotTakesAll(calls, p) ==
    IF Kind(p) = "NOT"
    THEN LET operand == parse_and(calls, p + 1)
         IN  IF operand = Error THEN Error ELSE Parsed(NotNode(operand.node), operand.pos)
    ELSE parse_primary(calls, p)

\* The body of parse_not().
NotBody(calls, p) ==
    IF Kind(p) = "NOT"
    THEN LET operand == parse_not(calls, p + 1)
         IN  IF starts_primary(Kind(p + 1)) /\ operand # Error
             THEN Parsed(NotNode(operand.node), operand.pos)
             ELSE Error
    ELSE parse_primary(calls, p)

\* A round of the loop of parse_and() with what it has parsed so far; a loop that
\* has ended stays as it is.
AndRound(calls, left) ==
    LET explicit == Kind(left.pos) = "AND"
        start    == IF explicit THEN left.pos + 1 ELSE left.pos
        right    == parse_not(calls, start)
    IN  IF left = Error THEN Error
        ELSE IF starts_primary(Kind(start))
        THEN IF right = Error THEN Error
             ELSE Parsed(AndNode(left.node, right.node), right.pos)
        ELSE IF explicit THEN Error ELSE left

\* A round of the loop of parse_or().
OrRound(calls, left) ==
    LET right == parse_and(calls, left.pos + 1)
    IN  IF left = Error THEN Error
        ELSE IF Kind(left.pos) # "OR" THEN left
        ELSE IF ~starts_primary(Kind(left.pos + 1)) \/ right = Error THEN Error
        ELSE Parsed(OrNode(left.node, right.node), right.pos)

Body(calls, name, p, rounds) ==
    CASE name = "not" -> NotBody(calls, p)
      [] name = "and" -> IF rounds = 0 THEN parse_not(calls, p)
                         ELSE AndRound(calls, calls[<<"and", p, rounds - 1>>])
      [] name = "or"  -> IF rounds = 0 THEN parse_and(calls, p)
                         ELSE OrRound(calls, calls[<<"or", p, rounds - 1>>])

Calls[c \in {"not", "and", "or"} \X (1..Len(tokens) + 1) \X (0..Len(tokens))] ==
    Body(Calls, c[1], c[2], c[3])

\* All tokens must be consumed.
parse == LET ast == parse_or(Calls, 1)
         IN  IF Kind(ast.pos) = "END" THEN ast ELSE Error

-----------------------------------------------------------------------------
(* The grammar, parser.h:17-20: the trees of tokens i..j.  Both operators  *)
(* associate to the left.                                                  *)

\* As above, one function for all symbols: `trees`.
OrTrees(trees, i, j)  == trees[<<"or", i, j>>]
AndTrees(trees, i, j) == trees[<<"and", i, j>>]
NotTrees(trees, i, j) == trees[<<"not", i, j>>]

Primaries(trees, i, j) ==
    (IF i = j /\ tokens[i] = "TERM" THEN {TermNode(i)} ELSE {})
    \cup (IF i = j /\ tokens[i] = "PHRASE" THEN {PhraseNode(i)} ELSE {})
    \cup (IF i < j /\ tokens[i] = "(" /\ tokens[j] = ")" THEN OrTrees(trees, i + 1, j - 1) ELSE {})

NotExpr(trees, i, j) ==
    Primaries(trees, i, j)
    \cup (IF i < j /\ tokens[i] = "NOT" THEN {NotNode(t) : t \in NotTrees(trees, i + 1, j)} ELSE {})

AndExpr(trees, i, j) ==
    NotTrees(trees, i, j)
    \cup (UNION {{AndNode(l, r) : l \in AndTrees(trees, i, k - 1), r \in NotTrees(trees, k, j)} :
                   k \in {n \in i + 1..j : NotTrees(trees, n, j) # {}}})
    \cup (UNION {{AndNode(l, r) : l \in AndTrees(trees, i, k - 1), r \in NotTrees(trees, k + 1, j)} :
                   k \in {n \in i + 1..j - 1 : tokens[n] = "AND"}})

OrExpr(trees, i, j) ==
    AndTrees(trees, i, j)
    \cup (UNION {{OrNode(l, r) : l \in OrTrees(trees, i, k - 1), r \in AndTrees(trees, k + 1, j)} :
                   k \in {n \in i + 1..j - 1 : tokens[n] = "OR"}})

Expr(trees, symbol, i, j) ==
    CASE symbol = "not" -> NotExpr(trees, i, j)
      [] symbol = "and" -> AndExpr(trees, i, j)
      [] symbol = "or"  -> OrExpr(trees, i, j)

Trees[x \in {"not", "and", "or"} \X (1..Len(tokens) + 1) \X (0..Len(tokens))] ==
    Expr(Trees, x[1], x[2], x[3])

-----------------------------------------------------------------------------
(* The parser accepts exactly the queries of the grammar, and the tree it  *)
(* builds is the only one the grammar gives: precedence, parentheses and   *)
(* implicit AND leave no query with two readings, and the look-ahead of    *)
(* starts_primary() refuses nothing it should not.                         *)
ParserFollowsGrammar ==
    OrTrees(Trees, 1, Len(tokens)) = IF parse = Error THEN {} ELSE {parse.node}
=============================================================================
