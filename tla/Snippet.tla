------------------------------ MODULE Snippet ------------------------------
(***************************************************************************)
(* The excerpt shown with a result (src/snippet.cpp): a window around the  *)
(* earliest occurrence of a query word, drawn in to whole words, with one  *)
(* word between <mark> and </mark>.                                        *)
(*                                                                         *)
(* Positions are the code's, from 0 to the size of the text.  Marks and    *)
(* ellipses are single symbols.                                            *)
(***************************************************************************)
EXTENDS Integers, Sequences, SequencesExt, FiniteSetsExt

CONSTANTS Char,          \* bytes of a text
          Space,         \* those isspace() accepts
          to_lower(_),   \* std::tolower
          WordLists,     \* what Tokenizer::tokenize makes of queries
          ContextChars,  \* context_chars_
          MaxText        \* bound: bytes of a text

\* What the excerpt has that the text has not.
Decoration == {"<mark>", "</mark>", "..."}

ASSUME SnippetAssumption ==
    /\ Space \subseteq Char /\ Char \cap Decoration = {}
    /\ \A c \in Char : to_lower(c) \in Space <=> c \in Space
    /\ \A ws \in WordLists : Len(ws) \in Nat /\ \A i \in 1..Len(ws) :
          Len(ws[i]) \in Nat \ {0} /\ \A j \in 1..Len(ws[i]) : to_lower(ws[i][j]) \notin Space
    /\ ContextChars \in Nat \ {0}
    /\ MaxText \in Nat

VARIABLES content,  \* the text of the file
          words     \* the words of the query, as they were typed

snippetVars == <<content, words>>

size     == Len(content)
Byte(p)  == content[p + 1]
IsBreak(p) == Byte(p) \in Space

Lower(s) == [i \in 1..Len(s) |-> to_lower(s[i])]

-----------------------------------------------------------------------------

\* Where w is in s; std::string::find returns the first of these.
Finds(s, w) == {p \in 0..Len(s) : /\ p + Len(w) <= Len(s)
                                  /\ \A i \in 1..Len(w) : s[p + i] = w[i]}

\* The query words that are in s, each with the first place.
FirstPlaces(s) ==
    LET hits == {i \in 1..Len(words) : Finds(Lower(s), Lower(words[i])) # {}}
    IN  [i \in hits |-> Min(Finds(Lower(s), Lower(words[i])))]

\* The earliest match; of the words that begin there, the first of the query.
NoMatch == [found |-> FALSE, pos |-> 0, len |-> 0]
Best == LET place == FirstPlaces(content)
            pos   == Min({place[i] : i \in DOMAIN place})
            word  == Min({i \in DOMAIN place : place[i] = pos})
        IN  IF DOMAIN place = {} THEN NoMatch
            ELSE [found |-> TRUE, pos |-> pos, len |-> Len(words[word])]

\* The ends of the window are drawn in to spaces, where the text goes on.
\* Mutant: the end is left where it is.
CutAnywhere(from, to) == to

SnapForward(from) == IF from = 0 THEN 0
                     ELSE Min({p \in from..size : p = size \/ IsBreak(p)})

SnapBack(from, to) == IF to < size /\ to > from
                      THEN Max({p \in from..to : p = from \/ IsBreak(p)})
                      ELSE to

\* ContextChars before the match and after it; the beginning of the text if
\* nothing is left of that.
Window(best) ==
    LET left  == IF best.pos > ContextChars THEN best.pos - ContextChars ELSE 0
        right == Min({size, left + 2 * ContextChars + best.len})
        start == SnapForward(left)
        end   == SnapBack(start, right)
    IN  IF start >= end THEN [start |-> 0, end |-> Min({size, 2 * ContextChars})]
        ELSE [start |-> start, end |-> end]

Excerpt(window) == SubSeq(content, window.start + 1, window.end)

\* Mutant: <mark> goes in first, and </mark> where the word no longer ends.
OpenFirst(s, from, len) == InsertAt(InsertAt(s, from + 1, "<mark>"), from + len + 1, "</mark>")

\* </mark> goes in first, so that the place of <mark> is still right.
Mark(s, from, len) == InsertAt(InsertAt(s, from + len + 1, "</mark>"), from + 1, "<mark>")

\* The first query word that is in the excerpt is marked where it is first.
Highlighted(excerpt, best) ==
    LET place == FirstPlaces(excerpt)
        word  == Min(DOMAIN place)
    IN  IF ~best.found \/ DOMAIN place = {} THEN excerpt
        ELSE Mark(excerpt, place[word], Len(words[word]))

Ellipsis(there) == IF there THEN <<"...">> ELSE << >>

generate == LET best   == Best
                window == Window(best)
            IN  IF content = << >> THEN << >>
                ELSE Ellipsis(window.start > 0) \o Highlighted(Excerpt(window), best)
                        \o Ellipsis(window.end < size)

-----------------------------------------------------------------------------

SnippetInit == content = << >> /\ words \in WordLists

\* Files hold any text.
Write == /\ size < MaxText
         /\ \E c \in Char : content' = Append(content, c)
         /\ UNCHANGED words

SnippetSpec == SnippetInit /\ [][Write]_snippetVars

-----------------------------------------------------------------------------

\* No word of the text is longer than the context on one side.
WordsAreShort == \A p \in 0..size : p + ContextChars < size =>
                     \E q \in p..p + ContextChars : IsBreak(q)

(* A result shows why it was found: if a query word is in the text, and no *)
(* word of the text is longer than the context, the excerpt has the whole  *)
(* earliest match, and it begins and ends between words ("so we don't cut  *)
(* a word in half", snippet.cpp:48).  A longer word makes the window empty *)
(* or cuts the match off: then the beginning of the text is shown.         *)
MatchIsShown ==
    LET best   == Best
        window == Window(best)
    IN  best.found /\ WordsAreShort =>
           /\ window.start <= best.pos /\ best.pos + best.len <= window.end
           /\ window.start = 0 \/ IsBreak(window.start)
           /\ window.end = size \/ IsBreak(window.end)

Places(s, mark) == {i \in 1..Len(s) : s[i] = mark}

Rank(i, S) == Cardinality({j \in S : j <= i})

\* What is left of s without its decoration is the text, in order.
Decorates(s, text) ==
    LET kept == {i \in 1..Len(s) : s[i] \notin Decoration}
    IN  /\ Cardinality(kept) = Len(text)
        /\ \A i \in kept : s[i] = text[Rank(i, kept)]

(* What is shown is what the file says: without the marks it is a piece of *)
(* the text, dots stand just for what is left out, and if the text has a   *)
(* match, and no word too long for the window, a word of the query is      *)
(* between the marks, in whatever case the file has it.                    *)
MarksEncloseAWord ==
    LET best   == Best
        window == Window(best)
        shown  == generate
        opened == Places(shown, "<mark>")
        closed == Places(shown, "</mark>")
    IN  content # << >> =>
           /\ Decorates(shown, Excerpt(window))
           /\ shown[1] = "..." <=> window.start > 0
           /\ shown[Len(shown)] = "..." <=> window.end < size
           /\ best.found /\ WordsAreShort => opened # {}
           /\ opened = {} <=> closed = {}
           /\ \A a \in opened, b \in closed : \E i \in 1..Len(words) :
                 Lower(SubSeq(shown, a + 1, b - 1)) = Lower(words[i])
=============================================================================
