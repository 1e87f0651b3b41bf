----------------------------- MODULE QueryText -----------------------------
(***************************************************************************)
(* From text to terms, twice: a document goes through the tokenizer and    *)
(* the normalizer (src/tokenizer.cpp, src/normalizer.cpp), a query through *)
(* the lexer of src/parser.cpp and the same normalizer.                    *)
(*                                                                         *)
(* Text is a sequence of chunks: runs of letters and single other bytes.   *)
(* A word is a run of chunks without a separator ("cats-the").             *)
(***************************************************************************)
EXTENDS Naturals, Sequences, FiniteSets, SequencesExt

VARIABLE text   \* the query, or the text of a document

WordChunks == {"cat", "cats", "the", "and", "or", "not"}
AllChunks  == WordChunks \cup {" ", "-", "(", ")", "quote"}

StopWords == {<<"the">>, <<"and">>, <<"or">>, <<"not">>}

-----------------------------------------------------------------------------
(* Tokenizer and normalizer.                                               *)

is_word_byte(c) == c \in WordChunks

NoTerm == << >>

\* The suffix rules, of which "documents -> document" is kept.
stem(word) == [word EXCEPT ![Len(word)] = IF @ = "cats" THEN "cat" ELSE @]

normalize(word) == IF word = << >> \/ word \in StopWords THEN NoTerm ELSE stem(word)

\* Where the word that begins at p ends, if the text ends at `to`.
RunEnd(p, to) == CHOOSE q \in p..to + 1 : /\ q = to + 1 \/ ~is_word_byte(text[q])
                                          /\ \A r \in p..q - 1 : is_word_byte(text[r])

\* The text of the word that begins at p.
Run(p, to) == SubSeq(text, p, RunEnd(p, to) - 1)

\* Mutant: a word at the end of the text is forgotten.
TokenizeDropsLast(words, p, to) ==
    IF p > to THEN << >>
    ELSE IF is_word_byte(text[p])
    THEN (IF RunEnd(p, to) > to THEN << >> ELSE <<Run(p, to)>>) \o words[<<RunEnd(p, to), to>>]
    ELSE words[<<p + 1, to>>]

\* The words of the text p..to, if words[<<q, to>>] are those from a later q: the
\* maximal runs of word bytes.
TokenizeFrom(words, p, to) ==
    IF p > to THEN << >>
    ELSE IF is_word_byte(text[p])
    THEN <<Run(p, to)>> \o words[<<RunEnd(p, to), to>>]
    ELSE words[<<p + 1, to>>]

Words[r \in (1..Len(text) + 1) \X (0..Len(text))] == TokenizeFrom(Words, r[1], r[2])

tokenize(from, to) == Words[<<from, to>>]

normalize_all(words) ==
    FlattenSeq([k \in 1..Len(words) |-> IF normalize(words[k]) = NoTerm THEN << >>
                                        ELSE <<normalize(words[k])>>])

\* The terms of a document, in order.
IndexTerms == normalize_all(tokenize(1, Len(text)))

-----------------------------------------------------------------------------
(* The lexer.  `from` and `to` delimit the text of a token.                *)

EndsWord == {" ", "(", ")", "quote"}

\* The first position from p on with a chunk of S, or the end of the text.
NextIn(S, p) == CHOOSE q \in p..Len(text) + 1 :
                   /\ q = Len(text) + 1 \/ text[q] \in S
                   /\ \A r \in p..q - 1 : text[r] \notin S

Token(type, from, to) == [type |-> type, from |-> from, to |-> to]
Unterminated == Token("ERROR", 0, 0)

\* Where the lexer goes on after a word.  Mutant: behind the byte that ended it.
ResumeBehind(p) == NextIn(EndsWord, p) + 1

ResumeAfter(p) == NextIn(EndsWord, p)

KeywordOrTerm(word) ==
    CASE word = <<"and">> -> "AND"
      [] word = <<"or">>  -> "OR"
      [] word = <<"not">> -> "NOT"
      [] OTHER -> "TERM"

\* Bytes that neither are nor delimit a token.
IsSkipped(c) == ~is_word_byte(c) /\ c \notin {"(", ")", "quote"}

\* The tokens of the text from position p on, if rest[q] are those from a later q;
\* an unterminated phrase throws.
LexFrom(rest, p) ==
    IF p > Len(text) THEN << >> ELSE
    CASE text[p] \in {"(", ")"} -> <<Token(text[p], p, p)>> \o rest[p + 1]
      [] text[p] = "quote" ->
            LET close == NextIn({"quote"}, p + 1)
            IN  IF close > Len(text) THEN <<Unterminated>>
                ELSE <<Token("PHRASE", p, close)>> \o rest[close + 1]
      [] is_word_byte(text[p]) ->
            LET end == NextIn(EndsWord, p) - 1
            IN  <<Token(KeywordOrTerm(SubSeq(text, p, end)), p, end)>> \o rest[ResumeAfter(p)]
      [] IsSkipped(text[p]) -> rest[p + 1]

lex[p \in 1..Len(text) + 2] == LexFrom(lex, p)

Lexed == lex[1]

\* The terms the leaf of a token looks up; parse_primary().
TermsOf(token) ==
    CASE token.type = "TERM"   -> <<normalize(SubSeq(text, token.from, token.to))>>
      [] token.type = "PHRASE" -> normalize_all(tokenize(token.from + 1, token.to - 1))
      [] OTHER -> << >>

QueryTerms == FlattenSeq([k \in 1..Len(Lexed) |-> TermsOf(Lexed[k])])

-----------------------------------------------------------------------------

Accepted == Unterminated \notin {Lexed[k] : k \in 1..Len(Lexed)}

Covered == UNION {Lexed[k].from..Lexed[k].to : k \in 1..Len(Lexed)}

(* The lexer loses nothing that carries meaning: in an accepted query every*)
(* chunk belongs to exactly one token, but for spaces and for punctuation  *)
(* outside words, and the tokens are in the order of the text.             *)
NothingIsLost ==
    Accepted =>
        /\ \A p \in 1..Len(text) \ Covered : text[p] \in {" ", "-"}
        /\ \A k \in 1..Len(Lexed) - 1 : Lexed[k].to < Lexed[k + 1].from

\* Words and phrases only.
OnlyWords == Accepted /\ \A k \in 1..Len(Lexed) : Lexed[k].type \in {"TERM", "PHRASE"}

\* No punctuation inside a word, and no stop word.
IsPlain(token) == /\ \A p \in token.from..token.to : is_word_byte(text[p])
                  /\ normalize(SubSeq(text, token.from, token.to)) # NoTerm

(* "Term/phrase values are normalized with the same Normalizer used at     *)
(* index time, so queries and the index speak the same vocabulary"         *)
(* (parser.h:22-24): a query of words looks up just the terms a document   *)
(* with the same text is indexed under, if its words outside quotes are    *)
(* plain.  (Of others it does not hold: a stop word becomes a term that no *)
(* document has.)  The lexer and the tokenizer cut the text at different   *)
(* bytes; where both agree on a word they agree on its term, and phrases   *)
(* are cut by the tokenizer.                                               *)
PlainWordsShareVocabulary ==
    (OnlyWords /\ \A k \in 1..Len(Lexed) : Lexed[k].type = "TERM" => IsPlain(Lexed[k]))
        => QueryTerms = IndexTerms
=============================================================================
