------------------------ MODULE QueryFrontEndProofs ------------------------
(***************************************************************************)
(* The front end for queries of any length: the lexer loses nothing that   *)
(* carries meaning, the parser accepts the language of the grammar and     *)
(* builds the only tree there is, the leaves that score are those that     *)
(* stand under an even number of NOTs, and a query of plain words and      *)
(* phrases looks up the terms a document of the same text is indexed under.*)
(*                                                                         *)
(* The functions of the code call each other; here they are recursive      *)
(* functions, and a function obeys its equation only if the equation has a *)
(* solution.  The argument is the same for the lexer, the tokenizer, the   *)
(* descent and the trees of the grammar: the equation for an argument is   *)
(* local, it asks only for arguments that come later in some order, so a   *)
(* solution for the later ones can be extended to it.                      *)
(***************************************************************************)
EXTENDS QueryFrontEnd, WellFoundedInduction, SequenceTheorems, TLAPS

\* Induction over the numbers: of the counterexamples one is least.
LEMMA LeastNumber ==
    ASSUME NEW T, T \subseteq Nat, T # {}
    PROVE  \E m \in T : \A k \in T : m <= k
<1> DEFINE R == OpToRel(<, Nat)
<1>1. \E x \in T : \A y \in T : ~ (<<y, x>> \in R)
  <2>1. IsWellFoundedOn(R, Nat)
    BY NatLessThanWellFounded
  <2> HIDE DEF R
  <2> QED BY <2>1, WFMin
<1>2. \A x, y \in Nat : <<y, x>> \in R <=> y < x
  BY DEF OpToRel
<1> HIDE DEF R
<1>3. PICK x \in T : \A y \in T : ~ (<<y, x>> \in R)
  BY <1>1
<1>4. \A y \in T : x <= y
  <2> TAKE y \in T
  <2>1. x \in Nat /\ y \in Nat /\ ~(y < x)
    BY <1>2, <1>3
  <2> QED BY <2>1
<1> QED
  BY <1>3, <1>4

\* Of the counterexamples up to n one is greatest: induction from the end of a
\* sequence to its beginning.
LEMMA GreatestNumber ==
    ASSUME NEW n \in Nat, NEW T, T \subseteq 0..n, T # {}
    PROVE  \E m \in T : \A k \in T : k <= m
<1> DEFINE U == {n - k : k \in T}
<1>1. U \subseteq Nat /\ U # {}
  <2>1. \A k \in T : k \in 0..n /\ n - k \in Nat
    OBVIOUS
  <2> QED BY <2>1
<1>2. PICK u \in U : \A v \in U : u <= v
  <2> HIDE DEF U
  <2> QED BY <1>1, LeastNumber
<1>3. PICK m \in T : u = n - m
  BY <1>2
<1>4. ASSUME NEW k \in T PROVE k <= m
  <2>1. n - k \in U
    OBVIOUS
  <2>2. n - m <= n - k /\ k \in 0..n /\ m \in 0..n
    BY <1>2, <1>3, <2>1
  <2> QED BY <2>2
<1> QED
  BY <1>4

-----------------------------------------------------------------------------
(* The lexer.                                                              *)

TextOK == text \in Seq(AllChunks)

LEMMA TextLen == TextOK => Len(text) \in Nat
  BY DEF TextOK

\* NextIn() finds the first chunk of S.
LEMMA NextInFinds ==
    ASSUME TextOK, NEW S, NEW p \in 1..Len(text) + 1
    PROVE  /\ NextIn(S, p) \in p..Len(text) + 1
           /\ NextIn(S, p) # Len(text) + 1 => text[NextIn(S, p)] \in S
           /\ \A r \in p..NextIn(S, p) - 1 : text[r] \notin S
<1>1. Len(text) \in Nat
  BY TextLen
<1> DEFINE T == {q \in p..Len(text) + 1 : q = Len(text) + 1 \/ text[q] \in S}
<1>2. T \subseteq Nat /\ Len(text) + 1 \in T
  BY <1>1
<1>3. PICK q \in T : \A r \in T : q <= r
  <2> HIDE DEF T
  <2> QED BY <1>2, LeastNumber
<1>4. \A r \in p..q - 1 : text[r] \notin S
  BY <1>1, <1>3
<1>5. \E t \in p..Len(text) + 1 : /\ t = Len(text) + 1 \/ text[t] \in S
                                  /\ \A r \in p..t - 1 : text[r] \notin S
  BY <1>3, <1>4
<1> QED
  BY <1>5 DEF NextIn

\* Where a word ends.
LEMMA WordEnds ==
    ASSUME TextOK, NEW p \in 1..Len(text), is_word_byte(text[p])
    PROVE  NextIn(EndsWord, p) \in p + 1..Len(text) + 1
<1>1. Len(text) \in Nat /\ text[p] \notin EndsWord
  <2>1. Len(text) \in Nat
    BY DEF TextOK
  <2>2. text[p] \notin EndsWord
    BY DEF is_word_byte, WordChunks, EndsWord
  <2> QED BY <2>1, <2>2
<1> DEFINE e == NextIn(EndsWord, p)
<1>2. e \in p..Len(text) + 1 /\ (e # Len(text) + 1 => text[e] \in EndsWord)
  BY <1>1, NextInFinds
<1>3. e # p
  BY <1>1, <1>2
<1> HIDE DEF e
<1>4. e \in p + 1..Len(text) + 1
  BY <1>1, <1>2, <1>3
<1> QED
  BY <1>4 DEF e

\* Where a phrase ends.
LEMMA PhraseEnds ==
    ASSUME TextOK, NEW p \in 1..Len(text)
    PROVE  /\ NextIn({"quote"}, p + 1) \in p + 1..Len(text) + 1
           /\ NextIn({"quote"}, p + 1) <= Len(text) => text[NextIn({"quote"}, p + 1)] = "quote"
<1>1. Len(text) \in Nat /\ p + 1 \in 1..Len(text) + 1
  BY DEF TextOK
<1> QED
  BY <1>1, NextInFinds

\* The rule, kind by kind.
LEMMA LexFromCases ==
    ASSUME NEW f, NEW p \in 1..Len(text)
    PROVE  /\ \/ text[p] \in {"(", ")"} \/ text[p] = "quote"
              \/ is_word_byte(text[p]) \/ IsSkipped(text[p])
           /\ text[p] \in {"(", ")"} => LexFrom(f, p) = <<Token(text[p], p, p)>> \o f[p + 1]
           /\ text[p] = "quote" =>
                 LexFrom(f, p) = IF NextIn({"quote"}, p + 1) > Len(text) THEN <<Unterminated>>
                                 ELSE <<Token("PHRASE", p, NextIn({"quote"}, p + 1))>>
                                         \o f[NextIn({"quote"}, p + 1) + 1]
           /\ is_word_byte(text[p]) =>
                 LexFrom(f, p) = <<Token(KeywordOrTerm(SubSeq(text, p, NextIn(EndsWord, p) - 1)),
                                         p, NextIn(EndsWord, p) - 1)>>
                                    \o f[NextIn(EndsWord, p)]
           /\ IsSkipped(text[p]) => LexFrom(f, p) = f[p + 1]
<1>1. ~(p > Len(text))
  OBVIOUS
<1>2. ASSUME text[p] \in {"(", ")"} PROVE text[p] # "quote" /\ ~is_word_byte(text[p])
  BY <1>2 DEF is_word_byte, WordChunks
<1>3. ASSUME text[p] = "quote" PROVE text[p] \notin {"(", ")"} /\ ~is_word_byte(text[p])
  BY <1>3 DEF is_word_byte, WordChunks
<1> HIDE DEF is_word_byte
<1>4. CASE text[p] \in {"(", ")"}
  BY <1>1, <1>2, <1>4, Zenon DEF LexFrom, IsSkipped
<1>5. CASE text[p] = "quote"
  BY <1>1, <1>3, <1>5, Zenon DEF LexFrom, IsSkipped
<1>6. CASE is_word_byte(text[p])
  BY <1>1, <1>2, <1>3, <1>6, Zenon DEF LexFrom, IsSkipped, ResumeAfter
<1>7. CASE IsSkipped(text[p])
  BY <1>1, <1>2, <1>3, <1>7, Zenon DEF LexFrom, IsSkipped
<1> QED
  BY <1>2, <1>3, <1>4, <1>5, <1>6, <1>7, Zenon DEF IsSkipped

LEMMA LexFromIsLocal ==
    ASSUME TextOK, NEW f, NEW g, NEW p \in 1..Len(text) + 2,
           \A q \in p + 1..Len(text) + 2 : f[q] = g[q]
    PROVE  LexFrom(f, p) = LexFrom(g, p)
<1>1. Len(text) \in Nat
  BY TextLen
<1>2. CASE p > Len(text)
  BY <1>2, Zenon DEF LexFrom
<1>3. CASE p \in 1..Len(text)
  <2>1. f[p + 1] = g[p + 1]
    BY <1>1, <1>3
  <2>2. f[NextIn({"quote"}, p + 1) + 1] = g[NextIn({"quote"}, p + 1) + 1]
    BY <1>1, <1>3, PhraseEnds
  <2>3. is_word_byte(text[p]) => f[NextIn(EndsWord, p)] = g[NextIn(EndsWord, p)]
    BY <1>1, <1>3, WordEnds
  <2>4. CASE text[p] \in {"(", ")"}
    <3>1. /\ LexFrom(f, p) = <<Token(text[p], p, p)>> \o f[p + 1]
          /\ LexFrom(g, p) = <<Token(text[p], p, p)>> \o g[p + 1]
      BY <1>3, <2>4, LexFromCases, Zenon
    <3> QED BY <2>1, <3>1, Zenon
  <2>5. CASE text[p] = "quote"
    <3> DEFINE close == NextIn({"quote"}, p + 1)
               Phrase(h) == IF close > Len(text) THEN <<Unterminated>>
                            ELSE <<Token("PHRASE", p, close)>> \o h[close + 1]
    <3>1. LexFrom(f, p) = Phrase(f) /\ LexFrom(g, p) = Phrase(g)
      BY <1>3, <2>5, LexFromCases, Zenon
    <3>2. f[close + 1] = g[close + 1]
      BY <2>2
    <3> HIDE DEF close
    <3>3. Phrase(f) = Phrase(g)
      BY <3>2, Zenon
    <3> HIDE DEF Phrase
    <3> QED BY <3>1, <3>3, Zenon
  <2>6. CASE is_word_byte(text[p])
    <3> DEFINE end == NextIn(EndsWord, p)
               Word(h) == <<Token(KeywordOrTerm(SubSeq(text, p, end - 1)), p, end - 1)>> \o h[end]
    <3>1. LexFrom(f, p) = Word(f) /\ LexFrom(g, p) = Word(g)
      BY <1>3, <2>6, LexFromCases, Zenon
    <3> QED BY <2>3, <2>6, <3>1, Zenon
  <2>7. CASE IsSkipped(text[p])
    <3>1. LexFrom(f, p) = f[p + 1] /\ LexFrom(g, p) = g[p + 1]
      BY <1>3, <2>7, LexFromCases, Zenon
    <3> QED BY <2>1, <3>1, Zenon
  <2> QED BY <1>3, <2>4, <2>5, <2>6, <2>7, LexFromCases
<1> QED
  BY <1>1, <1>2, <1>3

\* The recursion has a solution on the last n + 1 positions.
LEMMA LexingsExist ==
    ASSUME TextOK, NEW n \in 0..Len(text) + 1
    PROVE  \E f : \A q \in Len(text) + 2 - n..Len(text) + 2 : f[q] = LexFrom(f, q)
<1>1. Len(text) \in Nat
  BY TextLen
<1> DEFINE L    == Len(text) + 2
           T    == {k \in 0..Len(text) + 1 :
                      ~ \E f : \A q \in L - k..L : f[q] = LexFrom(f, q)}
<1> SUFFICES ASSUME T # {} PROVE FALSE
  OBVIOUS
<1>2. PICK k \in T : \A j \in T : k <= j
  <2>1. T \subseteq Nat
    BY <1>1
  <2> HIDE DEF T
  <2> QED BY <2>1, LeastNumber
<1>3. PICK f : \A q \in L - k + 1..L : f[q] = LexFrom(f, q)
  <2>1. CASE k = 0
    BY <1>1, <2>1
  <2>2. CASE k # 0
    <3>1. k - 1 \in 0..Len(text) + 1 /\ L - (k - 1) = L - k + 1 /\ ~(k <= k - 1)
      BY <1>1, <2>2
    <3>2. k - 1 \notin T
      BY <1>2, <3>1
    <3> QED BY <3>1, <3>2
  <2> QED BY <2>1, <2>2
<1> DEFINE g == [q \in L - k..L |-> IF q = L - k THEN LexFrom(f, q) ELSE f[q]]
<1>4. k \in 0..Len(text) + 1 /\ L - k \in 1..L
  BY <1>1
<1>5. ASSUME NEW q \in L - k..L PROVE g[q] = LexFrom(g, q)
  <2>1. \A r \in q + 1..L : f[r] = g[r]
    BY <1>1, <1>4, SMTT(30)
  <2>2. LexFrom(f, q) = LexFrom(g, q)
    <3>1. q \in 1..Len(text) + 2
      BY <1>1, <1>4
    <3> HIDE DEF g
    <3> QED BY <2>1, <3>1, LexFromIsLocal
  <2>3. g[q] = LexFrom(f, q)
    BY <1>1, <1>3, <1>4
  <2> QED BY <2>2, <2>3
<1> HIDE DEF g
<1> QED BY <1>2, <1>5

\* So lex obeys it.
LEMMA LexObeys ==
    ASSUME TextOK, NEW p \in 1..Len(text) + 2
    PROVE  lex[p] = LexFrom(lex, p)
<1>1. Len(text) \in Nat
  BY TextLen
<1> DEFINE L == Len(text) + 2
<1>2. PICK f : \A q \in 1..L : f[q] = LexFrom(f, q)
  <2>1. Len(text) + 1 \in 0..Len(text) + 1 /\ L - (Len(text) + 1) = 1
    BY <1>1
  <2> QED BY <2>1, LexingsExist
<1> DEFINE h == [q \in 1..L |-> f[q]]
<1>3. ASSUME NEW q \in 1..L PROVE h[q] = LexFrom(h, q)
  <2>1. \A r \in q + 1..L : f[r] = h[r]
    BY <1>1
  <2> HIDE DEF h
  <2>2. LexFrom(f, q) = LexFrom(h, q)
    BY <2>1, LexFromIsLocal
  <2>3. h[q] = f[q]
    BY DEF h
  <2> QED BY <1>2, <2>2, <2>3
<1>4. h = [q \in 1..L |-> LexFrom(h, q)]
  BY <1>3
<1> HIDE DEF h
<1>5. lex = [q \in 1..L |-> LexFrom(lex, q)]
  BY <1>4, Zenon DEF lex
<1> QED
  BY <1>5, Zenon

-----------------------------------------------------------------------------
(* What the lexer leaves out.                                              *)

TokenTypes == {"(", ")", "PHRASE", "AND", "OR", "NOT", "TERM", "ERROR"}
Tokens     == [type : TokenTypes, from : Nat, to : Nat]

Clean(ts) == \A k \in 1..Len(ts) : ts[k] # Unterminated

\* The tokens ts lie in order behind p, and what is in none of them is blank.
Covers(p, ts) ==
    /\ \A k \in 1..Len(ts) : p <= ts[k].from /\ ts[k].from <= ts[k].to /\ ts[k].to <= Len(text)
    /\ \A k \in 1..Len(ts) - 1 : ts[k].to < ts[k + 1].from
    /\ \A q \in p..Len(text) : \/ \E k \in 1..Len(ts) : q \in ts[k].from..ts[k].to
                               \/ text[q] \in {" ", "-"}

Lossless(p, ts) == ts \in Seq(Tokens) /\ (Clean(ts) => Covers(p, ts))

LEMMA Ends ==
    ASSUME NEW ts \in Seq(Tokens)
    PROVE  Len(ts) \in Nat /\ \A k \in 1..Len(ts) : ts[k].from \in Nat /\ ts[k].to \in Nat
<1>1. Len(ts) \in Nat /\ \A k \in 1..Len(ts) : ts[k] \in Tokens
  OBVIOUS
<1> QED
  BY <1>1 DEF Tokens

LEMMA PrependToken ==
    ASSUME TextOK, NEW p \in 1..Len(text), NEW t \in Tokens, t.from = p, t.to \in p..Len(text),
           NEW ts, Lossless(t.to + 1, ts)
    PROVE  Lossless(p, <<t>> \o ts)
<1> DEFINE us == <<t>> \o ts
<1>1. Len(text) \in Nat /\ ts \in Seq(Tokens) /\ Len(ts) \in Nat
  <2>1. ts \in Seq(Tokens)
    BY Zenon DEF Lossless
  <2> QED BY <2>1, TextLen
<1>2. /\ us \in Seq(Tokens) /\ Len(us) = Len(ts) + 1 /\ us[1] = t
      /\ \A k \in 1..Len(ts) : us[k + 1] = ts[k]
  BY <1>1
<1>3. \A k \in 2..Len(us) : k - 1 \in 1..Len(ts) /\ us[k] = ts[k - 1]
  BY <1>1, <1>2
<1> HIDE DEF us
<1> SUFFICES ASSUME Clean(us) PROVE Covers(p, us)
  BY <1>2, Zenon DEF Lossless, us
<1>4. Clean(ts)
  BY <1>1, <1>2 DEF Clean
<1>5. /\ \A k \in 1..Len(ts) : t.to + 1 <= ts[k].from /\ ts[k].from <= ts[k].to
                                 /\ ts[k].to <= Len(text)
      /\ \A k \in 1..Len(ts) - 1 : ts[k].to < ts[k + 1].from
      /\ \A q \in t.to + 1..Len(text) : \/ \E k \in 1..Len(ts) : q \in ts[k].from..ts[k].to
                                        \/ text[q] \in {" ", "-"}
  BY <1>4, Zenon DEF Lossless, Covers
<1>6. \A k \in 1..Len(ts) : ts[k].from \in Nat /\ ts[k].to \in Nat
  BY <1>1, Ends
<1>7. ASSUME NEW k \in 1..Len(us)
      PROVE  p <= us[k].from /\ us[k].from <= us[k].to /\ us[k].to <= Len(text)
  <2>1. CASE k = 1
    BY <1>1, <1>2, <2>1
  <2>2. CASE k # 1
    <3>1. k - 1 \in 1..Len(ts) /\ us[k] = ts[k - 1]
      BY <1>2, <1>3, <2>2
    <3>2. /\ t.to + 1 <= ts[k - 1].from /\ ts[k - 1].from <= ts[k - 1].to
          /\ ts[k - 1].to <= Len(text) /\ ts[k - 1].from \in Nat
      BY <1>5, <1>6, <3>1
    <3> QED BY <1>1, <3>1, <3>2
  <2> QED BY <2>1, <2>2
<1>8. ASSUME NEW k \in 1..Len(us) - 1
      PROVE  us[k].to < us[k + 1].from
  <2>1. k \in 1..Len(ts) /\ us[k + 1] = ts[k]
    BY <1>1, <1>2
  <2>2. CASE k = 1
    <3>1. t.to + 1 <= ts[1].from /\ ts[1].from \in Nat
      BY <1>5, <1>6, <2>1, <2>2
    <3> QED BY <1>1, <1>2, <2>1, <2>2, <3>1
  <2>3. CASE k # 1
    <3>1. k - 1 \in 1..Len(ts) - 1 /\ us[k] = ts[k - 1] /\ k - 1 + 1 = k
      BY <1>1, <1>2, <1>3, <2>1, <2>3
    <3>2. ts[k - 1].to < ts[k - 1 + 1].from
      BY <1>5, <3>1
    <3> QED BY <2>1, <3>1, <3>2
  <2> QED BY <2>2, <2>3
<1>9. ASSUME NEW q \in p..Len(text)
      PROVE  (\E k \in 1..Len(us) : q \in us[k].from..us[k].to) \/ text[q] \in {" ", "-"}
  <2>1. CASE q \in p..t.to
    <3>1. 1 \in 1..Len(us) /\ q \in us[1].from..us[1].to
      BY <1>1, <1>2, <2>1
    <3> QED BY <3>1
  <2>2. CASE q \notin p..t.to
    <3>1. q \in t.to + 1..Len(text)
      BY <1>1, <2>2
    <3>2. CASE text[q] \in {" ", "-"}
      BY <3>2
    <3>3. CASE \E k \in 1..Len(ts) : q \in ts[k].from..ts[k].to
      <4>1. PICK k \in 1..Len(ts) : q \in ts[k].from..ts[k].to
        BY <3>3
      <4>2. k + 1 \in 1..Len(us) /\ us[k + 1] = ts[k]
        BY <1>1, <1>2
      <4> QED BY <4>1, <4>2
    <3> QED BY <1>5, <3>1, <3>2, <3>3
  <2> QED BY <2>1, <2>2
<1> QED
  BY <1>7, <1>8, <1>9 DEF Covers

\* A blank more at the front.
LEMMA PrependBlank ==
    ASSUME TextOK, NEW p \in 1..Len(text), NEW ts
    PROVE  text[p] \in {" ", "-"} /\ Lossless(p + 1, ts) => Lossless(p, ts)
<1>1. \A q \in p..Len(text) : q = p \/ q \in p + 1..Len(text)
  BY TextLen
<1>2. ASSUME ts \in Seq(Tokens), Covers(p + 1, ts) PROVE \A k \in 1..Len(ts) : p <= ts[k].from
  <2> TAKE k \in 1..Len(ts)
  <2>1. p + 1 <= ts[k].from /\ ts[k].from \in Nat
    BY <1>2, Ends DEF Covers
  <2> QED BY <2>1, TextLen
<1>3. text[p] \in {" ", "-"} /\ ts \in Seq(Tokens) /\ Covers(p + 1, ts) => Covers(p, ts)
  BY <1>1, <1>2, Zenon DEF Covers
<1> QED
  BY <1>3, Zenon DEF Lossless

LEMMA Chunk ==
    ASSUME TextOK, NEW p \in 1..Len(text), IsSkipped(text[p])
    PROVE  text[p] \in {" ", "-"}
<1>1. text[p] \in AllChunks
  BY DEF TextOK
<1> QED
  BY <1>1 DEF AllChunks, IsSkipped, is_word_byte

LEMMA LexIsLossless ==
    ASSUME TextOK, NEW p \in 1..Len(text) + 2
    PROVE  Lossless(p, lex[p])
<1>1. Len(text) \in Nat
  BY TextLen
<1> DEFINE T == {q \in 1..Len(text) + 2 : ~Lossless(q, lex[q])}
<1> SUFFICES ASSUME T # {} PROVE FALSE
  OBVIOUS
<1>2. PICK q \in T : \A r \in T : r <= q
  <2>1. T \subseteq 0..Len(text) + 2 /\ Len(text) + 2 \in Nat
    BY <1>1
  <2> HIDE DEF T
  <2> QED BY <2>1, GreatestNumber
<1>3. q \in 1..Len(text) + 2
  OBVIOUS
<1>4. \A r \in q + 1..Len(text) + 2 : Lossless(r, lex[r])
  BY <1>1, <1>2
<1>5. lex[q] = LexFrom(lex, q)
  BY LexObeys
<1>6. CASE q > Len(text)
  <2>1. lex[q] = << >>
    BY <1>5, <1>6, Zenon DEF LexFrom
  <2>2. << >> \in Seq(Tokens) /\ Covers(q, << >>)
    <3>1. \A r : r \notin q..Len(text)
      BY <1>1, <1>3, <1>6
    <3>2. << >> \in Seq(Tokens) /\ \A k : k \notin 1..Len(<< >>) /\ k \notin 1..Len(<< >>) - 1
      OBVIOUS
    <3> QED BY <3>1, <3>2, Zenon DEF Covers
  <2> QED BY <2>1, <2>2, Zenon DEF Lossless
<1>7. CASE q \in 1..Len(text)
  <2>1. q + 1 \in 1..Len(text) + 2 /\ q \in Nat
    BY <1>1, <1>7
  <2>2. CASE text[q] \in {"(", ")"}
    <3> DEFINE t == Token(text[q], q, q)
    <3>1. t \in Tokens /\ t.from = q /\ t.to = q
      BY <2>1, <2>2 DEF Token, Tokens, TokenTypes
    <3>2. Lossless(t.to + 1, lex[q + 1])
      BY <1>1, <1>4, <1>7, <3>1
    <3>3. lex[q] = <<t>> \o lex[q + 1]
      BY <1>5, <1>7, <2>2, LexFromCases, Zenon
    <3>4. t.to \in q..Len(text)
      BY <1>7, <3>1
    <3> HIDE DEF t
    <3> QED BY <1>7, <3>1, <3>2, <3>3, <3>4, PrependToken
  <2>3. CASE text[q] = "quote"
    <3> DEFINE close == NextIn({"quote"}, q + 1)
               t     == Token("PHRASE", q, close)
    <3>1. close \in q + 1..Len(text) + 1
      BY <1>7, PhraseEnds
    <3>2. lex[q] = IF close > Len(text) THEN <<Unterminated>> ELSE <<t>> \o lex[close + 1]
      BY <1>5, <1>7, <2>3, LexFromCases, Zenon
    <3> HIDE DEF close
    <3>3. CASE close > Len(text)
      <4>1. Unterminated \in Tokens
        BY DEF Unterminated, Token, Tokens, TokenTypes
      <4>2. <<Unterminated>> \in Seq(Tokens) /\ ~Clean(<<Unterminated>>)
        BY <4>1 DEF Clean
      <4> QED BY <3>2, <3>3, <4>2, Zenon DEF Lossless
    <3>4. CASE ~(close > Len(text))
      <4>1. t \in Tokens /\ t.from = q /\ t.to = close
        BY <1>1, <2>1, <3>1 DEF Token, Tokens, TokenTypes
      <4>2. close \in q..Len(text) /\ close + 1 \in q + 1..Len(text) + 2
        BY <1>1, <1>7, <3>1, <3>4
      <4>3. Lossless(t.to + 1, lex[close + 1])
        BY <1>4, <4>1, <4>2
      <4> HIDE DEF t
      <4> QED BY <1>7, <3>2, <3>4, <4>1, <4>2, <4>3, PrependToken
    <3> QED BY <3>3, <3>4
  <2>4. CASE is_word_byte(text[q])
    <3> DEFINE next == NextIn(EndsWord, q)
               t    == Token(KeywordOrTerm(SubSeq(text, q, next - 1)), q, next - 1)
    <3>1. next \in q + 1..Len(text) + 1
      BY <1>7, <2>4, WordEnds
    <3>2. lex[q] = <<t>> \o lex[next]
      BY <1>5, <1>7, <2>4, LexFromCases, Zenon
    <3> HIDE DEF next
    <3>3. next - 1 \in Nat /\ next - 1 \in q..Len(text) /\ next - 1 + 1 = next
          /\ next \in q + 1..Len(text) + 2
      BY <1>1, <1>7, <3>1
    <3>4. KeywordOrTerm(SubSeq(text, q, next - 1)) \in TokenTypes
      BY Zenon DEF KeywordOrTerm, TokenTypes
    <3>5. t \in Tokens /\ t.from = q /\ t.to = next - 1
      BY <2>1, <3>3, <3>4 DEF Token, Tokens
    <3>6. Lossless(t.to + 1, lex[next])
      BY <1>4, <3>3, <3>5
    <3> HIDE DEF t
    <3> QED BY <1>7, <3>2, <3>3, <3>5, <3>6, PrependToken
  <2>5. CASE IsSkipped(text[q])
    <3>1. lex[q] = lex[q + 1]
      BY <1>5, <1>7, <2>5, LexFromCases, Zenon
    <3>2. Lossless(q + 1, lex[q + 1])
      BY <1>1, <1>4, <1>7
    <3> QED BY <1>7, <2>5, <3>1, <3>2, Chunk, PrependBlank
  <2> QED BY <1>7, <2>2, <2>3, <2>4, <2>5, LexFromCases
<1> QED
  BY <1>1, <1>3, <1>6, <1>7

LEMMA LexingIsLossless == TextOK => NothingIsLost
<1> SUFFICES ASSUME TextOK, Accepted PROVE NothingIsLost
  BY DEF NothingIsLost
<1>1. Len(text) \in Nat
  BY TextLen
<1>2. Lossless(1, Lexed)
  BY <1>1, LexIsLossless DEF Lexed
<1>3. Clean(Lexed)
  BY DEF Accepted, Clean
<1>4. \A q \in 1..Len(text) : \/ \E k \in 1..Len(Lexed) : q \in Lexed[k].from..Lexed[k].to
                              \/ text[q] \in {" ", "-"}
  BY <1>2, <1>3, Zenon DEF Lossless, Covers
<1>5. \A k \in 1..Len(Lexed) - 1 : Lexed[k].to < Lexed[k + 1].from
  BY <1>2, <1>3, Zenon DEF Lossless, Covers
<1> QED
  BY <1>4, <1>5, Zenon DEF NothingIsLost, Covered

-----------------------------------------------------------------------------
(* The parser: its functions obey their equations.                         *)

\* A query that lex() refuses has an ERROR among its tokens.
TokensOK == tokens \in Seq(Kinds \cup {"ERROR"})
Places   == 1..Len(tokens) + 1
Names    == {"not", "and", "or"}

LEMMA TokenCount == TokensOK => Len(tokens) \in Nat
  BY DEF TokensOK

LEMMA KindsInside ==
    ASSUME TokensOK
    PROVE  /\ \A p : Kind(p) # "END" => p \in 1..Len(tokens)
           /\ \A p \in 1..Len(tokens) : Kind(p) = tokens[p] /\ Kind(p) \in Kinds \cup {"ERROR"}
<1>1. DOMAIN tokens = 1..Len(tokens)
  BY DEF TokensOK
<1>2. \A p \in 1..Len(tokens) : tokens[p] \in Kinds \cup {"ERROR"}
  BY DEF TokensOK
<1> QED
  BY <1>1, <1>2 DEF Kind

LEMMA Starts ==
    ASSUME TokensOK, NEW p, starts_primary(Kind(p))
    PROVE  p \in 1..Len(tokens) /\ Kind(p) # "AND"
  BY KindsInside DEF starts_primary

\* What a function that begins at p may return.
IsResult(r, p) == \/ r = Error
                  \/ r.pos \in p + 1..Len(tokens) + 1 /\ r = Parsed(r.node, r.pos)

LEMMA ParsedIs ==
    ASSUME NEW node, NEW pos
    PROVE  Parsed(node, pos).node = node /\ Parsed(node, pos).pos = pos
  BY DEF Parsed

LEMMA PartsOf ==
    ASSUME NEW r, NEW node, NEW pos, r = Parsed(node, pos)
    PROVE  r.node = node /\ r.pos = pos
  BY ParsedIs

LEMMA ParsedIsResult ==
    ASSUME NEW p, NEW node, NEW pos \in p + 1..Len(tokens) + 1
    PROVE  IsResult(Parsed(node, pos), p)
  BY ParsedIs, Zenon DEF IsResult

\* c is defined, as Calls is, at the places behind p.
ResultsBehind(c, p) ==
    \A q \in p + 1..Len(tokens) + 1, name \in Names, n \in 0..Len(tokens) :
        IsResult(c[<<name, q, n>>], q)

Agree(c, d, p) ==
    \A q \in p + 1..Len(tokens) + 1, name \in Names, n \in 0..Len(tokens) :
        c[<<name, q, n>>] = d[<<name, q, n>>]

LEMMA Behind ==
    ASSUME TokensOK, NEW p \in Places, NEW q \in p + 1..Len(tokens) + 1, NEW c
    PROVE  /\ ResultsBehind(c, p) => /\ IsResult(parse_not(c, q), q)
                                     /\ IsResult(parse_and(c, q), q)
                                     /\ IsResult(parse_or(c, q), q)
           /\ \A d : Agree(c, d, p) => /\ parse_not(c, q) = parse_not(d, q)
                                       /\ parse_and(c, q) = parse_and(d, q)
                                       /\ parse_or(c, q) = parse_or(d, q)
<1>1. 0 \in 0..Len(tokens) /\ Len(tokens) \in 0..Len(tokens)
  BY TokenCount
<1> QED
  BY <1>1, Zenon DEF ResultsBehind, Agree, parse_not, parse_and, parse_or, Names

LEMMA NotBodyResult ==
    ASSUME TokensOK, NEW c, NEW p \in Places, ResultsBehind(c, p)
    PROVE  IsResult(NotBody(c, p), p)
<1>1. Len(tokens) \in Nat
  BY TokenCount
<1>2. IsResult(Error, p)
  BY DEF IsResult
<1>3. ASSUME Kind(p) # "END"
      PROVE  p \in 1..Len(tokens) /\ p + 1 \in p + 1..Len(tokens) + 1
  BY <1>1, <1>3, KindsInside
<1>4. CASE Kind(p) = "NOT"
  <2> DEFINE operand == parse_not(c, p + 1)
  <2>1. IsResult(operand, p + 1)
    BY <1>3, <1>4, Behind
  <2>2. NotBody(c, p) = IF starts_primary(Kind(p + 1)) /\ operand # Error
                        THEN Parsed(NotNode(operand.node), operand.pos) ELSE Error
    BY <1>4, Zenon DEF NotBody
  <2> HIDE DEF operand
  <2>3. ASSUME operand # Error PROVE operand.pos \in p + 1..Len(tokens) + 1
    <3>1. operand.pos \in p + 1 + 1..Len(tokens) + 1
      BY <2>1, <2>3, Zenon DEF IsResult
    <3> QED BY <1>1, <3>1 DEF Places
  <2> QED BY <1>2, <2>2, <2>3, ParsedIsResult, Zenon
<1>5. CASE Kind(p) = "("
  <2> DEFINE inner == parse_or(c, p + 1)
  <2>1. IsResult(inner, p + 1)
    BY <1>3, <1>5, Behind
  <2>2. NotBody(c, p) = IF inner # Error /\ Kind(inner.pos) = ")"
                        THEN Parsed(inner.node, inner.pos + 1) ELSE Error
    BY <1>5, Zenon DEF NotBody, parse_primary
  <2> HIDE DEF inner
  <2>3. ASSUME inner # Error, Kind(inner.pos) = ")" PROVE inner.pos + 1 \in p + 1..Len(tokens) + 1
    <3>1. inner.pos \in p + 1 + 1..Len(tokens) + 1
      BY <2>1, <2>3, Zenon DEF IsResult
    <3>2. inner.pos \in 1..Len(tokens)
      BY <2>3, KindsInside
    <3> QED BY <1>1, <3>1, <3>2 DEF Places
  <2> QED BY <1>2, <2>2, <2>3, ParsedIsResult, Zenon
<1>6. CASE Kind(p) \in {"TERM", "PHRASE"}
  <2>1. NotBody(c, p) \in {Parsed(TermNode(p), p + 1), Parsed(PhraseNode(p), p + 1)}
    BY <1>6 DEF NotBody, parse_primary
  <2> QED BY <1>3, <1>6, <2>1, ParsedIsResult
<1>7. CASE Kind(p) \notin {"TERM", "PHRASE", "(", "NOT"}
  <2>1. NotBody(c, p) = Error
    BY <1>7, Zenon DEF NotBody, parse_primary
  <2> QED BY <1>2, <2>1
<1> QED
  BY <1>4, <1>5, <1>6, <1>7

LEMMA NotBodyIsLocal ==
    ASSUME TokensOK, NEW c, NEW d, NEW p \in Places, Agree(c, d, p)
    PROVE  NotBody(c, p) = NotBody(d, p)
<1>1. ASSUME Kind(p) # "END"
      PROVE  p + 1 \in p + 1..Len(tokens) + 1
  BY <1>1, TokenCount, KindsInside
<1>2. CASE Kind(p) = "NOT"
  <2>1. parse_not(c, p + 1) = parse_not(d, p + 1)
    BY <1>1, <1>2, Behind
  <2> QED BY <1>2, <2>1, Zenon DEF NotBody
<1>3. CASE Kind(p) # "NOT"
  <2>1. Kind(p) = "(" => parse_or(c, p + 1) = parse_or(d, p + 1)
    BY <1>1, Behind
  <2>2. parse_primary(c, p) = parse_primary(d, p)
    <3>1. CASE Kind(p) = "("
      BY <2>1, <3>1, Zenon DEF parse_primary
    <3>2. CASE Kind(p) # "("
      BY <3>2, Zenon DEF parse_primary
    <3> QED BY <3>1, <3>2
  <2> QED BY <1>3, <2>2, Zenon DEF NotBody
<1> QED
  BY <1>2, <1>3

\* A round of either loop.
Round(name, c, left) == IF name = "and" THEN AndRound(c, left) ELSE OrRound(c, left)

\* Where the second operand of a round begins.
LEMMA RoundStarts ==
    ASSUME TokensOK, NEW p \in Places, NEW left, IsResult(left, p), left # Error
    PROVE  /\ left.pos \in Places /\ left.pos \in p + 1..Len(tokens) + 1
           /\ starts_primary(Kind(left.pos)) => left.pos + 1 \in p + 1..Len(tokens) + 1
           /\ starts_primary(Kind(left.pos + 1)) => left.pos + 1 \in p + 1..Len(tokens) + 1
           /\ Kind(left.pos) # "END" => left.pos + 1 \in left.pos + 1..Len(tokens) + 1
<1>1. left.pos \in p + 1..Len(tokens) + 1
  BY Zenon DEF IsResult
<1>2. Len(tokens) \in Nat
  BY TokenCount
<1>3. starts_primary(Kind(left.pos)) => left.pos \in 1..Len(tokens)
  BY Starts
<1>4. starts_primary(Kind(left.pos + 1)) => left.pos + 1 \in 1..Len(tokens)
  BY Starts
<1>5. Kind(left.pos) # "END" => left.pos \in 1..Len(tokens)
  BY KindsInside
<1> QED
  BY <1>1, <1>2, <1>3, <1>4, <1>5 DEF Places

LEMMA RoundResult ==
    ASSUME TokensOK, NEW c, NEW p \in Places, ResultsBehind(c, p), NEW left, IsResult(left, p),
           NEW name
    PROVE  IsResult(Round(name, c, left), p)
<1>1. IsResult(Error, p)
  BY DEF IsResult
<1>2. CASE left = Error
  BY <1>1, <1>2, Zenon DEF Round, AndRound, OrRound
<1>3. ASSUME left # Error, NEW q \in p + 1..Len(tokens) + 1, NEW r, IsResult(r, q), r # Error, NEW node
      PROVE  IsResult(Parsed(node, r.pos), p)
  <2>1. r.pos \in q + 1..Len(tokens) + 1
    BY <1>3, Zenon DEF IsResult
  <2>2. r.pos \in p + 1..Len(tokens) + 1
    BY <2>1, TokenCount DEF Places
  <2> QED BY <2>2, ParsedIsResult
<1>4. ASSUME left # Error PROVE IsResult(AndRound(c, left), p)
  <2> DEFINE explicit == Kind(left.pos) = "AND"
             start    == IF explicit THEN left.pos + 1 ELSE left.pos
             right    == parse_not(c, start)
  <2>1. AndRound(c, left) = IF starts_primary(Kind(start))
                            THEN IF right = Error THEN Error
                                 ELSE Parsed(AndNode(left.node, right.node), right.pos)
                            ELSE IF explicit THEN Error ELSE left
    BY <1>4, Zenon DEF AndRound
  <2>2. starts_primary(Kind(start)) => start \in p + 1..Len(tokens) + 1
    BY <1>4, RoundStarts
  <2>3. starts_primary(Kind(start)) => IsResult(right, start)
    BY <2>2, Behind
  <2> HIDE DEF start, right, explicit
  <2> QED BY <1>1, <1>3, <1>4, <2>1, <2>2, <2>3, Zenon
<1>5. ASSUME left # Error PROVE IsResult(OrRound(c, left), p)
  <2> DEFINE right == parse_and(c, left.pos + 1)
  <2>1. OrRound(c, left) = IF Kind(left.pos) # "OR" THEN left
                           ELSE IF ~starts_primary(Kind(left.pos + 1)) \/ right = Error THEN Error
                           ELSE Parsed(OrNode(left.node, right.node), right.pos)
    BY <1>5, Zenon DEF OrRound
  <2>2. starts_primary(Kind(left.pos + 1)) => left.pos + 1 \in p + 1..Len(tokens) + 1
    BY <1>5, RoundStarts
  <2>3. starts_primary(Kind(left.pos + 1)) => IsResult(right, left.pos + 1)
    BY <2>2, Behind
  <2> HIDE DEF right
  <2> QED BY <1>1, <1>3, <1>5, <2>1, <2>2, <2>3, Zenon
<1> QED
  BY <1>2, <1>4, <1>5, Zenon DEF Round

LEMMA RoundIsLocal ==
    ASSUME TokensOK, NEW c, NEW d, NEW p \in Places, Agree(c, d, p), NEW left, IsResult(left, p),
           NEW name
    PROVE  Round(name, c, left) = Round(name, d, left)
<1>1. CASE left = Error
  BY <1>1, Zenon DEF Round, AndRound, OrRound
<1>2. ASSUME left # Error PROVE AndRound(c, left) = AndRound(d, left)
  <2> DEFINE start == IF Kind(left.pos) = "AND" THEN left.pos + 1 ELSE left.pos
  <2>1. starts_primary(Kind(start)) => start \in p + 1..Len(tokens) + 1
    BY <1>2, RoundStarts
  <2>2. starts_primary(Kind(start)) => parse_not(c, start) = parse_not(d, start)
    BY <2>1, Behind
  <2>3. CASE starts_primary(Kind(start))
    BY <2>2, <2>3, Zenon DEF AndRound
  <2>4. CASE ~starts_primary(Kind(start))
    BY <2>4, Zenon DEF AndRound
  <2> QED BY <2>3, <2>4
<1>3. ASSUME left # Error PROVE OrRound(c, left) = OrRound(d, left)
  <2>1. starts_primary(Kind(left.pos + 1)) => left.pos + 1 \in p + 1..Len(tokens) + 1
    BY <1>3, RoundStarts
  <2>2. starts_primary(Kind(left.pos + 1))
           => parse_and(c, left.pos + 1) = parse_and(d, left.pos + 1)
    BY <2>1, Behind
  <2>3. CASE starts_primary(Kind(left.pos + 1))
    BY <2>2, <2>3, Zenon DEF OrRound
  <2>4. CASE ~starts_primary(Kind(left.pos + 1))
    BY <2>4, Zenon DEF OrRound
  <2> QED BY <2>3, <2>4
<1> QED
  BY <1>1, <1>2, <1>3, Zenon DEF Round

\* All rounds of a loop that begins with `first`.
IsLoop(a, name, c, first, n) ==
    /\ a[0] = first
    /\ \A k \in 1..n : a[k] = Round(name, c, a[k - 1])

LEMMA LoopsExist ==
    ASSUME NEW name, NEW c, NEW first, NEW n \in Nat
    PROVE  \E a : IsLoop(a, name, c, first, n)
<1> DEFINE T == {k \in Nat : ~ \E a : IsLoop(a, name, c, first, k)}
<1> SUFFICES ASSUME T # {} PROVE FALSE
  OBVIOUS
<1>1. PICK k \in T : \A j \in T : k <= j
  <2>1. T \subseteq Nat
    OBVIOUS
  <2> HIDE DEF T
  <2> QED BY <2>1, LeastNumber
<1>2. CASE k = 0
  <2> DEFINE a == [j \in {0} |-> first]
  <2>1. IsLoop(a, name, c, first, 0)
    BY DEF IsLoop
  <2> QED BY <1>1, <1>2, <2>1, Zenon
<1>3. CASE k # 0
  <2>1. k - 1 \in Nat /\ ~(k <= k - 1)
    BY <1>3
  <2>2. PICK b : IsLoop(b, name, c, first, k - 1)
    BY <1>1, <2>1
  <2> DEFINE a == [j \in 0..k |-> IF j = k THEN Round(name, c, b[k - 1]) ELSE b[j]]
  <2>3. a[0] = first
    BY <1>3, <2>2 DEF IsLoop
  <2>4. ASSUME NEW j \in 1..k PROVE a[j] = Round(name, c, a[j - 1])
    <3>1. j - 1 \in 0..k /\ j - 1 # k /\ (j # k => j \in 1..k - 1)
      OBVIOUS
    <3>2. a[j - 1] = b[j - 1]
      BY <3>1
    <3>3. a[j] = Round(name, c, b[j - 1])
      <4>1. CASE j = k
        BY <4>1
      <4>2. CASE j # k
        <5>1. a[j] = b[j]
          BY <4>2
        <5>2. b[j] = Round(name, c, b[j - 1])
          BY <2>2, <3>1, <4>2, Zenon DEF IsLoop
        <5> QED BY <5>1, <5>2, Zenon
      <4> QED BY <4>1, <4>2
    <3> HIDE DEF a
    <3> QED BY <3>2, <3>3, Zenon
  <2> HIDE DEF a
  <2>5. IsLoop(a, name, c, first, k)
    BY <2>3, <2>4, Zenon DEF IsLoop
  <2> QED BY <2>5
<1> QED
  BY <1>2, <1>3

LEMMA LoopResults ==
    ASSUME TokensOK, NEW c, NEW p \in Places, ResultsBehind(c, p), NEW first, IsResult(first, p),
           NEW name, NEW n \in Nat, NEW a, IsLoop(a, name, c, first, n)
    PROVE  \A k \in 0..n : IsResult(a[k], p)
<1> DEFINE T == {k \in 0..n : ~IsResult(a[k], p)}
<1> SUFFICES ASSUME T # {} PROVE FALSE
  BY Zenon
<1>1. PICK k \in T : \A j \in T : k <= j
  <2>1. T \subseteq Nat
    OBVIOUS
  <2> HIDE DEF T
  <2> QED BY <2>1, LeastNumber
<1>2. k \in 0..n /\ ~IsResult(a[k], p)
  BY <1>1
<1>3. k # 0
  BY <1>2, Zenon DEF IsLoop
<1>4. k - 1 \in 0..n /\ ~(k <= k - 1) /\ k \in 1..n
  BY <1>2, <1>3
<1>5. IsResult(a[k - 1], p)
  BY <1>1, <1>4
<1>6. a[k] = Round(name, c, a[k - 1])
  BY <1>4, Zenon DEF IsLoop
<1> QED
  BY <1>2, <1>5, <1>6, RoundResult

\* The call a loop begins with.
First(name, p) == IF name = "and" THEN <<"not", p, 0>> ELSE <<"and", p, Len(tokens)>>

LEMMA BodyIs ==
    ASSUME NEW c, NEW name \in Names, NEW p, NEW n
    PROVE  /\ name = "not" => Body(c, name, p, n) = NotBody(c, p)
           /\ name # "not" /\ n = 0 => Body(c, name, p, n) = c[First(name, p)]
           /\ name # "not" /\ n # 0 => Body(c, name, p, n) = Round(name, c, c[<<name, p, n - 1>>])
<1>1. "not" # "and" /\ "not" # "or" /\ "and" # "or"
  OBVIOUS
<1>2. CASE name = "not"
  BY <1>1, <1>2, Zenon DEF Body
<1>3. CASE name = "and"
  BY <1>1, <1>3, Zenon DEF Body, Round, parse_not, First
<1>4. CASE name = "or"
  BY <1>1, <1>4, Zenon DEF Body, Round, parse_and, First
<1> QED
  BY <1>2, <1>3, <1>4, Zenon DEF Names

\* Two functions that agree on the places behind p, on the call a loop begins with
\* and on the round before agree on the body.
LEMMA BodyIsLocal ==
    ASSUME TokensOK, NEW c, NEW d, NEW p \in Places, Agree(c, d, p), NEW name \in Names,
           NEW n \in 0..Len(tokens),
           n = 0 /\ name # "not" => c[First(name, p)] = d[First(name, p)],
           n # 0 /\ name # "not" => /\ c[<<name, p, n - 1>>] = d[<<name, p, n - 1>>]
                                    /\ IsResult(c[<<name, p, n - 1>>], p)
    PROVE  Body(c, name, p, n) = Body(d, name, p, n)
<1>1. CASE name = "not"
  <2>1. NotBody(c, p) = NotBody(d, p)
    BY NotBodyIsLocal
  <2>2. Body(c, name, p, n) = NotBody(c, p) /\ Body(d, name, p, n) = NotBody(d, p)
    BY <1>1, BodyIs
  <2> QED BY <2>1, <2>2, Zenon
<1>2. CASE name # "not" /\ n = 0
  <2>1. Body(c, name, p, n) = c[First(name, p)] /\ Body(d, name, p, n) = d[First(name, p)]
    BY <1>2, BodyIs
  <2> QED BY <1>2, <2>1, Zenon
<1>3. CASE name # "not" /\ n # 0
  <2>1. Round(name, c, c[<<name, p, n - 1>>]) = Round(name, d, c[<<name, p, n - 1>>])
    BY <1>3, RoundIsLocal
  <2>2. /\ Body(c, name, p, n) = Round(name, c, c[<<name, p, n - 1>>])
        /\ Body(d, name, p, n) = Round(name, d, d[<<name, p, n - 1>>])
    BY <1>3, BodyIs
  <2> QED BY <1>3, <2>1, <2>2, Zenon
<1> QED
  BY <1>1, <1>2, <1>3

\* c obeys the equations from p on.
Solves(c, p) ==
    \A q \in p..Len(tokens) + 1, name \in Names, n \in 0..Len(tokens) :
        IsResult(c[<<name, q, n>>], q) /\ c[<<name, q, n>>] = Body(c, name, q, n)

LEMMA SolvesBehind ==
    ASSUME NEW c, NEW p, Solves(c, p + 1)
    PROVE  ResultsBehind(c, p)
  BY Zenon DEF Solves, ResultsBehind

LEMMA FirstCall ==
    ASSUME TokensOK, NEW name \in Names, NEW p
    PROVE  \E m \in Names, k \in 0..Len(tokens) :
              First(name, p) = <<m, p, k>> /\ (name = "and" => m = "not") /\ (name # "and" => m = "and")
<1>1. /\ "not" \in Names /\ "and" \in Names
      /\ 0 \in 0..Len(tokens) /\ Len(tokens) \in 0..Len(tokens)
  BY TokenCount DEF Names
<1> QED
  BY <1>1, Zenon DEF First

LEMMA ExtendSolution ==
    ASSUME TokensOK, NEW p \in Places, NEW c, Solves(c, p + 1)
    PROVE  \E d : Solves(d, p)
<1>1. Len(tokens) \in Nat /\ 0 \in 0..Len(tokens) /\ Len(tokens) \in 0..Len(tokens)
  BY TokenCount
<1>2. ResultsBehind(c, p)
  BY SolvesBehind
<1> DEFINE N == Len(tokens)
<1>3. PICK a : IsLoop(a, "and", c, NotBody(c, p), N)
  BY <1>1, LoopsExist
<1>4. PICK o : IsLoop(o, "or", c, a[N], N)
  BY <1>1, LoopsExist
<1>5. IsResult(NotBody(c, p), p)
  BY <1>2, NotBodyResult
<1>6. \A n \in 0..N : IsResult(a[n], p)
  BY <1>1, <1>2, <1>3, <1>5, LoopResults
<1>7. \A n \in 0..N : IsResult(o[n], p)
  BY <1>1, <1>2, <1>4, <1>6, LoopResults
<1> DEFINE d == [x \in Names \X Places \X (0..N) |->
                    IF x[2] # p THEN c[x]
                    ELSE IF x[1] = "not" THEN NotBody(c, p)
                    ELSE IF x[1] = "and" THEN a[x[3]] ELSE o[x[3]]]
<1>8. \A n \in 0..N : /\ d[<<"not", p, n>>] = NotBody(c, p)
                      /\ d[<<"and", p, n>>] = a[n]
                      /\ d[<<"or", p, n>>] = o[n]
  BY DEF Names
<1>9. \A q \in Places, name \in Names, n \in 0..N : q # p => d[<<name, q, n>>] = c[<<name, q, n>>]
  BY DEF Names
<1> HIDE DEF d
<1>10. \A q \in p + 1..N + 1 : q \in Places /\ q # p
  BY <1>1 DEF Places
<1>11. Agree(c, d, p)
  BY <1>9, <1>10, Zenon DEF Agree
<1>12. ASSUME NEW q \in p + 1..N + 1, NEW name \in Names, NEW n \in 0..N
       PROVE  IsResult(d[<<name, q, n>>], q) /\ d[<<name, q, n>>] = Body(d, name, q, n)
  <2>1. q \in Places /\ d[<<name, q, n>>] = c[<<name, q, n>>]
    BY <1>9, <1>10
  <2>2. Agree(c, d, q)
    <3>1. \A r \in q + 1..N + 1 : r \in p + 1..N + 1
      BY <1>1 DEF Places
    <3> QED BY <1>11, <3>1, Zenon DEF Agree
  <2>3. IsResult(c[<<name, q, n>>], q) /\ c[<<name, q, n>>] = Body(c, name, q, n)
    BY Zenon DEF Solves
  <2>4. c[First(name, q)] = d[First(name, q)]
    <3>1. PICK m \in Names, k \in 0..N : First(name, q) = <<m, q, k>>
      BY FirstCall
    <3>2. c[<<m, q, k>>] = d[<<m, q, k>>]
      BY <1>11, Zenon DEF Agree
    <3> QED BY <3>1, <3>2, Zenon
  <2>5. ASSUME n # 0 PROVE /\ c[<<name, q, n - 1>>] = d[<<name, q, n - 1>>]
                           /\ IsResult(c[<<name, q, n - 1>>], q)
    <3>1. n - 1 \in 0..N
      BY <1>1, <2>5
    <3> QED BY <1>11, <3>1, Zenon DEF Solves, Agree
  <2>6. Body(c, name, q, n) = Body(d, name, q, n)
    BY <2>1, <2>2, <2>4, <2>5, BodyIsLocal
  <2> QED BY <2>1, <2>3, <2>6, Zenon
\* At p, the two loops.
<1>13. ASSUME NEW name \in {"and", "or"}
       PROVE  \E l : /\ IsLoop(l, name, c, d[First(name, p)], N)
                     /\ \A n \in 0..N : d[<<name, p, n>>] = l[n] /\ IsResult(l[n], p)
  <2>1. CASE name = "and"
    <3>1. First(name, p) = <<"not", p, 0>>
      BY <2>1, Zenon DEF First
    <3>2. d[First(name, p)] = NotBody(c, p)
      BY <1>1, <1>8, <3>1, Zenon
    <3> QED BY <1>3, <1>6, <1>8, <2>1, <3>2, Zenon
  <2>2. CASE name = "or"
    <3>1. First(name, p) = <<"and", p, N>>
      <4>1. name # "and"
        BY <2>2
      <4> QED BY <4>1, Zenon DEF First
    <3>2. d[First(name, p)] = a[N]
      BY <1>1, <1>8, <3>1, Zenon
    <3> QED BY <1>4, <1>7, <1>8, <2>2, <3>2, Zenon
  <2> QED BY <2>1, <2>2
<1>14. ASSUME NEW name \in Names, NEW n \in 0..N
       PROVE  IsResult(d[<<name, p, n>>], p) /\ d[<<name, p, n>>] = Body(d, name, p, n)
  <2>1. CASE name = "not"
    <3>1. d[<<name, p, n>>] = NotBody(c, p)
      BY <1>8, <2>1, Zenon
    <3>2. NotBody(c, p) = NotBody(d, p)
      BY <1>11, NotBodyIsLocal
    <3>3. Body(d, name, p, n) = NotBody(d, p)
      BY <2>1, BodyIs, Zenon
    <3> QED BY <1>5, <3>1, <3>2, <3>3, Zenon
  <2>2. CASE name # "not"
    <3>1. name \in {"and", "or"}
      BY <2>2 DEF Names
    <3>2. PICK l : /\ IsLoop(l, name, c, d[First(name, p)], N)
                   /\ \A k \in 0..N : d[<<name, p, k>>] = l[k] /\ IsResult(l[k], p)
      BY <1>13, <3>1
    <3>3. CASE n = 0
      <4>1. l[n] = d[First(name, p)]
        BY <3>2, <3>3, Zenon DEF IsLoop
      <4>2. Body(d, name, p, n) = d[First(name, p)]
        BY <2>2, <3>3, BodyIs, Zenon
      <4> QED BY <3>2, <4>1, <4>2, Zenon
    <3>4. CASE n # 0
      <4>1. n - 1 \in 0..N /\ n \in 1..N
        BY <1>1, <3>4
      <4>2. l[n] = Round(name, c, l[n - 1])
        BY <3>2, <4>1, Zenon DEF IsLoop
      <4>3. Round(name, c, l[n - 1]) = Round(name, d, l[n - 1])
        <5>1. IsResult(l[n - 1], p)
          BY <3>2, <4>1, Zenon
        <5> QED BY <1>11, <5>1, RoundIsLocal
      <4>4. Body(d, name, p, n) = Round(name, d, d[<<name, p, n - 1>>])
        BY <2>2, <3>4, BodyIs, Zenon
      <4>5. d[<<name, p, n - 1>>] = l[n - 1]
        BY <3>2, <4>1, Zenon
      <4> QED BY <3>2, <4>2, <4>3, <4>4, <4>5, Zenon
    <3> QED BY <3>3, <3>4
  <2> QED BY <2>1, <2>2
<1>15. \A q \in p..N + 1 : q = p \/ q \in p + 1..N + 1
  BY <1>1 DEF Places
<1>16. Solves(d, p)
  BY <1>12, <1>14, <1>15, Zenon DEF Solves
<1> QED
  BY <1>16

LEMMA SolutionExists ==
    ASSUME TokensOK
    PROVE  \E c : Solves(c, 1)
<1>1. Len(tokens) \in Nat
  BY TokenCount
<1> DEFINE T == {p \in 1..Len(tokens) + 2 : ~ \E c : Solves(c, p)}
<1> SUFFICES ASSUME T # {} PROVE FALSE
  <2>1. 1 \in 1..Len(tokens) + 2
    BY <1>1
  <2> QED BY <2>1
<1>2. PICK p \in T : \A q \in T : q <= p
  <2>1. T \subseteq 0..Len(tokens) + 2 /\ Len(tokens) + 2 \in Nat
    BY <1>1
  <2> HIDE DEF T
  <2> QED BY <2>1, GreatestNumber
<1>3. p \in 1..Len(tokens) + 2 /\ ~ \E c : Solves(c, p)
  BY <1>2
<1>4. p # Len(tokens) + 2
  <2>1. \A q : q \notin Len(tokens) + 2..Len(tokens) + 1
    BY <1>1
  <2>2. \A c : Solves(c, Len(tokens) + 2)
    BY <2>1, Zenon DEF Solves
  <2> QED BY <1>3, <2>2
<1>5. p \in Places /\ p + 1 \in 1..Len(tokens) + 2 /\ ~(p + 1 <= p)
  BY <1>1, <1>3, <1>4 DEF Places
<1>6. \E c : Solves(c, p + 1)
  BY <1>2, <1>5
<1> QED
  BY <1>3, <1>5, <1>6, ExtendSolution

LEMMA CallsObey ==
    ASSUME TokensOK
    PROVE  \A q \in Places, name \in Names, n \in 0..Len(tokens) :
              Calls[<<name, q, n>>] = Body(Calls, name, q, n)
<1> DEFINE D == {"not", "and", "or"} \X (1..Len(tokens) + 1) \X (0..Len(tokens))
<1>1. PICK c : Solves(c, 1)
  BY SolutionExists
<1> DEFINE h == [x \in D |-> c[x]]
<1>2. \A q \in Places, name \in Names, n \in 0..Len(tokens) :
         /\ <<name, q, n>> \in D
         /\ h[<<name, q, n>>] = c[<<name, q, n>>]
  BY DEF Places, Names
<1> HIDE DEF h, D
<1>3. ASSUME NEW q \in Places, NEW name \in Names, NEW n \in 0..Len(tokens)
      PROVE  Body(c, name, q, n) = Body(h, name, q, n)
  <2>1. Len(tokens) \in Nat /\ \A r \in q + 1..Len(tokens) + 1 : r \in Places
    BY TokenCount DEF Places
  <2>2. Agree(c, h, q)
    BY <1>2, <2>1, Zenon DEF Agree
  <2>3. c[First(name, q)] = h[First(name, q)]
    <3>1. PICK m \in Names, k \in 0..Len(tokens) : First(name, q) = <<m, q, k>>
      BY FirstCall
    <3>2. c[<<m, q, k>>] = h[<<m, q, k>>]
      BY <1>2, Zenon
    <3> QED BY <3>1, <3>2, Zenon
  <2>4. ASSUME n # 0 PROVE /\ c[<<name, q, n - 1>>] = h[<<name, q, n - 1>>]
                           /\ IsResult(c[<<name, q, n - 1>>], q)
    <3>1. n - 1 \in 0..Len(tokens)
      BY <2>1, <2>4
    <3> QED BY <1>1, <1>2, <3>1, Zenon DEF Solves, Places
  <2> QED BY <2>2, <2>3, <2>4, BodyIsLocal
<1>4. \A q \in Places, name \in Names, n \in 0..Len(tokens) :
         h[<<name, q, n>>] = Body(h, name, q, n) /\ IsResult(h[<<name, q, n>>], q)
  BY <1>1, <1>2, <1>3, Zenon DEF Solves, Places
<1>5. ASSUME NEW x \in D PROVE h[x] = Body(h, x[1], x[2], x[3])
  <2>1. PICK name \in Names, q \in Places, n \in 0..Len(tokens) : x = <<name, q, n>>
    BY DEF Names, Places, D
  <2>2. x[1] = name /\ x[2] = q /\ x[3] = n
    BY <2>1
  <2> QED BY <1>4, <2>1, <2>2, Zenon
<1>6. h = [x \in D |-> Body(h, x[1], x[2], x[3])]
  <2>1. h = [x \in D |-> h[x]]
    BY Zenon DEF h
  <2> QED BY <1>5, <2>1, Zenon
<1>7. Calls = [x \in D |-> Body(Calls, x[1], x[2], x[3])]
  BY <1>6, Zenon DEF Calls, D
<1>8. \A q \in Places, name \in Names, n \in 0..Len(tokens) :
         Calls[<<name, q, n>>] = Body(Calls, name, q, n)
  <2> TAKE q \in Places, name \in Names, n \in 0..Len(tokens)
  <2> DEFINE x == <<name, q, n>>
  <2>1. x \in D /\ x[1] = name /\ x[2] = q /\ x[3] = n
    BY <1>2
  <2> HIDE DEF x, D
  <2>2. Calls[x] = Body(Calls, x[1], x[2], x[3])
    BY <1>7, <2>1, Zenon
  <2> QED BY <2>1, <2>2, Zenon DEF x
<1> QED
  BY <1>8

\* Every function returns an exception or a place behind its beginning: the descent
\* ends.
LEMMA CallsReturn ==
    ASSUME TokensOK
    PROVE  \A q \in Places, name \in Names, n \in 0..Len(tokens) : IsResult(Calls[<<name, q, n>>], q)
<1> DEFINE N == Len(tokens)
           T == {q \in Places : \E name \in Names, n \in 0..N : ~IsResult(Calls[<<name, q, n>>], q)}
<1> SUFFICES ASSUME T # {} PROVE FALSE
  BY Zenon
<1>1. N \in Nat /\ 0 \in 0..N /\ N \in 0..N
  BY TokenCount
<1>2. PICK p \in T : \A q \in T : q <= p
  <2>1. T \subseteq 0..N + 1 /\ N + 1 \in Nat
    BY <1>1 DEF Places
  <2> HIDE DEF T
  <2> QED BY <2>1, GreatestNumber
<1>3. p \in Places /\ \E name \in Names, n \in 0..N : ~IsResult(Calls[<<name, p, n>>], p)
  BY <1>2
<1>4. ResultsBehind(Calls, p)
  <2>1. \A q \in p + 1..N + 1 : q \in Places /\ ~(q <= p)
    BY <1>1, <1>3 DEF Places
  <2> QED BY <1>2, <2>1, Zenon DEF ResultsBehind
<1>5. "not" \in Names /\ "and" \in Names /\ "or" \in Names /\ "not" # "and" /\ "not" # "or"
  BY DEF Names
<1>6. ASSUME NEW n \in 0..N PROVE IsResult(Calls[<<"not", p, n>>], p)
  <2>1. Calls[<<"not", p, n>>] = Body(Calls, "not", p, n)
    BY <1>3, <1>5, CallsObey
  <2>2. Body(Calls, "not", p, n) = NotBody(Calls, p)
    <3> HIDE DEF T, N
    <3>1. "not" \in Names
      BY <1>5, Zenon
    <3> QED BY <3>1, BodyIs, Zenon
  <2> QED BY <1>3, <1>4, <2>1, <2>2, NotBodyResult
<1>7. ASSUME NEW name \in {"and", "or"}, IsResult(Calls[First(name, p)], p)
      PROVE  \A n \in 0..N : IsResult(Calls[<<name, p, n>>], p)
  <2> DEFINE a == [n \in 0..N |-> Calls[<<name, p, n>>]]
  <2>1. name \in Names /\ name # "not"
    BY <1>5 DEF Names
  <2>2. a[0] = Calls[First(name, p)]
    <3>1. Calls[<<name, p, 0>>] = Body(Calls, name, p, 0)
      BY <1>1, <1>3, <2>1, CallsObey
    <3>2. Body(Calls, name, p, 0) = Calls[First(name, p)]
      <4>1. "and" # "or"
        OBVIOUS
      <4>2. CASE name = "and"
        BY <1>5, <4>1, <4>2, Zenon DEF Body, First, parse_not
      <4>3. CASE name = "or"
        BY <1>5, <4>1, <4>3, Zenon DEF Body, First, parse_and
      <4> QED BY <4>2, <4>3
    <3> QED BY <1>1, <3>1, <3>2
  <2>3. ASSUME NEW k \in 1..N PROVE a[k] = Round(name, Calls, a[k - 1])
    <3>1. k \in 0..N /\ k - 1 \in 0..N /\ k # 0
      BY <1>1
    <3>2. Calls[<<name, p, k>>] = Body(Calls, name, p, k)
      BY <1>3, <2>1, <3>1, CallsObey
    <3>3. Body(Calls, name, p, k) = Round(name, Calls, Calls[<<name, p, k - 1>>])
      BY <2>1, <3>1, BodyIs
    <3>4. a[k] = Calls[<<name, p, k>>] /\ a[k - 1] = Calls[<<name, p, k - 1>>]
      BY <3>1
    <3> HIDE DEF a
    <3> QED BY <3>2, <3>3, <3>4, Zenon
  <2>4. \A n \in 0..N : a[n] = Calls[<<name, p, n>>]
    OBVIOUS
  <2> HIDE DEF a
  <2>5. IsLoop(a, name, Calls, Calls[First(name, p)], N)
    BY <2>2, <2>3, Zenon DEF IsLoop
  <2>6. \A n \in 0..N : IsResult(a[n], p)
    BY <1>1, <1>3, <1>4, <1>7, <2>5, LoopResults
  <2> QED BY <2>4, <2>6, Zenon
<1>8. First("and", p) = <<"not", p, 0>> /\ First("or", p) = <<"and", p, N>>
  <2>1. "or" # "and"
    OBVIOUS
  <2> QED BY <2>1, Zenon DEF First
<1>9. \A n \in 0..N : IsResult(Calls[<<"and", p, n>>], p)
  <2>1. IsResult(Calls[First("and", p)], p)
    BY <1>1, <1>6, <1>8, Zenon
  <2> QED BY <1>7, <2>1
<1>10. \A n \in 0..N : IsResult(Calls[<<"or", p, n>>], p)
  <2>1. IsResult(Calls[First("or", p)], p)
    BY <1>1, <1>8, <1>9, Zenon
  <2> QED BY <1>7, <2>1
<1> QED
  BY <1>3, <1>6, <1>9, <1>10, Zenon DEF Names

-----------------------------------------------------------------------------
(* The grammar: its symbols obey their equations.                          *)

IsNotTree(x, t, i, j) ==
    \/ i = j /\ tokens[i] = "TERM" /\ x = TermNode(i)
    \/ i = j /\ tokens[i] = "PHRASE" /\ x = PhraseNode(i)
    \/ i < j /\ tokens[i] = "(" /\ tokens[j] = ")" /\ x \in OrTrees(t, i + 1, j - 1)
    \/ i < j /\ tokens[i] = "NOT" /\ \E o \in NotTrees(t, i + 1, j) : x = NotNode(o)

IsAndTree(x, t, i, j) ==
    \/ x \in NotTrees(t, i, j)
    \/ \E k \in i + 1..j : \E l \in AndTrees(t, i, k - 1), r \in NotTrees(t, k, j) :
          x = AndNode(l, r)
    \/ \E k \in i + 1..j - 1 : \E l \in AndTrees(t, i, k - 1), r \in NotTrees(t, k + 1, j) :
          tokens[k] = "AND" /\ x = AndNode(l, r)

IsOrTree(x, t, i, j) ==
    \/ x \in AndTrees(t, i, j)
    \/ \E k \in i + 1..j - 1 : \E l \in OrTrees(t, i, k - 1), r \in AndTrees(t, k + 1, j) :
          tokens[k] = "OR" /\ x = OrNode(l, r)

LEMMA InNotExpr ==
    ASSUME NEW t, NEW i, NEW j, NEW x
    PROVE  x \in NotExpr(t, i, j) <=> IsNotTree(x, t, i, j)
  BY Zenon DEF NotExpr, Primaries, IsNotTree

LEMMA InAndExpr ==
    ASSUME NEW t, NEW i, NEW j, NEW x
    PROVE  x \in AndExpr(t, i, j) <=> IsAndTree(x, t, i, j)
<1> DEFINE F(k) == {AndNode(l, r) : l \in AndTrees(t, i, k - 1), r \in NotTrees(t, k, j)}
           G(k) == {AndNode(l, r) : l \in AndTrees(t, i, k - 1), r \in NotTrees(t, k + 1, j)}
           S    == {n \in i + 1..j : NotTrees(t, n, j) # {}}
           T    == {n \in i + 1..j - 1 : tokens[n] = "AND"}
           U    == UNION {F(k) : k \in S}
           V    == UNION {G(k) : k \in T}
<1>1. AndExpr(t, i, j) = NotTrees(t, i, j) \cup U \cup V
  BY DEF AndExpr
<1>2. \A k : x \in F(k) <=> \E l \in AndTrees(t, i, k - 1), r \in NotTrees(t, k, j) : x = AndNode(l, r)
  OBVIOUS
<1>3. \A k : x \in G(k) <=> \E l \in AndTrees(t, i, k - 1), r \in NotTrees(t, k + 1, j) : x = AndNode(l, r)
  OBVIOUS
<1>4. \A k : k \in S <=> k \in i + 1..j /\ NotTrees(t, k, j) # {}
  OBVIOUS
<1>5. \A k : k \in T <=> k \in i + 1..j - 1 /\ tokens[k] = "AND"
  OBVIOUS
<1> HIDE DEF F, G, S, T
<1>6. x \in AndExpr(t, i, j) <=> \/ x \in NotTrees(t, i, j)
                                 \/ \E k \in S : x \in F(k)
                                 \/ \E k \in T : x \in G(k)
  <2>1. x \in U <=> \E k \in S : x \in F(k)
    OBVIOUS
  <2>2. x \in V <=> \E k \in T : x \in G(k)
    OBVIOUS
  <2> HIDE DEF U, V
  <2> QED BY <1>1, <2>1, <2>2, Zenon
<1>7. ASSUME NEW k \in S, x \in F(k) PROVE IsAndTree(x, t, i, j)
  <2>1. PICK l \in AndTrees(t, i, k - 1), r \in NotTrees(t, k, j) : x = AndNode(l, r)
    BY <1>2, <1>7
  <2> QED BY <1>4, <2>1, Zenon DEF IsAndTree
<1>8. ASSUME NEW k \in T, x \in G(k) PROVE IsAndTree(x, t, i, j)
  <2>1. PICK l \in AndTrees(t, i, k - 1), r \in NotTrees(t, k + 1, j) : x = AndNode(l, r)
    BY <1>3, <1>8
  <2> QED BY <1>5, <2>1, Zenon DEF IsAndTree
<1>9. ASSUME NEW k \in i + 1..j, NEW l \in AndTrees(t, i, k - 1), NEW r \in NotTrees(t, k, j),
             x = AndNode(l, r)
      PROVE  k \in S /\ x \in F(k)
  BY <1>2, <1>4, <1>9, Zenon
<1>10. ASSUME NEW k \in i + 1..j - 1, NEW l \in AndTrees(t, i, k - 1), NEW r \in NotTrees(t, k + 1, j),
              tokens[k] = "AND", x = AndNode(l, r)
       PROVE  k \in T /\ x \in G(k)
  BY <1>3, <1>5, <1>10, Zenon
<1>11. IsAndTree(x, t, i, j) => \/ x \in NotTrees(t, i, j)
                                \/ \E k \in S : x \in F(k)
                                \/ \E k \in T : x \in G(k)
  BY <1>9, <1>10, Zenon DEF IsAndTree
<1>12. x \in NotTrees(t, i, j) => IsAndTree(x, t, i, j)
  BY Zenon DEF IsAndTree
<1> QED
  BY <1>6, <1>7, <1>8, <1>11, <1>12, Zenon

LEMMA InOrExpr ==
    ASSUME NEW t, NEW i, NEW j, NEW x
    PROVE  x \in OrExpr(t, i, j) <=> IsOrTree(x, t, i, j)
<1> DEFINE F(k) == {OrNode(l, r) : l \in OrTrees(t, i, k - 1), r \in AndTrees(t, k + 1, j)}
           S    == {n \in i + 1..j - 1 : tokens[n] = "OR"}
<1>1. OrExpr(t, i, j) = AndTrees(t, i, j) \cup UNION {F(k) : k \in S}
  BY DEF OrExpr
<1>2. \A k : x \in F(k) <=> \E l \in OrTrees(t, i, k - 1), r \in AndTrees(t, k + 1, j) : x = OrNode(l, r)
  OBVIOUS
<1>3. \A k : k \in S <=> k \in i + 1..j - 1 /\ tokens[k] = "OR"
  OBVIOUS
<1> HIDE DEF F, S
<1>4. x \in OrExpr(t, i, j) <=> x \in AndTrees(t, i, j) \/ \E k \in S : x \in F(k)
  BY <1>1
<1>5. ASSUME NEW k \in S, x \in F(k) PROVE IsOrTree(x, t, i, j)
  <2>1. PICK l \in OrTrees(t, i, k - 1), r \in AndTrees(t, k + 1, j) : x = OrNode(l, r)
    BY <1>2, <1>5
  <2> QED BY <1>3, <2>1, Zenon DEF IsOrTree
<1>6. ASSUME NEW k \in i + 1..j - 1, NEW l \in OrTrees(t, i, k - 1), NEW r \in AndTrees(t, k + 1, j),
             tokens[k] = "OR", x = OrNode(l, r)
      PROVE  k \in S /\ x \in F(k)
  BY <1>2, <1>3, <1>6, Zenon
<1>7. IsOrTree(x, t, i, j) => x \in AndTrees(t, i, j) \/ \E k \in S : x \in F(k)
  BY <1>6, Zenon DEF IsOrTree
<1>8. x \in AndTrees(t, i, j) => IsOrTree(x, t, i, j)
  BY Zenon DEF IsOrTree
<1> QED
  BY <1>4, <1>5, <1>7, <1>8, Zenon

Ranges == 0..Len(tokens)

\* The number of tokens of i..j, and what makes it a natural number.
Size(i, j) == j + Len(tokens) + 1 - i

\* t and u agree on the intervals of a smaller size.
SameBelow(t, u, m) ==
    \A i \in Places, j \in Ranges, name \in Names :
        Size(i, j) < m => t[<<name, i, j>>] = u[<<name, i, j>>]

\* t and u agree on the parts of i..j.
SameParts(t, u, i, j) ==
    /\ i < j => /\ OrTrees(t, i + 1, j - 1) = OrTrees(u, i + 1, j - 1)
                /\ NotTrees(t, i + 1, j) = NotTrees(u, i + 1, j)
    /\ \A k \in i + 1..j : /\ AndTrees(t, i, k - 1) = AndTrees(u, i, k - 1)
                           /\ NotTrees(t, k, j) = NotTrees(u, k, j)
    /\ \A k \in i + 1..j - 1 : /\ AndTrees(t, i, k - 1) = AndTrees(u, i, k - 1)
                               /\ OrTrees(t, i, k - 1) = OrTrees(u, i, k - 1)
                               /\ NotTrees(t, k + 1, j) = NotTrees(u, k + 1, j)
                               /\ AndTrees(t, k + 1, j) = AndTrees(u, k + 1, j)

LEMMA Smaller ==
    ASSUME TokensOK, NEW t, NEW u, NEW i \in Places, NEW j \in Ranges, SameBelow(t, u, Size(i, j))
    PROVE  SameParts(t, u, i, j)
<1>1. Len(tokens) \in Nat /\ "not" \in Names /\ "and" \in Names /\ "or" \in Names
  BY TokenCount DEF Names
<1>2. i < j => /\ i + 1 \in Places /\ j - 1 \in Ranges
               /\ Size(i + 1, j - 1) < Size(i, j) /\ Size(i + 1, j) < Size(i, j)
  BY <1>1 DEF Places, Ranges, Size
<1>3. \A k \in i + 1..j : /\ k \in Places /\ k - 1 \in Ranges
                          /\ Size(i, k - 1) < Size(i, j) /\ Size(k, j) < Size(i, j)
  BY <1>1 DEF Places, Ranges, Size
<1>4. \A k \in i + 1..j - 1 : k \in i + 1..j /\ k + 1 \in Places /\ Size(k + 1, j) < Size(i, j)
  BY <1>1 DEF Places, Ranges, Size
<1>5. i < j => OrTrees(t, i + 1, j - 1) = OrTrees(u, i + 1, j - 1)
  BY <1>1, <1>2, Zenon DEF SameBelow, OrTrees
<1>6. i < j => NotTrees(t, i + 1, j) = NotTrees(u, i + 1, j)
  BY <1>1, <1>2, Zenon DEF SameBelow, NotTrees
<1>7. ASSUME NEW k \in i + 1..j
      PROVE  /\ AndTrees(t, i, k - 1) = AndTrees(u, i, k - 1)
             /\ OrTrees(t, i, k - 1) = OrTrees(u, i, k - 1)
             /\ NotTrees(t, k, j) = NotTrees(u, k, j)
  BY <1>1, <1>3, Zenon DEF SameBelow, AndTrees, OrTrees, NotTrees
<1>8. ASSUME NEW k \in i + 1..j - 1
      PROVE  /\ NotTrees(t, k + 1, j) = NotTrees(u, k + 1, j)
             /\ AndTrees(t, k + 1, j) = AndTrees(u, k + 1, j)
  BY <1>1, <1>4, Zenon DEF SameBelow, AndTrees, NotTrees
<1> QED
  BY <1>4, <1>5, <1>6, <1>7, <1>8, Zenon DEF SameParts

LEMMA TreesCarry ==
    ASSUME NEW t, NEW u, NEW i, NEW j, SameParts(t, u, i, j), NEW x
    PROVE  /\ IsNotTree(x, t, i, j) => IsNotTree(x, u, i, j)
           /\ NotTrees(t, i, j) = NotTrees(u, i, j) /\ IsAndTree(x, t, i, j) => IsAndTree(x, u, i, j)
           /\ AndTrees(t, i, j) = AndTrees(u, i, j) /\ IsOrTree(x, t, i, j) => IsOrTree(x, u, i, j)
<1>1. IsNotTree(x, t, i, j) => IsNotTree(x, u, i, j)
  BY Zenon DEF SameParts, IsNotTree
<1>2. ASSUME NEW k \in i + 1..j, NEW l \in AndTrees(t, i, k - 1), NEW r \in NotTrees(t, k, j),
             x = AndNode(l, r)
      PROVE  IsAndTree(x, u, i, j)
  <2>1. l \in AndTrees(u, i, k - 1) /\ r \in NotTrees(u, k, j)
    BY Zenon DEF SameParts
  <2> QED BY <1>2, <2>1, Zenon DEF IsAndTree
<1>3. ASSUME NEW k \in i + 1..j - 1, NEW l \in AndTrees(t, i, k - 1), NEW r \in NotTrees(t, k + 1, j),
             tokens[k] = "AND", x = AndNode(l, r)
      PROVE  IsAndTree(x, u, i, j)
  <2>1. l \in AndTrees(u, i, k - 1) /\ r \in NotTrees(u, k + 1, j)
    BY Zenon DEF SameParts
  <2> QED BY <1>3, <2>1, Zenon DEF IsAndTree
<1>4. ASSUME NotTrees(t, i, j) = NotTrees(u, i, j), x \in NotTrees(t, i, j)
      PROVE  IsAndTree(x, u, i, j)
  BY <1>4, Zenon DEF IsAndTree
<1>5. NotTrees(t, i, j) = NotTrees(u, i, j) /\ IsAndTree(x, t, i, j) => IsAndTree(x, u, i, j)
  <2>1. IsAndTree(x, t, i, j) <=>
            \/ x \in NotTrees(t, i, j)
            \/ \E k \in i + 1..j : \E l \in AndTrees(t, i, k - 1), r \in NotTrees(t, k, j) :
                  x = AndNode(l, r)
            \/ \E k \in i + 1..j - 1 : \E l \in AndTrees(t, i, k - 1), r \in NotTrees(t, k + 1, j) :
                  tokens[k] = "AND" /\ x = AndNode(l, r)
    BY Zenon DEF IsAndTree
  <2> QED BY <1>2, <1>3, <1>4, <2>1, Zenon
<1>6. ASSUME NEW k \in i + 1..j - 1, NEW l \in OrTrees(t, i, k - 1), NEW r \in AndTrees(t, k + 1, j),
             tokens[k] = "OR", x = OrNode(l, r)
      PROVE  IsOrTree(x, u, i, j)
  <2>1. l \in OrTrees(u, i, k - 1) /\ r \in AndTrees(u, k + 1, j)
    BY Zenon DEF SameParts
  <2> QED BY <1>6, <2>1, Zenon DEF IsOrTree
<1>7. AndTrees(t, i, j) = AndTrees(u, i, j) /\ IsOrTree(x, t, i, j) => IsOrTree(x, u, i, j)
  <2>1. IsOrTree(x, t, i, j) <=>
            \/ x \in AndTrees(t, i, j)
            \/ \E k \in i + 1..j - 1 : \E l \in OrTrees(t, i, k - 1), r \in AndTrees(t, k + 1, j) :
                  tokens[k] = "OR" /\ x = OrNode(l, r)
    BY Zenon DEF IsOrTree
  <2>2. AndTrees(t, i, j) = AndTrees(u, i, j) /\ x \in AndTrees(t, i, j) => IsOrTree(x, u, i, j)
    BY Zenon DEF IsOrTree
  <2> QED BY <1>6, <2>1, <2>2, Zenon
<1> QED
  BY <1>1, <1>5, <1>7

\* The trees of an interval depend on the trees of its parts, and on the symbol
\* of the next higher precedence.
LEMMA ExprIsLocal ==
    ASSUME TokensOK, NEW t, NEW u, NEW i \in Places, NEW j \in Ranges, SameBelow(t, u, Size(i, j))
    PROVE  /\ NotExpr(t, i, j) = NotExpr(u, i, j)
           /\ NotTrees(t, i, j) = NotTrees(u, i, j) => AndExpr(t, i, j) = AndExpr(u, i, j)
           /\ AndTrees(t, i, j) = AndTrees(u, i, j) => OrExpr(t, i, j) = OrExpr(u, i, j)
<1>1. SameParts(t, u, i, j)
  BY Smaller
<1>2. SameParts(u, t, i, j)
  <2>1. SameBelow(u, t, Size(i, j))
    BY Zenon DEF SameBelow
  <2> QED BY <2>1, Smaller
<1>3. NotExpr(t, i, j) = NotExpr(u, i, j)
  <2>1. \A x : x \in NotExpr(t, i, j) <=> x \in NotExpr(u, i, j)
    BY <1>1, <1>2, TreesCarry, InNotExpr
  <2> QED BY <2>1
<1>4. ASSUME NotTrees(t, i, j) = NotTrees(u, i, j)
      PROVE  AndExpr(t, i, j) = AndExpr(u, i, j)
  <2>1. \A x : x \in AndExpr(t, i, j) <=> x \in AndExpr(u, i, j)
    BY <1>1, <1>2, <1>4, TreesCarry, InAndExpr
  <2> QED BY <2>1
<1>5. ASSUME AndTrees(t, i, j) = AndTrees(u, i, j)
      PROVE  OrExpr(t, i, j) = OrExpr(u, i, j)
  <2>1. \A x : x \in OrExpr(t, i, j) <=> x \in OrExpr(u, i, j)
    BY <1>1, <1>2, <1>5, TreesCarry, InOrExpr
  <2> QED BY <2>1
<1> QED
  BY <1>3, <1>4, <1>5

LEMMA ExprIs ==
    ASSUME NEW t, NEW i, NEW j
    PROVE  /\ Expr(t, "not", i, j) = NotExpr(t, i, j)
           /\ Expr(t, "and", i, j) = AndExpr(t, i, j)
           /\ Expr(t, "or", i, j) = OrExpr(t, i, j)
<1>1. "not" # "and" /\ "not" # "or" /\ "and" # "or"
  OBVIOUS
<1> QED
  BY <1>1, Zenon DEF Expr

LEMMA SameExpr ==
    ASSUME TokensOK, NEW t, NEW u, NEW i \in Places, NEW j \in Ranges, SameBelow(t, u, Size(i, j)),
           NEW name \in Names,
           name = "and" => NotTrees(t, i, j) = NotTrees(u, i, j),
           name = "or" => AndTrees(t, i, j) = AndTrees(u, i, j)
    PROVE  Expr(t, name, i, j) = Expr(u, name, i, j)
<1>1. CASE name = "not"
  <2>1. NotExpr(t, i, j) = NotExpr(u, i, j)
    BY ExprIsLocal
  <2> QED BY <1>1, <2>1, ExprIs, Zenon
<1>2. CASE name = "and"
  <2>1. AndExpr(t, i, j) = AndExpr(u, i, j)
    BY <1>2, ExprIsLocal
  <2> QED BY <1>2, <2>1, ExprIs, Zenon
<1>3. CASE name = "or"
  <2>1. OrExpr(t, i, j) = OrExpr(u, i, j)
    BY <1>3, ExprIsLocal
  <2> QED BY <1>3, <2>1, ExprIs, Zenon
<1> QED
  BY <1>1, <1>2, <1>3, Zenon DEF Names

\* t obeys the equations for the intervals of a smaller size than m.
Grows(t, m) ==
    \A i \in Places, j \in Ranges, name \in Names :
        Size(i, j) < m => t[<<name, i, j>>] = Expr(t, name, i, j)

LEMMA GrowTrees ==
    ASSUME TokensOK, NEW m \in Nat, NEW t, Grows(t, m)
    PROVE  \E u : Grows(u, m + 1)
<1> DEFINE D  == Names \X Places \X Ranges
           t1 == [x \in D |-> IF x[1] = "not" /\ Size(x[2], x[3]) = m
                              THEN NotExpr(t, x[2], x[3]) ELSE t[x]]
           t2 == [x \in D |-> IF x[1] = "and" /\ Size(x[2], x[3]) = m
                              THEN AndExpr(t1, x[2], x[3]) ELSE t1[x]]
           t3 == [x \in D |-> IF x[1] = "or" /\ Size(x[2], x[3]) = m
                              THEN OrExpr(t2, x[2], x[3]) ELSE t2[x]]
<1>1. "not" \in Names /\ "and" \in Names /\ "or" \in Names
      /\ "not" # "and" /\ "not" # "or" /\ "and" # "or"
  BY DEF Names
<1>2. \A name \in Names, i \in Places, j \in Ranges :
         <<name, i, j>> \in D /\ <<name, i, j>>[1] = name /\ <<name, i, j>>[2] = i /\ <<name, i, j>>[3] = j
  OBVIOUS
<1> HIDE DEF D
<1>3. \A name \in Names, i \in Places, j \in Ranges :
         t1[<<name, i, j>>] = IF name = "not" /\ Size(i, j) = m THEN NotExpr(t, i, j) ELSE t[<<name, i, j>>]
  BY <1>2, Zenon
<1> HIDE DEF t1
<1>4. \A name \in Names, i \in Places, j \in Ranges :
         t2[<<name, i, j>>] = IF name = "and" /\ Size(i, j) = m THEN AndExpr(t1, i, j) ELSE t1[<<name, i, j>>]
  BY <1>2, Zenon
<1> HIDE DEF t2
<1>5. \A name \in Names, i \in Places, j \in Ranges :
         t3[<<name, i, j>>] = IF name = "or" /\ Size(i, j) = m THEN OrExpr(t2, i, j) ELSE t2[<<name, i, j>>]
  BY <1>2, Zenon
<1> HIDE DEF t3
<1>6. \A i \in Places, j \in Ranges : Size(i, j) < m => Size(i, j) # m
  BY TokenCount DEF Places, Ranges, Size
<1>7. \A i \in Places, j \in Ranges, name \in Names :
         Size(i, j) < m => /\ t1[<<name, i, j>>] = t[<<name, i, j>>]
                           /\ t2[<<name, i, j>>] = t[<<name, i, j>>]
                           /\ t3[<<name, i, j>>] = t[<<name, i, j>>]
  BY <1>3, <1>4, <1>5, <1>6, ZenonT(30)
<1>8. ASSUME NEW i \in Places, NEW j \in Ranges, Size(i, j) = m, NEW name \in Names
      PROVE  t3[<<name, i, j>>] = Expr(t3, name, i, j)
  <2>1. SameBelow(t, t3, Size(i, j)) /\ SameBelow(t1, t3, Size(i, j)) /\ SameBelow(t2, t3, Size(i, j))
    BY <1>7, <1>8, ZenonT(30) DEF SameBelow
  <2>2. /\ t3[<<"not", i, j>>] = NotExpr(t, i, j) /\ t1[<<"not", i, j>>] = NotExpr(t, i, j)
        /\ t3[<<"and", i, j>>] = AndExpr(t1, i, j) /\ t2[<<"and", i, j>>] = AndExpr(t1, i, j)
        /\ t3[<<"or", i, j>>] = OrExpr(t2, i, j)
    <3>1. t1[<<"not", i, j>>] = NotExpr(t, i, j)
      BY <1>1, <1>3, <1>8, Zenon
    <3>2. t2[<<"not", i, j>>] = t1[<<"not", i, j>>] /\ t2[<<"and", i, j>>] = AndExpr(t1, i, j)
      BY <1>1, <1>4, <1>8, Zenon
    <3>3. /\ t3[<<"not", i, j>>] = t2[<<"not", i, j>>] /\ t3[<<"and", i, j>>] = t2[<<"and", i, j>>]
          /\ t3[<<"or", i, j>>] = OrExpr(t2, i, j)
      BY <1>1, <1>5, <1>8, Zenon
    <3> QED BY <3>1, <3>2, <3>3, Zenon
  <2>3. NotTrees(t1, i, j) = NotTrees(t3, i, j) /\ AndTrees(t2, i, j) = AndTrees(t3, i, j)
    BY <2>2, Zenon DEF NotTrees, AndTrees
  <2>4. NotExpr(t, i, j) = NotExpr(t3, i, j)
    BY <2>1, ExprIsLocal
  <2>5. AndExpr(t1, i, j) = AndExpr(t3, i, j)
    BY <2>1, <2>3, ExprIsLocal
  <2>6. OrExpr(t2, i, j) = OrExpr(t3, i, j)
    BY <2>1, <2>3, ExprIsLocal
  <2>7. CASE name = "not"
    BY <2>2, <2>4, <2>7, ExprIs, ZenonT(30)
  <2>8. CASE name = "and"
    BY <2>2, <2>5, <2>8, ExprIs, ZenonT(30)
  <2>9. CASE name = "or"
    BY <2>2, <2>6, <2>9, ExprIs, Zenon
  <2> QED BY <2>7, <2>8, <2>9, Zenon DEF Names
<1>9. ASSUME NEW i \in Places, NEW j \in Ranges, Size(i, j) < m, NEW name \in Names
      PROVE  t3[<<name, i, j>>] = Expr(t3, name, i, j)
  <2>1. SameBelow(t, t3, Size(i, j))
    <3>1. \A k \in Places, l \in Ranges : Size(k, l) < Size(i, j) => Size(k, l) < m
      BY <1>9, TokenCount DEF Places, Ranges, Size
    <3> QED BY <1>7, <3>1, Zenon DEF SameBelow
  <2>2. NotTrees(t, i, j) = NotTrees(t3, i, j) /\ AndTrees(t, i, j) = AndTrees(t3, i, j)
    BY <1>1, <1>7, <1>9, Zenon DEF NotTrees, AndTrees
  <2>3. Expr(t, name, i, j) = Expr(t3, name, i, j)
    BY <2>1, <2>2, SameExpr
  <2>4. t[<<name, i, j>>] = Expr(t, name, i, j)
    BY <1>9, Zenon DEF Grows
  <2> QED BY <1>7, <1>9, <2>3, <2>4, Zenon
<1>10. \A i \in Places, j \in Ranges : Size(i, j) < m + 1 => Size(i, j) < m \/ Size(i, j) = m
  BY TokenCount DEF Places, Ranges, Size
<1>11. Grows(t3, m + 1)
  BY <1>8, <1>9, <1>10, Zenon DEF Grows
<1> QED
  BY <1>11

LEMMA TreesExist ==
    ASSUME TokensOK, NEW n \in Nat
    PROVE  \E t : Grows(t, n)
<1> DEFINE T == {m \in Nat : ~ \E t : Grows(t, m)}
<1> SUFFICES ASSUME T # {} PROVE FALSE
  OBVIOUS
<1>1. PICK m \in T : \A k \in T : m <= k
  <2>1. T \subseteq Nat
    OBVIOUS
  <2> HIDE DEF T
  <2> QED BY <2>1, LeastNumber
<1>2. m \in Nat /\ ~ \E t : Grows(t, m)
  BY <1>1
<1>3. m # 0
  <2>1. \A i \in Places, j \in Ranges : ~(Size(i, j) < 0)
    BY TokenCount DEF Places, Ranges, Size
  <2>2. \A t : Grows(t, 0)
    BY <2>1, Zenon DEF Grows
  <2> QED BY <1>2, <2>2
<1>4. m - 1 \in Nat /\ ~(m <= m - 1) /\ m - 1 + 1 = m
  BY <1>2, <1>3
<1>5. \E t : Grows(t, m - 1)
  BY <1>1, <1>4
<1>6. \E t : Grows(t, m - 1 + 1)
  BY <1>4, <1>5, GrowTrees
<1> QED
  BY <1>2, <1>4, <1>6

LEMMA TreesAreDefined ==
    ASSUME TokensOK
    PROVE  Trees = [x \in {"not", "and", "or"} \X (1..Len(tokens) + 1) \X (0..Len(tokens)) |->
                       Expr(Trees, x[1], x[2], x[3])]
<1> DEFINE D == {"not", "and", "or"} \X (1..Len(tokens) + 1) \X (0..Len(tokens))
           M == 2 * Len(tokens) + 2
<1>1. M \in Nat /\ \A i \in Places, j \in Ranges : Size(i, j) < M
  BY TokenCount DEF Places, Ranges, Size
<1> HIDE DEF M
<1>2. PICK t : Grows(t, M)
  BY <1>1, TreesExist
<1> DEFINE h == [x \in D |-> t[x]]
<1>3. \A i \in Places, j \in Ranges, name \in Names :
         /\ <<name, i, j>> \in D
         /\ h[<<name, i, j>>] = t[<<name, i, j>>]
  BY DEF Places, Names, Ranges
<1>4. \A x \in D : \E i \in Places, j \in Ranges, name \in Names :
         x = <<name, i, j>> /\ x[1] = name /\ x[2] = i /\ x[3] = j
  BY DEF Places, Names, Ranges
<1> HIDE DEF h, D
<1>5. ASSUME NEW i \in Places, NEW j \in Ranges, NEW name \in Names
      PROVE  h[<<name, i, j>>] = Expr(h, name, i, j)
  <2>1. SameBelow(t, h, Size(i, j))
    BY <1>3, Zenon DEF SameBelow
  <2>2. NotTrees(t, i, j) = NotTrees(h, i, j) /\ AndTrees(t, i, j) = AndTrees(h, i, j)
    <3>1. "not" \in Names /\ "and" \in Names
      BY DEF Names
    <3> QED BY <1>3, <3>1, Zenon DEF NotTrees, AndTrees
  <2>3. Expr(t, name, i, j) = Expr(h, name, i, j)
    BY <2>1, <2>2, SameExpr
  <2>4. t[<<name, i, j>>] = Expr(t, name, i, j)
    BY <1>1, <1>2, Zenon DEF Grows
  <2> QED BY <1>3, <2>3, <2>4, Zenon
<1>6. ASSUME NEW x \in D PROVE h[x] = Expr(h, x[1], x[2], x[3])
  <2>1. PICK i \in Places, j \in Ranges, name \in Names :
            x = <<name, i, j>> /\ x[1] = name /\ x[2] = i /\ x[3] = j
    BY <1>4
  <2> QED BY <1>5, <2>1, Zenon
<1>7. h = [x \in D |-> Expr(h, x[1], x[2], x[3])]
  <2>1. h = [x \in D |-> h[x]]
    BY Zenon DEF h
  <2> QED BY <1>6, <2>1, Zenon
<1> QED
  BY <1>7, Zenon DEF Trees, D

LEMMA TreesObey ==
    ASSUME TokensOK
    PROVE  \A i \in Places, j \in Ranges, name \in Names :
              Trees[<<name, i, j>>] = Expr(Trees, name, i, j)
<1> DEFINE D == {"not", "and", "or"} \X (1..Len(tokens) + 1) \X (0..Len(tokens))
<1>1. Trees = [x \in D |-> Expr(Trees, x[1], x[2], x[3])]
  BY TreesAreDefined
<1> TAKE i \in Places, j \in Ranges, name \in Names
<1> DEFINE x == <<name, i, j>>
<1>2. x \in D /\ x[1] = name /\ x[2] = i /\ x[3] = j
  BY DEF Places, Names, Ranges
<1> HIDE DEF x, D
<1>3. Trees[x] = Expr(Trees, x[1], x[2], x[3])
  BY <1>1, <1>2, Zenon
<1> QED
  BY <1>2, <1>3, Zenon DEF x

LEMMA NotTreesAre ==
    ASSUME TokensOK, NEW i \in Places, NEW j \in Ranges, NEW x
    PROVE  x \in NotTrees(Trees, i, j) <=> IsNotTree(x, Trees, i, j)
<1>1. NotTrees(Trees, i, j) = Expr(Trees, "not", i, j)
  <2>1. "not" \in Names
    BY DEF Names
  <2> QED BY <2>1, TreesObey, Zenon DEF NotTrees
<1> QED
  BY <1>1, ExprIs, InNotExpr

LEMMA AndTreesAre ==
    ASSUME TokensOK, NEW i \in Places, NEW j \in Ranges, NEW x
    PROVE  x \in AndTrees(Trees, i, j) <=> IsAndTree(x, Trees, i, j)
<1>1. AndTrees(Trees, i, j) = Expr(Trees, "and", i, j)
  <2>1. "and" \in Names
    BY DEF Names
  <2> QED BY <2>1, TreesObey, Zenon DEF AndTrees
<1> QED
  BY <1>1, ExprIs, InAndExpr

LEMMA OrTreesAre ==
    ASSUME TokensOK, NEW i \in Places, NEW j \in Ranges, NEW x
    PROVE  x \in OrTrees(Trees, i, j) <=> IsOrTree(x, Trees, i, j)
<1>1. OrTrees(Trees, i, j) = Expr(Trees, "or", i, j)
  <2>1. "or" \in Names
    BY DEF Names
  <2> QED BY <2>1, TreesObey, Zenon DEF OrTrees
<1> QED
  BY <1>1, ExprIs, InOrExpr

\* A tree has tokens.
LEMMA TreesHaveTokens ==
    ASSUME TokensOK, NEW i \in Places, NEW j \in Ranges
    PROVE  /\ NotTrees(Trees, i, j) # {} => i <= j /\ starts_primary(Kind(i))
           /\ AndTrees(Trees, i, j) # {} => i <= j
           /\ OrTrees(Trees, i, j) # {} => i <= j
<1>1. i \in Nat /\ j \in Nat /\ Len(tokens) \in Nat /\ j <= Len(tokens) /\ 1 <= i
  BY TokenCount DEF Places, Ranges
<1>2. ASSUME NEW x \in NotTrees(Trees, i, j) PROVE i <= j /\ starts_primary(Kind(i))
  <2>1. IsNotTree(x, Trees, i, j)
    BY NotTreesAre
  <2>2. (i = j \/ i < j) /\ tokens[i] \in {"TERM", "PHRASE", "(", "NOT"}
    BY <2>1 DEF IsNotTree
  <2>3. i \in 1..Len(tokens)
    BY <1>1, <2>2
  <2>4. Kind(i) = tokens[i]
    BY <2>3, KindsInside
  <2> QED BY <1>1, <2>2, <2>4 DEF starts_primary
<1>3. ASSUME NEW x \in AndTrees(Trees, i, j) PROVE i <= j
  <2>1. IsAndTree(x, Trees, i, j)
    BY AndTreesAre
  <2>2. \/ x \in NotTrees(Trees, i, j)
        \/ \E k \in i + 1..j : TRUE
        \/ \E k \in i + 1..j - 1 : TRUE
    BY <2>1, Zenon DEF IsAndTree
  <2> QED BY <1>1, <1>2, <2>2
<1>4. ASSUME NEW x \in OrTrees(Trees, i, j) PROVE i <= j
  <2>1. IsOrTree(x, Trees, i, j)
    BY OrTreesAre
  <2>2. \/ x \in AndTrees(Trees, i, j)
        \/ \E k \in i + 1..j - 1 : TRUE
    BY <2>1, Zenon DEF IsOrTree
  <2> QED BY <1>1, <1>3, <2>2
<1> QED
  BY <1>2, <1>3, <1>4

-----------------------------------------------------------------------------
(* The calls of the descent, as the code makes them.                       *)

NotCall(p)    == Calls[<<"not", p, 0>>]
AndCall(p, n) == Calls[<<"and", p, n>>]
OrCall(p, n)  == Calls[<<"or", p, n>>]

LEMMA Descent ==
    ASSUME TokensOK, NEW p \in Places
    PROVE  /\ parse_not(Calls, p) = NotCall(p)
           /\ parse_and(Calls, p) = AndCall(p, Len(tokens))
           /\ parse_or(Calls, p) = OrCall(p, Len(tokens))
           /\ NotCall(p) = NotBody(Calls, p)
           /\ AndCall(p, 0) = NotCall(p)
           /\ OrCall(p, 0) = AndCall(p, Len(tokens))
           /\ \A n \in 1..Len(tokens) : /\ AndCall(p, n) = AndRound(Calls, AndCall(p, n - 1))
                                        /\ OrCall(p, n) = OrRound(Calls, OrCall(p, n - 1))
           /\ IsResult(NotCall(p), p)
           /\ \A n \in Ranges : IsResult(AndCall(p, n), p) /\ IsResult(OrCall(p, n), p)
<1> DEFINE N == Len(tokens)
<1>1. N \in Nat /\ 0 \in 0..N /\ N \in 0..N
  BY TokenCount
<1>2. /\ "not" \in Names /\ "and" \in Names /\ "or" \in Names
      /\ "not" # "and" /\ "not" # "or" /\ "and" # "or"
  BY DEF Names
<1>3. \A name \in Names, n \in 0..N : /\ Calls[<<name, p, n>>] = Body(Calls, name, p, n)
                                      /\ IsResult(Calls[<<name, p, n>>], p)
  BY CallsObey, CallsReturn
<1>4. NotCall(p) = NotBody(Calls, p)
  <2>1. Body(Calls, "not", p, 0) = NotBody(Calls, p)
    BY <1>2, BodyIs
  <2> QED BY <1>1, <1>2, <1>3, <2>1, Zenon DEF NotCall
<1>5. AndCall(p, 0) = NotCall(p)
  <2>1. Body(Calls, "and", p, 0) = Calls[First("and", p)]
    BY <1>2, BodyIs
  <2>2. First("and", p) = <<"not", p, 0>>
    BY Zenon DEF First
  <2> QED BY <1>1, <1>2, <1>3, <2>1, <2>2, Zenon DEF NotCall, AndCall
<1>6. OrCall(p, 0) = AndCall(p, N)
  <2>1. Body(Calls, "or", p, 0) = Calls[First("or", p)]
    BY <1>2, BodyIs
  <2>2. First("or", p) = <<"and", p, N>>
    BY <1>2, Zenon DEF First
  <2> QED BY <1>1, <1>2, <1>3, <2>1, <2>2, Zenon DEF OrCall, AndCall
<1>7. ASSUME NEW n \in 1..N
      PROVE  /\ AndCall(p, n) = AndRound(Calls, AndCall(p, n - 1))
             /\ OrCall(p, n) = OrRound(Calls, OrCall(p, n - 1))
  <2>1. n \in 0..N /\ n # 0
    BY <1>1
  <2>2. /\ Body(Calls, "and", p, n) = Round("and", Calls, Calls[<<"and", p, n - 1>>])
        /\ Body(Calls, "or", p, n) = Round("or", Calls, Calls[<<"or", p, n - 1>>])
    BY <1>2, <2>1, BodyIs
  <2>3. \A left : Round("and", Calls, left) = AndRound(Calls, left) /\ Round("or", Calls, left) = OrRound(Calls, left)
    BY <1>2, Zenon DEF Round
  <2> QED BY <1>2, <1>3, <2>1, <2>2, <2>3, Zenon DEF AndCall, OrCall
<1>8. IsResult(NotCall(p), p)
  BY <1>1, <1>2, <1>3, Zenon DEF NotCall
<1>9. \A n \in Ranges : IsResult(AndCall(p, n), p) /\ IsResult(OrCall(p, n), p)
  BY <1>2, <1>3, Zenon DEF AndCall, OrCall, Ranges
<1> QED
  BY <1>4, <1>5, <1>6, <1>7, <1>8, <1>9, Zenon DEF parse_not, parse_and, parse_or, NotCall, AndCall, OrCall

LEMMA NextRound ==
    ASSUME TokensOK, NEW p \in Places, NEW n \in Ranges, n + 1 \in 1..Len(tokens)
    PROVE  /\ AndCall(p, n + 1) = AndRound(Calls, AndCall(p, n))
           /\ OrCall(p, n + 1) = OrRound(Calls, OrCall(p, n))
<1>0. PICK m \in 1..Len(tokens) : m = n + 1
  OBVIOUS
<1>1. /\ AndCall(p, m) = AndRound(Calls, AndCall(p, m - 1))
      /\ OrCall(p, m) = OrRound(Calls, OrCall(p, m - 1))
  BY Descent
<1>2. m - 1 = n
  BY <1>0, TokenCount DEF Ranges
<1> QED
  BY <1>0, <1>1, <1>2, Zenon

-----------------------------------------------------------------------------
(* What the descent returns is a tree of the tokens it has consumed.       *)

NotSound(p)    == NotCall(p) # Error => NotCall(p).node \in NotTrees(Trees, p, NotCall(p).pos - 1)
AndSound(p, n) == AndCall(p, n) # Error => AndCall(p, n).node \in AndTrees(Trees, p, AndCall(p, n).pos - 1)
OrSound(p, n)  == OrCall(p, n) # Error => OrCall(p, n).node \in OrTrees(Trees, p, OrCall(p, n).pos - 1)

LEMMA ResultEnds ==
    ASSUME TokensOK, NEW p \in Places, NEW r, IsResult(r, p), r # Error
    PROVE  /\ r.pos - 1 \in Ranges /\ r.pos \in Places /\ p < r.pos /\ p <= r.pos - 1
           /\ p \in Nat /\ r.pos \in Nat /\ r.pos <= Len(tokens) + 1 /\ r.pos - 1 + 1 = r.pos
           /\ r = Parsed(r.node, r.pos)
<1>1. r.pos \in p + 1..Len(tokens) + 1 /\ r = Parsed(r.node, r.pos)
  BY Zenon DEF IsResult
<1>2. p \in 1..Len(tokens) + 1 /\ Len(tokens) \in Nat
  BY TokenCount DEF Places
<1> QED
  BY <1>1, <1>2 DEF Places, Ranges

LEMMA NotIsSound ==
    ASSUME TokensOK, NEW p \in Places,
           p + 1 \in Places => NotSound(p + 1) /\ OrSound(p + 1, Len(tokens))
    PROVE  NotSound(p)
<1> SUFFICES ASSUME NotCall(p) # Error
             PROVE  NotCall(p).node \in NotTrees(Trees, p, NotCall(p).pos - 1)
  BY DEF NotSound
<1>1. Len(tokens) \in Nat /\ Len(tokens) \in Ranges
  BY TokenCount DEF Ranges
<1>2. NotCall(p) = NotBody(Calls, p) /\ IsResult(NotCall(p), p)
  BY Descent
<1>3. NotCall(p).pos - 1 \in Ranges
  BY <1>2, ResultEnds
<1> SUFFICES IsNotTree(NotCall(p).node, Trees, p, NotCall(p).pos - 1)
  BY <1>3, NotTreesAre
<1>4. ASSUME Kind(p) # "END"
      PROVE  p \in 1..Len(tokens) /\ tokens[p] = Kind(p) /\ p + 1 \in Places /\ p + 1 - 1 = p
  BY <1>1, <1>4, KindsInside DEF Places
<1>5. CASE Kind(p) = "NOT"
  <2> DEFINE operand == NotCall(p + 1)
  <2>1. p + 1 \in Places /\ tokens[p] = "NOT"
    BY <1>4, <1>5
  <2>2. parse_not(Calls, p + 1) = operand /\ IsResult(operand, p + 1)
    BY <2>1, Descent
  <2>3. NotBody(Calls, p) = IF starts_primary(Kind(p + 1)) /\ operand # Error
                            THEN Parsed(NotNode(operand.node), operand.pos) ELSE Error
    BY <1>5, <2>2, Zenon DEF NotBody
  <2>4. operand # Error /\ operand.node \in NotTrees(Trees, p + 1, operand.pos - 1)
    BY <1>2, <2>1, <2>3, Zenon DEF NotSound
  <2>5. NotCall(p).node = NotNode(operand.node) /\ NotCall(p).pos = operand.pos
    <3>1. NotCall(p) = Parsed(NotNode(operand.node), operand.pos)
      BY <1>2, <2>3, Zenon
    <3> HIDE DEF operand
    <3> QED BY <3>1, PartsOf
  <2>6. p < operand.pos - 1
    <3>1. p + 1 <= operand.pos - 1 /\ operand.pos - 1 \in Ranges
      BY <2>1, <2>2, <2>4, ResultEnds
    <3> QED BY <1>1, <3>1 DEF Places, Ranges
  <2> QED BY <2>1, <2>4, <2>5, <2>6, Zenon DEF IsNotTree
<1>6. CASE Kind(p) = "("
  <2> DEFINE inner == OrCall(p + 1, Len(tokens))
  <2>1. p + 1 \in Places /\ tokens[p] = "("
    BY <1>4, <1>6
  <2>2. parse_or(Calls, p + 1) = inner /\ IsResult(inner, p + 1)
    BY <1>1, <2>1, Descent
  <2>3. NotBody(Calls, p) = IF inner # Error /\ Kind(inner.pos) = ")"
                            THEN Parsed(inner.node, inner.pos + 1) ELSE Error
    BY <1>6, <2>2, Zenon DEF NotBody, parse_primary
  <2>4. inner # Error /\ Kind(inner.pos) = ")" /\ inner.node \in OrTrees(Trees, p + 1, inner.pos - 1)
    BY <1>2, <2>1, <2>3, Zenon DEF OrSound
  <2>5. NotCall(p).node = inner.node /\ NotCall(p).pos = inner.pos + 1
    <3>1. NotCall(p) = Parsed(inner.node, inner.pos + 1)
      BY <1>2, <2>3, <2>4, Zenon
    <3> HIDE DEF inner
    <3> QED BY <3>1, PartsOf
  <2>6. p < inner.pos /\ inner.pos \in Nat
    <3>1. p + 1 < inner.pos /\ inner.pos \in Places
      BY <2>1, <2>2, <2>4, ResultEnds
    <3> QED BY <1>1, <3>1 DEF Places
  <2>7. tokens[inner.pos] = ")"
    BY <2>4, KindsInside
  <2>8. IsNotTree(inner.node, Trees, p, inner.pos)
    BY <2>1, <2>4, <2>6, <2>7, Zenon DEF IsNotTree
  <2>9. NotCall(p).pos - 1 = inner.pos
    <3> HIDE DEF inner
    <3> QED BY <2>5, <2>6
  <2> QED BY <2>5, <2>8, <2>9, Zenon
<1>7. CASE Kind(p) = "TERM"
  <2>1. NotBody(Calls, p) = Parsed(TermNode(p), p + 1)
    BY <1>7 DEF NotBody, parse_primary
  <2>2. NotCall(p).node = TermNode(p) /\ NotCall(p).pos = p + 1
    <3>1. NotCall(p) = Parsed(TermNode(p), p + 1)
      BY <1>2, <2>1, Zenon
    <3> QED BY <3>1, PartsOf
  <2> QED BY <1>4, <1>7, <2>2 DEF IsNotTree
<1>8. CASE Kind(p) = "PHRASE"
  <2>1. NotBody(Calls, p) = Parsed(PhraseNode(p), p + 1)
    BY <1>8 DEF NotBody, parse_primary
  <2>2. NotCall(p).node = PhraseNode(p) /\ NotCall(p).pos = p + 1
    <3>1. NotCall(p) = Parsed(PhraseNode(p), p + 1)
      BY <1>2, <2>1, Zenon
    <3> QED BY <3>1, PartsOf
  <2> QED BY <1>4, <1>8, <2>2 DEF IsNotTree
<1>9. CASE Kind(p) \notin {"TERM", "PHRASE", "(", "NOT"}
  <2>1. NotBody(Calls, p) = Error
    BY <1>9, Zenon DEF NotBody, parse_primary
  <2> QED BY <1>2, <2>1
<1> QED
  BY <1>5, <1>6, <1>7, <1>8, <1>9

LEMMA AndIsSound ==
    ASSUME TokensOK, NEW p \in Places, \A q \in Places : p <= q => NotSound(q)
    PROVE  \A n \in Ranges : AndSound(p, n)
<1> DEFINE T == {n \in Ranges : ~AndSound(p, n)}
<1> SUFFICES ASSUME T # {} PROVE FALSE
  BY Zenon
<1>1. PICK n \in T : \A k \in T : n <= k
  <2>1. T \subseteq Nat
    BY TokenCount DEF Ranges
  <2> HIDE DEF T
  <2> QED BY <2>1, LeastNumber
<1>2. n \in Ranges /\ ~AndSound(p, n)
  BY <1>1
<1>3. Len(tokens) \in Nat /\ p \in Nat /\ 1 <= p
  BY TokenCount DEF Places
<1>4. CASE n = 0
  <2>1. AndCall(p, 0) = NotCall(p) /\ IsResult(NotCall(p), p)
    BY Descent
  <2>2. NotCall(p) # Error
    BY <1>2, <1>4, <2>1, Zenon DEF AndSound
  <2>3. NotCall(p).node \in NotTrees(Trees, p, NotCall(p).pos - 1)
    BY <1>3, <2>2 DEF NotSound
  <2>4. NotCall(p).pos - 1 \in Ranges
    BY <2>1, <2>2, ResultEnds
  <2>5. NotCall(p).node \in AndTrees(Trees, p, NotCall(p).pos - 1)
    BY <2>3, <2>4, AndTreesAre, Zenon DEF IsAndTree
  <2> QED BY <1>2, <1>4, <2>1, <2>5, Zenon DEF AndSound
<1>5. CASE n # 0
  <2>1. n - 1 \in Ranges /\ ~(n <= n - 1) /\ n \in 1..Len(tokens)
    BY <1>2, <1>3, <1>5 DEF Ranges
  <2>2. AndSound(p, n - 1)
    BY <1>1, <2>1
  <2> DEFINE left     == AndCall(p, n - 1)
             explicit == Kind(left.pos) = "AND"
             start    == IF explicit THEN left.pos + 1 ELSE left.pos
             right    == NotCall(start)
             r        == AndCall(p, n)
  <2>3. r = AndRound(Calls, left) /\ IsResult(left, p) /\ IsResult(r, p)
    BY <1>2, <2>1, Descent
  <2>4. r # Error
    BY <1>2, Zenon DEF AndSound
  <2>5. left # Error
    BY <2>3, <2>4, Zenon DEF AndRound
  <2>6. left.node \in AndTrees(Trees, p, left.pos - 1)
    BY <2>2, <2>5 DEF AndSound
  <2>7. r = IF starts_primary(Kind(start))
            THEN IF parse_not(Calls, start) = Error THEN Error
                 ELSE Parsed(AndNode(left.node, parse_not(Calls, start).node), parse_not(Calls, start).pos)
            ELSE IF explicit THEN Error ELSE left
    BY <2>3, <2>5, Zenon DEF AndRound
  <2>8. left.pos \in Places /\ p < left.pos /\ left.pos \in Nat /\ p <= left.pos - 1
    BY <2>3, <2>5, ResultEnds
  <2>9. CASE starts_primary(Kind(start))
    <3>1. start \in Places /\ start \in 1..Len(tokens)
      BY <1>3, <2>9, Starts DEF Places
    <3>2. parse_not(Calls, start) = right /\ IsResult(right, start)
      BY <3>1, Descent
    <3>3. right # Error
      BY <2>4, <2>7, <2>9, <3>2, Zenon
    <3>4. p <= start
      BY <1>3, <2>8
    <3>5. right.node \in NotTrees(Trees, start, right.pos - 1)
      BY <3>1, <3>3, <3>4, Zenon DEF NotSound
    <3>6. right.pos - 1 \in Ranges /\ start <= right.pos - 1
      BY <3>1, <3>2, <3>3, ResultEnds
    <3>7. r.node = AndNode(left.node, right.node) /\ r.pos = right.pos
      <4>1. r = Parsed(AndNode(left.node, right.node), right.pos)
        BY <2>7, <2>9, <3>2, <3>3, Zenon
      <4> HIDE DEF r, left, right
      <4> QED BY <4>1, PartsOf
    <3>8. CASE explicit
      <4>1. start = left.pos + 1 /\ tokens[left.pos] = "AND"
        BY <3>8, KindsInside
      <4>2. left.pos \in p + 1..right.pos - 1 - 1
        BY <1>3, <2>8, <3>6, <4>1, SMTT(30) DEF Ranges
      <4>3. IsAndTree(r.node, Trees, p, right.pos - 1)
        BY <2>6, <3>5, <3>7, <4>1, <4>2, Zenon DEF IsAndTree
      <4> QED BY <1>2, <3>6, <3>7, <4>3, AndTreesAre, Zenon DEF AndSound
    <3>9. CASE ~explicit
      <4>1. start = left.pos
        BY <3>9
      <4>2. left.pos \in p + 1..right.pos - 1
        BY <1>3, <2>8, <3>6, <4>1 DEF Ranges
      <4>3. IsAndTree(r.node, Trees, p, right.pos - 1)
        BY <2>6, <3>5, <3>7, <4>1, <4>2, Zenon DEF IsAndTree
      <4> QED BY <1>2, <3>6, <3>7, <4>3, AndTreesAre, Zenon DEF AndSound
    <3> QED BY <3>8, <3>9
  <2>10. CASE ~starts_primary(Kind(start))
    <3>1. r = left
      BY <2>4, <2>7, <2>10, Zenon
    <3> QED BY <1>2, <2>6, <3>1, Zenon DEF AndSound
  <2> QED BY <2>9, <2>10
<1> QED
  BY <1>4, <1>5

LEMMA OrIsSound ==
    ASSUME TokensOK, NEW p \in Places, \A q \in Places : p <= q => AndSound(q, Len(tokens))
    PROVE  \A n \in Ranges : OrSound(p, n)
<1> DEFINE T == {n \in Ranges : ~OrSound(p, n)}
           N == Len(tokens)
<1> SUFFICES ASSUME T # {} PROVE FALSE
  BY Zenon
<1>1. PICK n \in T : \A k \in T : n <= k
  <2>1. T \subseteq Nat
    BY TokenCount DEF Ranges
  <2> HIDE DEF T
  <2> QED BY <2>1, LeastNumber
<1>2. n \in Ranges /\ ~OrSound(p, n)
  BY <1>1
<1>3. N \in Nat /\ p \in Nat /\ 1 <= p /\ N \in Ranges
  BY TokenCount DEF Places, Ranges
<1>4. CASE n = 0
  <2>1. OrCall(p, 0) = AndCall(p, N) /\ IsResult(AndCall(p, N), p)
    BY <1>3, Descent
  <2>2. AndCall(p, N) # Error
    BY <1>2, <1>4, <2>1, Zenon DEF OrSound
  <2>3. AndCall(p, N).node \in AndTrees(Trees, p, AndCall(p, N).pos - 1)
    BY <1>3, <2>2 DEF AndSound
  <2>4. AndCall(p, N).pos - 1 \in Ranges
    BY <2>1, <2>2, ResultEnds
  <2>5. AndCall(p, N).node \in OrTrees(Trees, p, AndCall(p, N).pos - 1)
    BY <2>3, <2>4, OrTreesAre, Zenon DEF IsOrTree
  <2> QED BY <1>2, <1>4, <2>1, <2>5, Zenon DEF OrSound
<1>5. CASE n # 0
  <2>1. n - 1 \in Ranges /\ ~(n <= n - 1) /\ n \in 1..N
    BY <1>2, <1>3, <1>5 DEF Ranges
  <2>2. OrSound(p, n - 1)
    BY <1>1, <2>1
  <2> DEFINE left  == OrCall(p, n - 1)
             start == left.pos + 1
             right == AndCall(start, N)
             r     == OrCall(p, n)
  <2>3. r = OrRound(Calls, left) /\ IsResult(left, p) /\ IsResult(r, p)
    BY <1>2, <2>1, Descent
  <2>4. r # Error
    BY <1>2, Zenon DEF OrSound
  <2>5. left # Error
    BY <2>3, <2>4, Zenon DEF OrRound
  <2>6. left.node \in OrTrees(Trees, p, left.pos - 1)
    BY <2>2, <2>5 DEF OrSound
  <2>7. r = IF Kind(left.pos) # "OR" THEN left
            ELSE IF ~starts_primary(Kind(start)) \/ parse_and(Calls, start) = Error THEN Error
            ELSE Parsed(OrNode(left.node, parse_and(Calls, start).node), parse_and(Calls, start).pos)
    BY <2>3, <2>5, Zenon DEF OrRound
  <2>8. left.pos \in Places /\ p < left.pos /\ left.pos \in Nat /\ p <= left.pos - 1
    BY <2>3, <2>5, ResultEnds
  <2>9. CASE Kind(left.pos) = "OR"
    <3>1. starts_primary(Kind(start)) /\ parse_and(Calls, start) # Error
      BY <2>4, <2>7, <2>9, Zenon
    <3>2. start \in Places /\ start \in 1..N
      BY <1>3, <3>1, Starts DEF Places
    <3>3. parse_and(Calls, start) = right /\ IsResult(right, start)
      BY <1>3, <3>2, Descent
    <3>4. p <= start
      BY <1>3, <2>8
    <3>5. right.node \in AndTrees(Trees, start, right.pos - 1)
      BY <3>1, <3>2, <3>3, <3>4, Zenon DEF AndSound
    <3>6. right.pos - 1 \in Ranges /\ start <= right.pos - 1
      BY <3>1, <3>2, <3>3, ResultEnds
    <3>7. r.node = OrNode(left.node, right.node) /\ r.pos = right.pos
      <4>1. r = Parsed(OrNode(left.node, right.node), right.pos)
        BY <2>7, <2>9, <3>1, <3>3, Zenon
      <4> HIDE DEF r, left, right
      <4> QED BY <4>1, PartsOf
    <3>8. tokens[left.pos] = "OR"
      BY <2>9, KindsInside
    <3>9. left.pos \in p + 1..right.pos - 1 - 1
      BY <1>3, <2>8, <3>6 DEF Ranges
    <3>10. IsOrTree(r.node, Trees, p, right.pos - 1)
      BY <2>6, <3>5, <3>7, <3>8, <3>9, Zenon DEF IsOrTree
    <3> QED BY <1>2, <3>6, <3>7, <3>10, OrTreesAre, Zenon DEF OrSound
  <2>10. CASE Kind(left.pos) # "OR"
    <3>1. r = left
      BY <2>7, <2>10, Zenon
    <3> QED BY <1>2, <2>6, <3>1, Zenon DEF OrSound
  <2> QED BY <2>9, <2>10
<1> QED
  BY <1>4, <1>5

LEMMA DescentIsSound ==
    ASSUME TokensOK
    PROVE  \A p \in Places : OrSound(p, Len(tokens))
<1> DEFINE N == Len(tokens)
           T == {p \in Places : ~NotSound(p)}
<1>1. N \in Nat /\ N \in Ranges
  BY TokenCount DEF Ranges
<1>2. ASSUME NEW p \in Places, \A q \in Places : p <= q => NotSound(q)
      PROVE  OrSound(p, N)
  <2>1. \A q \in Places : p <= q => \A r \in Places : q <= r => p <= r
    BY <1>1 DEF Places
  <2>2. \A q \in Places : p <= q => AndSound(q, N)
    <3> TAKE q \in Places
    <3> HAVE p <= q
    <3>1. \A r \in Places : q <= r => NotSound(r)
      BY <1>2, <2>1
    <3>2. \A n \in Ranges : AndSound(q, n)
      BY <3>1, AndIsSound
    <3> QED BY <1>1, <3>2
  <2>3. \A n \in Ranges : OrSound(p, n)
    BY <2>2, OrIsSound
  <2> QED BY <1>1, <2>3
<1>3. T = {}
  <2> SUFFICES ASSUME T # {} PROVE FALSE
    OBVIOUS
  <2>1. PICK p \in T : \A q \in T : q <= p
    <3>1. T \subseteq 0..N + 1 /\ N + 1 \in Nat
      BY <1>1 DEF Places
    <3> HIDE DEF T
    <3> QED BY <3>1, GreatestNumber
  <2>2. p \in Places /\ ~NotSound(p)
    BY <2>1
  <2>3. ASSUME p + 1 \in Places PROVE NotSound(p + 1) /\ OrSound(p + 1, N)
    <3>1. \A q \in Places : p + 1 <= q => ~(q <= p)
      BY <1>1, <2>2 DEF Places
    <3>2. \A q \in Places : p + 1 <= q => NotSound(q)
      BY <2>1, <3>1
    <3>3. p + 1 <= p + 1
      BY <2>2, <1>1 DEF Places
    <3> QED BY <1>2, <2>3, <3>2, <3>3
  <2> QED BY <2>2, <2>3, NotIsSound
<1>4. \A p \in Places : NotSound(p)
  BY <1>3, Zenon
<1> QED
  BY <1>2, <1>4, Zenon

-----------------------------------------------------------------------------
(* Every tree is returned: the descent refuses no query of the grammar and *)
(* finds no other tree for it.                                             *)

AndStops(p) == Kind(p) # "AND" /\ ~starts_primary(Kind(p))

LEMMA ParsedIsNoError ==
    ASSUME TokensOK, NEW pos \in Places, NEW t
    PROVE  Parsed(t, pos) # Error
<1>1. Parsed(t, pos).pos = pos /\ Error.pos = 0
  BY DEF Parsed, Error
<1>2. pos # 0
  BY TokenCount DEF Places
<1> QED
  BY <1>1, <1>2

\* A loop that has ended stays as it is.
LEMMA AndStays ==
    ASSUME TokensOK, NEW i \in Places, NEW pos \in Places, NEW t, AndStops(pos),
           NEW n \in Ranges, AndCall(i, n) = Parsed(t, pos)
    PROVE  AndCall(i, Len(tokens)) = Parsed(t, pos)
<1> DEFINE N == Len(tokens)
           T == {m \in Ranges : n <= m /\ AndCall(i, m) # Parsed(t, pos)}
<1>1. N \in Nat /\ N \in Ranges /\ n <= N
  BY TokenCount DEF Ranges
<1> SUFFICES ASSUME T # {} PROVE FALSE
  BY <1>1
<1>2. PICK m \in T : \A k \in T : m <= k
  <2>1. T \subseteq Nat
    BY <1>1 DEF Ranges
  <2> HIDE DEF T
  <2> QED BY <2>1, LeastNumber
<1>3. m \in Ranges /\ n <= m /\ AndCall(i, m) # Parsed(t, pos) /\ m # n
  BY <1>2
<1>4. m - 1 \in Ranges /\ n <= m - 1 /\ ~(m <= m - 1) /\ m \in 1..N
  BY <1>1, <1>3 DEF Ranges
<1>5. AndCall(i, m - 1) = Parsed(t, pos)
  BY <1>2, <1>4
<1>6. AndCall(i, m) = AndRound(Calls, Parsed(t, pos))
  BY <1>4, <1>5, Descent
<1>7. Parsed(t, pos) # Error /\ Parsed(t, pos).pos = pos
  BY ParsedIsNoError, ParsedIs
<1>8. AndRound(Calls, Parsed(t, pos)) = Parsed(t, pos)
  BY <1>7, Zenon DEF AndRound, AndStops
<1> QED
  BY <1>3, <1>6, <1>8, Zenon

LEMMA OrStays ==
    ASSUME TokensOK, NEW i \in Places, NEW pos \in Places, NEW t, Kind(pos) # "OR",
           NEW n \in Ranges, OrCall(i, n) = Parsed(t, pos)
    PROVE  OrCall(i, Len(tokens)) = Parsed(t, pos)
<1> DEFINE N == Len(tokens)
           T == {m \in Ranges : n <= m /\ OrCall(i, m) # Parsed(t, pos)}
<1>1. N \in Nat /\ N \in Ranges /\ n <= N
  BY TokenCount DEF Ranges
<1> SUFFICES ASSUME T # {} PROVE FALSE
  BY <1>1
<1>2. PICK m \in T : \A k \in T : m <= k
  <2>1. T \subseteq Nat
    BY <1>1 DEF Ranges
  <2> HIDE DEF T
  <2> QED BY <2>1, LeastNumber
<1>3. m \in Ranges /\ n <= m /\ OrCall(i, m) # Parsed(t, pos) /\ m # n
  BY <1>2
<1>4. m - 1 \in Ranges /\ n <= m - 1 /\ ~(m <= m - 1) /\ m \in 1..N
  BY <1>1, <1>3 DEF Ranges
<1>5. OrCall(i, m - 1) = Parsed(t, pos)
  BY <1>2, <1>4
<1>6. OrCall(i, m) = OrRound(Calls, Parsed(t, pos))
  BY <1>4, <1>5, Descent
<1>7. Parsed(t, pos) # Error /\ Parsed(t, pos).pos = pos
  BY ParsedIsNoError, ParsedIs
<1>8. OrRound(Calls, Parsed(t, pos)) = Parsed(t, pos)
  BY <1>7, Zenon DEF OrRound
<1> QED
  BY <1>3, <1>6, <1>8, Zenon

NotComplete(i, j) == \A t \in NotTrees(Trees, i, j) : NotCall(i) = Parsed(t, j + 1)
AndComplete(i, j) == \A t \in AndTrees(Trees, i, j) :
                        /\ starts_primary(Kind(i))
                        /\ \E n \in Ranges : n <= j - i /\ AndCall(i, n) = Parsed(t, j + 1)
OrComplete(i, j)  == \A t \in OrTrees(Trees, i, j) :
                        AndStops(j + 1) => \E n \in Ranges : n <= j - i /\ OrCall(i, n) = Parsed(t, j + 1)

CompleteBelow(m) ==
    \A i \in Places, j \in Ranges :
        Size(i, j) < m => NotComplete(i, j) /\ AndComplete(i, j) /\ OrComplete(i, j)

\* The parts of an interval, as numbers.
LEMMA PartsOfInterval ==
    ASSUME TokensOK, NEW i \in Places, NEW j \in Ranges
    PROVE  /\ i < j => /\ i + 1 \in Places /\ j - 1 \in Ranges /\ j - 1 + 1 = j
                       /\ Size(i + 1, j - 1) < Size(i, j) /\ Size(i + 1, j) < Size(i, j)
           /\ \A k \in i + 1..j : /\ k \in Places /\ k - 1 \in Ranges /\ k - 1 + 1 = k
                                  /\ Size(i, k - 1) < Size(i, j) /\ Size(k, j) < Size(i, j)
           /\ \A k \in i + 1..j - 1 : /\ k \in i + 1..j /\ k + 1 \in Places
                                      /\ Size(k + 1, j) < Size(i, j)
           /\ i <= j => i \in 1..Len(tokens)
           /\ i < j => j \in 1..Len(tokens)
           /\ j + 1 \in Places /\ j + 1 \in Nat /\ i \in Nat /\ j \in Nat
  BY TokenCount DEF Places, Ranges, Size

LEMMA NotIsComplete ==
    ASSUME TokensOK, NEW i \in Places, NEW j \in Ranges, CompleteBelow(Size(i, j))
    PROVE  NotComplete(i, j)
<1> SUFFICES ASSUME NEW t \in NotTrees(Trees, i, j)
             PROVE  NotCall(i) = Parsed(t, j + 1)
  BY DEF NotComplete
<1>1. IsNotTree(t, Trees, i, j)
  BY NotTreesAre
<1>2. i <= j /\ i \in 1..Len(tokens) /\ Kind(i) = tokens[i]
  BY TreesHaveTokens, PartsOfInterval, KindsInside
<1>3. NotCall(i) = NotBody(Calls, i)
  BY Descent
<1>4. CASE i = j /\ tokens[i] = "TERM" /\ t = TermNode(i)
  <2>1. NotBody(Calls, i) = Parsed(TermNode(i), i + 1)
    BY <1>2, <1>4 DEF NotBody, parse_primary
  <2> QED BY <1>3, <1>4, <2>1, Zenon
<1>5. CASE i = j /\ tokens[i] = "PHRASE" /\ t = PhraseNode(i)
  <2>1. NotBody(Calls, i) = Parsed(PhraseNode(i), i + 1)
    BY <1>2, <1>5 DEF NotBody, parse_primary
  <2> QED BY <1>3, <1>5, <2>1, Zenon
<1>6. CASE i < j /\ tokens[i] = "(" /\ tokens[j] = ")" /\ t \in OrTrees(Trees, i + 1, j - 1)
  <2>1. i + 1 \in Places /\ j - 1 \in Ranges /\ j - 1 + 1 = j /\ j \in 1..Len(tokens) /\ j \in Places
    <3>1. \A k \in i + 1..j : k \in Places
      BY PartsOfInterval
    <3>2. j \in i + 1..j
      BY <1>6, PartsOfInterval
    <3> QED BY <1>6, <3>1, <3>2, PartsOfInterval
  <2>2. Kind(j) = ")"
    BY <1>6, <2>1, KindsInside
  <2>3. OrComplete(i + 1, j - 1)
    BY <1>6, <2>1, PartsOfInterval DEF CompleteBelow
  <2>4. AndStops(j - 1 + 1)
    BY <2>1, <2>2 DEF AndStops, starts_primary
  <2>5. PICK n \in Ranges : OrCall(i + 1, n) = Parsed(t, j)
    BY <1>6, <2>1, <2>3, <2>4, Zenon DEF OrComplete
  <2>6. OrCall(i + 1, Len(tokens)) = Parsed(t, j)
    BY <2>1, <2>2, <2>5, OrStays
  <2>7. parse_or(Calls, i + 1) = Parsed(t, j)
    BY <2>1, <2>6, Descent
  <2>8. Parsed(t, j) # Error /\ Parsed(t, j).pos = j /\ Parsed(t, j).node = t
    BY <2>1, ParsedIsNoError, ParsedIs
  <2>9. Kind(i) = "(" /\ Kind(i) # "NOT" /\ Kind(i) # "TERM" /\ Kind(i) # "PHRASE"
    BY <1>2, <1>6
  <2>10. NotBody(Calls, i) = Parsed(t, j + 1)
    BY <2>2, <2>7, <2>8, <2>9, Zenon DEF NotBody, parse_primary
  <2> QED BY <1>3, <2>10, Zenon
<1>7. CASE i < j /\ tokens[i] = "NOT" /\ \E o \in NotTrees(Trees, i + 1, j) : t = NotNode(o)
  <2>1. PICK o \in NotTrees(Trees, i + 1, j) : t = NotNode(o)
    BY <1>7
  <2>2. i + 1 \in Places /\ Size(i + 1, j) < Size(i, j) /\ j + 1 \in Places
    BY <1>7, PartsOfInterval
  <2>3. NotCall(i + 1) = Parsed(o, j + 1)
    BY <2>1, <2>2, Zenon DEF CompleteBelow, NotComplete
  <2>4. starts_primary(Kind(i + 1))
    BY <2>1, <2>2, TreesHaveTokens
  <2>5. parse_not(Calls, i + 1) = Parsed(o, j + 1)
    BY <2>2, <2>3, Descent
  <2>6. Parsed(o, j + 1) # Error /\ Parsed(o, j + 1).pos = j + 1 /\ Parsed(o, j + 1).node = o
    BY <2>2, ParsedIsNoError, ParsedIs
  <2>7. Kind(i) = "NOT"
    BY <1>2, <1>7
  <2>8. NotBody(Calls, i) = Parsed(NotNode(o), j + 1)
    BY <2>4, <2>5, <2>6, <2>7, Zenon DEF NotBody
  <2> QED BY <1>3, <2>1, <2>8, Zenon
<1> QED
  BY <1>1, <1>4, <1>5, <1>6, <1>7, Zenon DEF IsNotTree

\* A round that finds its second operand.
LEMMA AndStep ==
    ASSUME TokensOK, NEW i \in Places, NEW n \in Ranges, n + 1 \in Ranges,
           NEW l, NEW k \in Places, AndCall(i, n) = Parsed(l, k),
           NEW r, NEW pos \in Places, NEW s \in Places,
           s = IF Kind(k) = "AND" THEN k + 1 ELSE k,
           starts_primary(Kind(s)), NotCall(s) = Parsed(r, pos)
    PROVE  AndCall(i, n + 1) = Parsed(AndNode(l, r), pos)
<1>1. n + 1 \in 1..Len(tokens) /\ n + 1 - 1 = n
  BY TokenCount DEF Ranges
<1>2. AndCall(i, n + 1) = AndRound(Calls, Parsed(l, k))
  <2>1. AndCall(i, n + 1) = AndRound(Calls, AndCall(i, n))
    BY <1>1, NextRound, Zenon
  <2> QED BY <2>1, Zenon
<1>3. /\ Parsed(l, k) # Error /\ Parsed(l, k).pos = k /\ Parsed(l, k).node = l
      /\ Parsed(r, pos) # Error /\ Parsed(r, pos).pos = pos /\ Parsed(r, pos).node = r
  BY ParsedIsNoError, ParsedIs
<1>4. parse_not(Calls, s) = Parsed(r, pos)
  BY Descent
<1>5. AndRound(Calls, Parsed(l, k)) = Parsed(AndNode(l, r), pos)
  BY <1>3, <1>4, Zenon DEF AndRound
<1> QED
  BY <1>2, <1>5, Zenon

LEMMA AndIsComplete ==
    ASSUME TokensOK, NEW i \in Places, NEW j \in Ranges, CompleteBelow(Size(i, j)), NotComplete(i, j)
    PROVE  AndComplete(i, j)
<1> DEFINE Found(t) == /\ starts_primary(Kind(i))
                       /\ \E n \in Ranges : n <= j - i /\ AndCall(i, n) = Parsed(t, j + 1)
<1> SUFFICES ASSUME NEW t \in AndTrees(Trees, i, j) PROVE Found(t)
  BY Zenon DEF AndComplete
<1>1. IsAndTree(t, Trees, i, j)
  BY AndTreesAre
<1>2. Len(tokens) \in Nat /\ i \in Nat /\ j \in Nat /\ 1 <= i /\ j <= Len(tokens) /\ j + 1 \in Places
  BY TokenCount DEF Places, Ranges
<1>3. CASE t \in NotTrees(Trees, i, j)
  <2>1. i <= j /\ starts_primary(Kind(i))
    BY <1>3, TreesHaveTokens
  <2>2. AndCall(i, 0) = Parsed(t, j + 1)
    <3>1. NotCall(i) = Parsed(t, j + 1)
      BY <1>3, Zenon DEF NotComplete
    <3> QED BY <3>1, Descent
  <2>3. 0 \in Ranges /\ 0 <= j - i
    BY <1>2, <2>1 DEF Ranges
  <2> QED BY <2>1, <2>2, <2>3, Zenon
<1>4. ASSUME NEW k \in i + 1..j, NEW l \in AndTrees(Trees, i, k - 1)
      PROVE  /\ k \in Places /\ starts_primary(Kind(i))
             /\ \E n \in Ranges : n <= k - 1 - i /\ n + 1 \in Ranges /\ n + 1 <= j - i
                                  /\ AndCall(i, n) = Parsed(l, k)
  <2>1. k \in Places /\ k - 1 \in Ranges /\ k - 1 + 1 = k /\ Size(i, k - 1) < Size(i, j)
    BY PartsOfInterval
  <2>2. AndComplete(i, k - 1)
    BY <2>1, Zenon DEF CompleteBelow
  <2>3. /\ starts_primary(Kind(i))
        /\ \E n \in Ranges : n <= k - 1 - i /\ AndCall(i, n) = Parsed(l, k)
    BY <2>1, <2>2, Zenon DEF AndComplete
  <2>4. \A n \in Ranges : n <= k - 1 - i => n + 1 \in Ranges /\ n + 1 <= j - i
    BY <1>2 DEF Ranges
  <2> QED BY <2>1, <2>3, <2>4, Zenon
<1>5. ASSUME NEW k \in i + 1..j, NEW l \in AndTrees(Trees, i, k - 1), NEW r \in NotTrees(Trees, k, j),
             t = AndNode(l, r)
      PROVE  Found(t)
  <2>1. PICK n \in Ranges : n + 1 \in Ranges /\ n + 1 <= j - i /\ AndCall(i, n) = Parsed(l, k)
    BY <1>4
  <2>2. k \in Places /\ Size(k, j) < Size(i, j)
    BY PartsOfInterval
  <2>3. NotCall(k) = Parsed(r, j + 1)
    BY <2>2, Zenon DEF CompleteBelow, NotComplete
  <2>4. starts_primary(Kind(k))
    BY <2>2, TreesHaveTokens
  <2>5. k = IF Kind(k) = "AND" THEN k + 1 ELSE k
    BY <2>4, Starts
  <2>6. AndCall(i, n + 1) = Parsed(AndNode(l, r), j + 1)
    BY <1>2, <2>1, <2>2, <2>3, <2>4, <2>5, AndStep
  <2> QED BY <1>4, <1>5, <2>1, <2>6, Zenon
<1>6. ASSUME NEW k \in i + 1..j - 1, NEW l \in AndTrees(Trees, i, k - 1),
             NEW r \in NotTrees(Trees, k + 1, j), tokens[k] = "AND", t = AndNode(l, r)
      PROVE  Found(t)
  <2>1. k \in i + 1..j /\ k + 1 \in Places /\ Size(k + 1, j) < Size(i, j)
    BY PartsOfInterval
  <2>2. PICK n \in Ranges : n + 1 \in Ranges /\ n + 1 <= j - i /\ AndCall(i, n) = Parsed(l, k)
    BY <1>4, <2>1
  <2>3. NotCall(k + 1) = Parsed(r, j + 1)
    BY <2>1, Zenon DEF CompleteBelow, NotComplete
  <2>4. starts_primary(Kind(k + 1))
    BY <2>1, TreesHaveTokens
  <2>5. Kind(k) = "AND" /\ k \in Places
    <3>1. k \in 1..Len(tokens)
      BY <1>2
    <3> QED BY <1>6, <2>1, <3>1, KindsInside, PartsOfInterval
  <2>6. AndCall(i, n + 1) = Parsed(AndNode(l, r), j + 1)
    BY <1>2, <2>1, <2>2, <2>3, <2>4, <2>5, AndStep
  <2> QED BY <1>4, <1>6, <2>1, <2>2, <2>6, Zenon
<1> QED
  BY <1>1, <1>3, <1>5, <1>6, Zenon DEF IsAndTree

LEMMA OrIsComplete ==
    ASSUME TokensOK, NEW i \in Places, NEW j \in Ranges, CompleteBelow(Size(i, j)), AndComplete(i, j)
    PROVE  OrComplete(i, j)
<1> DEFINE Found(t) == \E n \in Ranges : n <= j - i /\ OrCall(i, n) = Parsed(t, j + 1)
<1> SUFFICES ASSUME NEW t \in OrTrees(Trees, i, j), AndStops(j + 1) PROVE Found(t)
  BY Zenon DEF OrComplete
<1>1. IsOrTree(t, Trees, i, j)
  BY OrTreesAre
<1>2. Len(tokens) \in Nat /\ i \in Nat /\ j \in Nat /\ 1 <= i /\ j <= Len(tokens) /\ j + 1 \in Places
  BY TokenCount DEF Places, Ranges
<1>3. CASE t \in AndTrees(Trees, i, j)
  <2>1. i <= j
    BY <1>3, TreesHaveTokens
  <2>2. PICK n \in Ranges : AndCall(i, n) = Parsed(t, j + 1)
    BY <1>3, Zenon DEF AndComplete
  <2>3. AndCall(i, Len(tokens)) = Parsed(t, j + 1)
    BY <1>2, <2>2, AndStays
  <2>4. OrCall(i, 0) = Parsed(t, j + 1)
    BY <2>3, Descent
  <2>5. 0 \in Ranges /\ 0 <= j - i
    BY <1>2, <2>1 DEF Ranges
  <2> QED BY <2>4, <2>5, Zenon
<1>4. ASSUME NEW k \in i + 1..j - 1, NEW l \in OrTrees(Trees, i, k - 1),
             NEW r \in AndTrees(Trees, k + 1, j), tokens[k] = "OR", t = OrNode(l, r)
      PROVE  Found(t)
  <2>1. /\ k \in i + 1..j /\ k + 1 \in Places /\ Size(k + 1, j) < Size(i, j)
        /\ k \in Places /\ k - 1 \in Ranges /\ k - 1 + 1 = k /\ Size(i, k - 1) < Size(i, j)
    BY PartsOfInterval
  <2>2. Kind(k) = "OR"
    <3>1. k \in 1..Len(tokens)
      BY <1>2
    <3> QED BY <1>4, <3>1, KindsInside
  <2>3. AndStops(k)
    BY <2>2 DEF AndStops, starts_primary
  <2>4. OrComplete(i, k - 1) /\ AndComplete(k + 1, j)
    BY <2>1, Zenon DEF CompleteBelow
  <2>5. PICK n \in Ranges : n <= k - 1 - i /\ OrCall(i, n) = Parsed(l, k)
    BY <2>1, <2>3, <2>4, Zenon DEF OrComplete
  <2>6. n + 1 \in Ranges /\ n + 1 <= j - i /\ n + 1 \in 1..Len(tokens) /\ n + 1 - 1 = n
    BY <1>2, <2>5 DEF Ranges
  <2>7. PICK m \in Ranges : AndCall(k + 1, m) = Parsed(r, j + 1)
    BY <2>4, Zenon DEF AndComplete
  <2>8. starts_primary(Kind(k + 1))
    BY <2>4, Zenon DEF AndComplete
  <2>9. AndCall(k + 1, Len(tokens)) = Parsed(r, j + 1)
    BY <1>2, <2>1, <2>7, AndStays
  <2>10. parse_and(Calls, k + 1) = Parsed(r, j + 1)
    BY <2>1, <2>9, Descent
  <2>11. OrCall(i, n + 1) = OrRound(Calls, Parsed(l, k))
    <3>1. OrCall(i, n + 1) = OrRound(Calls, OrCall(i, n))
      BY <2>6, NextRound, Zenon
    <3> QED BY <2>5, <3>1, Zenon
  <2>12. /\ Parsed(l, k) # Error /\ Parsed(l, k).pos = k /\ Parsed(l, k).node = l
         /\ Parsed(r, j + 1) # Error /\ Parsed(r, j + 1).pos = j + 1 /\ Parsed(r, j + 1).node = r
    BY <1>2, <2>1, ParsedIsNoError, ParsedIs
  <2>13. OrRound(Calls, Parsed(l, k)) = Parsed(OrNode(l, r), j + 1)
    BY <2>2, <2>8, <2>10, <2>12, Zenon DEF OrRound
  <2> QED BY <1>4, <2>6, <2>11, <2>13, Zenon
<1> QED
  BY <1>1, <1>3, <1>4, Zenon DEF IsOrTree

LEMMA DescentIsComplete ==
    ASSUME TokensOK, NEW m \in Nat
    PROVE  CompleteBelow(m)
<1> DEFINE T == {n \in Nat : ~CompleteBelow(n)}
<1> SUFFICES ASSUME T # {} PROVE FALSE
  BY Zenon
<1>1. PICK n \in T : \A k \in T : n <= k
  <2>1. T \subseteq Nat
    OBVIOUS
  <2> HIDE DEF T
  <2> QED BY <2>1, LeastNumber
<1>2. n \in Nat /\ ~CompleteBelow(n)
  BY <1>1
<1>3. PICK i \in Places, j \in Ranges :
         Size(i, j) < n /\ ~(NotComplete(i, j) /\ AndComplete(i, j) /\ OrComplete(i, j))
  BY <1>2, Zenon DEF CompleteBelow
<1>4. Size(i, j) \in Nat /\ ~(n <= Size(i, j))
  BY <1>2, <1>3, TokenCount DEF Places, Ranges, Size
<1>5. CompleteBelow(Size(i, j))
  BY <1>1, <1>4
<1> QED
  BY <1>3, <1>5, NotIsComplete, AndIsComplete, OrIsComplete

-----------------------------------------------------------------------------

LEMMA ParserIsRight ==
    ASSUME TokensOK
    PROVE  ParserFollowsGrammar
<1> DEFINE N   == Len(tokens)
           ast == OrCall(1, N)
<1>1. N \in Nat /\ N \in Ranges /\ 1 \in Places /\ N + 1 \in Places /\ N + 1 - 1 = N
  BY TokenCount DEF Ranges, Places
<1>2. parse_or(Calls, 1) = ast /\ IsResult(ast, 1)
  BY <1>1, Descent
<1>3. parse = IF Kind(ast.pos) = "END" THEN ast ELSE Error
  BY <1>2, Zenon DEF parse
<1>4. Kind(N + 1) = "END"
  <2>1. N + 1 \notin DOMAIN tokens
    BY <1>1 DEF TokensOK
  <2> QED BY <2>1 DEF Kind
<1>5. \A p \in 1..N : Kind(p) # "END"
  BY KindsInside DEF Kinds
<1> HIDE DEF ast
<1>6. ASSUME parse # Error
      PROVE  parse.node \in OrTrees(Trees, 1, N)
  <2>1. parse = ast /\ Kind(ast.pos) = "END" /\ ast # Error
    BY <1>3, <1>6, Zenon
  <2>2. ast.pos \in Places
    BY <1>1, <1>2, <2>1, ResultEnds
  <2>3. ast.pos = N + 1
    BY <1>1, <1>5, <2>1, <2>2 DEF Places
  <2>4. ast.node \in OrTrees(Trees, 1, ast.pos - 1)
    BY <1>1, <2>1, DescentIsSound, Zenon DEF OrSound, ast
  <2> QED BY <1>1, <2>1, <2>3, <2>4
<1>7. ASSUME NEW t \in OrTrees(Trees, 1, N)
      PROVE  parse # Error /\ parse.node = t
  <2>1. Size(1, N) \in Nat /\ Size(1, N) + 1 \in Nat /\ Size(1, N) < Size(1, N) + 1
    BY <1>1 DEF Size
  <2>2. OrComplete(1, N)
    BY <1>1, <2>1, DescentIsComplete DEF CompleteBelow
  <2>3. AndStops(N + 1)
    BY <1>4 DEF AndStops, starts_primary
  <2>4. PICK n \in Ranges : OrCall(1, n) = Parsed(t, N + 1)
    BY <2>2, <2>3, Zenon DEF OrComplete
  <2>5. ast = Parsed(t, N + 1)
    BY <1>1, <1>4, <2>4, OrStays DEF ast
  <2>6. Parsed(t, N + 1) # Error /\ Parsed(t, N + 1).pos = N + 1 /\ Parsed(t, N + 1).node = t
    BY <1>1, ParsedIsNoError, ParsedIs
  <2> QED BY <1>3, <1>4, <2>5, <2>6, Zenon
<1>8. CASE parse = Error
  <2>1. OrTrees(Trees, 1, N) = {}
    BY <1>7, <1>8, Zenon
  <2> QED BY <1>8, <2>1, Zenon DEF ParserFollowsGrammar
<1>9. CASE parse # Error
  <2>1. OrTrees(Trees, 1, N) = {parse.node}
    BY <1>6, <1>7, <1>9, Zenon
  <2> QED BY <1>9, <2>1, Zenon DEF ParserFollowsGrammar
<1> QED
  BY <1>8, <1>9

-----------------------------------------------------------------------------
(* The choice of the leaves that score.                                    *)

\* G gives the value at an argument from the values at arguments of a lower rank.
IsRecursion(N, V, rank, bound, G) ==
    /\ V # {} /\ bound \in Nat
    /\ rank \in [N -> Nat] /\ \A q \in N : rank[q] < bound
    /\ G \in [N -> [[N -> V] -> V]]
    /\ \A q \in N : \A f, g \in [N -> V] :
          (\A c \in N : rank[c] < rank[q] => f[c] = g[c]) => G[q][f] = G[q][g]

\* Then there is the function it defines.
LEMMA RecursionHasASolution ==
    ASSUME NEW N, NEW V, NEW rank, NEW bound, NEW G, IsRecursion(N, V, rank, bound, G)
    PROVE  \E f \in [N -> V] : \A q \in N : f[q] = G[q][f]
<1> USE DEF IsRecursion
<1> DEFINE Fits(f, n) == \A q \in N : rank[q] < n => f[q] = G[q][f]
           T == {n \in Nat : ~ \E f \in [N -> V] : Fits(f, n)}
<1>1. T = {}
  <2> SUFFICES ASSUME T # {} PROVE FALSE
    OBVIOUS
  <2>1. PICK n \in T : \A k \in T : n <= k
    <3>1. T \subseteq Nat
      OBVIOUS
    <3> HIDE DEF T
    <3> QED BY <3>1, LeastNumber
  <2>2. n \in Nat /\ ~ \E f \in [N -> V] : Fits(f, n)
    BY <2>1
  <2>3. CASE n = 0
    <3>1. PICK v \in V : TRUE
      OBVIOUS
    <3> DEFINE f == [q \in N |-> v]
    <3>2. f \in [N -> V]
      OBVIOUS
    <3> HIDE DEF f
    <3>3. Fits(f, 0)
      <4>1. \A q \in N : ~(rank[q] < 0)
        OBVIOUS
      <4> QED BY <4>1
    <3> QED BY <2>2, <2>3, <3>2, <3>3
  <2>4. CASE n # 0
    <3>1. n - 1 \in Nat /\ ~(n <= n - 1)
      BY <2>2, <2>4
    <3>2. PICK g \in [N -> V] : Fits(g, n - 1)
      BY <2>1, <3>1
    <3> DEFINE f == [q \in N |-> G[q][g]]
    <3>3. f \in [N -> V] /\ \A q \in N : f[q] = G[q][g]
      OBVIOUS
    <3> HIDE DEF f
    <3>4. ASSUME NEW q \in N, rank[q] < n PROVE f[q] = G[q][f]
      <4>1. ASSUME NEW c \in N, rank[c] < rank[q] PROVE g[c] = f[c]
        <5>1. rank[c] \in Nat /\ rank[q] \in Nat
          OBVIOUS
        <5>2. rank[c] < n - 1
          BY <2>2, <3>4, <4>1, <5>1
        <5>3. g[c] = G[c][g]
          BY <3>2, <5>2
        <5> QED BY <3>3, <5>3
      <4>2. G[q][g] = G[q][f]
        BY <3>3, <4>1
      <4> QED BY <3>3, <4>2
    <3>5. Fits(f, n)
      BY <3>4
    <3> QED BY <2>2, <3>3, <3>5
  <2> QED BY <2>3, <2>4
<1>2. PICK f \in [N -> V] : Fits(f, bound)
  BY <1>1
<1> QED
  BY <1>2

\* q is a tree of the tokens i..j.
Spans(q, i, j) == i \in Places /\ j \in Ranges /\ q \in OrTrees(Trees, i, j)

\* How it is made of smaller ones.
IsMade(q, i, j) ==
    \/ i = j /\ i \in Leaves /\ q \in {TermNode(i), PhraseNode(i)}
    \/ i < j /\ Spans(q, i + 1, j - 1)
    \/ i < j /\ \E o : Spans(o, i + 1, j) /\ q = NotNode(o)
    \/ \E k \in i + 1..j : \E m \in k..j : \E l, r :
          Spans(l, i, k - 1) /\ Spans(r, m, j) /\ q \in {AndNode(l, r), OrNode(l, r)}

LEMMA PartsAreSmaller ==
    ASSUME TokensOK, NEW i \in Places, NEW j \in Ranges
    PROVE  /\ Size(i, j) \in Nat /\ Size(i, j) < 2 * Len(tokens) + 2
           /\ i < j => /\ i + 1 \in Places /\ j - 1 \in Ranges
                       /\ Size(i + 1, j - 1) < Size(i, j) /\ Size(i + 1, j) < Size(i, j)
           /\ \A k \in i + 1..j : \A m \in k..j :
                 /\ k - 1 \in Ranges /\ m \in Places
                 /\ Size(i, k - 1) < Size(i, j) /\ Size(m, j) < Size(i, j)
  BY TokenCount DEF Places, Ranges, Size

\* A tree of a symbol is one of the symbols above it.
LEMMA SymbolsNest ==
    ASSUME TokensOK, NEW i \in Places, NEW j \in Ranges, NEW x
    PROVE  /\ x \in NotTrees(Trees, i, j) => x \in AndTrees(Trees, i, j)
           /\ x \in AndTrees(Trees, i, j) => x \in OrTrees(Trees, i, j)
<1>1. x \in AndTrees(Trees, i, j) <=> IsAndTree(x, Trees, i, j)
  BY AndTreesAre
<1>2. x \in OrTrees(Trees, i, j) <=> IsOrTree(x, Trees, i, j)
  BY OrTreesAre
<1> QED
  BY <1>1, <1>2, Zenon DEF IsAndTree, IsOrTree

LEMMA TreesAreMade ==
    ASSUME TokensOK, NEW q, NEW i, NEW j, Spans(q, i, j)
    PROVE  IsMade(q, i, j)
<1>1. i \in Places /\ j \in Ranges /\ q \in OrTrees(Trees, i, j)
  BY Zenon DEF Spans
<1>2. /\ i < j => i + 1 \in Places /\ j - 1 \in Ranges
      /\ \A k \in i + 1..j : \A m \in k..j : k - 1 \in Ranges /\ m \in Places
  BY <1>1, PartsAreSmaller
<1>3. \A k \in i + 1..j - 1 : k \in i + 1..j /\ k + 1 \in k..j
  BY <1>1, TokenCount DEF Places, Ranges
<1>4. \A k \in i + 1..j : k \in k..j
  BY <1>1, TokenCount DEF Places, Ranges
<1>5. ASSUME q \in NotTrees(Trees, i, j) PROVE IsMade(q, i, j)
  <2>1. IsNotTree(q, Trees, i, j)
    BY <1>1, <1>5, NotTreesAre
  <2>2. CASE i = j /\ tokens[i] = "TERM" /\ q = TermNode(i)
    <3>1. i \in Leaves
      <4>1. i \in 1..Len(tokens)
        BY <1>1, <2>2, TokenCount DEF Places, Ranges
      <4> QED BY <2>2, <4>1 DEF Leaves, TokensOK
    <3> QED BY <2>2, <3>1, Zenon DEF IsMade
  <2>3. CASE i = j /\ tokens[i] = "PHRASE" /\ q = PhraseNode(i)
    <3>1. i \in Leaves
      <4>1. i \in 1..Len(tokens)
        BY <1>1, <2>3, TokenCount DEF Places, Ranges
      <4> QED BY <2>3, <4>1 DEF Leaves, TokensOK
    <3> QED BY <2>3, <3>1, Zenon DEF IsMade
  <2>4. CASE i < j /\ q \in OrTrees(Trees, i + 1, j - 1)
    BY <1>2, <2>4, Zenon DEF IsMade, Spans
  <2>5. CASE i < j /\ \E o \in NotTrees(Trees, i + 1, j) : q = NotNode(o)
    <3>1. PICK o \in NotTrees(Trees, i + 1, j) : q = NotNode(o)
      BY <2>5
    <3>2. o \in OrTrees(Trees, i + 1, j)
      BY <1>1, <1>2, <2>5, SymbolsNest
    <3> QED BY <1>1, <1>2, <2>5, <3>1, <3>2, Zenon DEF IsMade, Spans
  <2> QED BY <2>1, <2>2, <2>3, <2>4, <2>5, Zenon DEF IsNotTree
<1>6. ASSUME NEW k \in i + 1..j, NEW m \in k..j,
             NEW l \in OrTrees(Trees, i, k - 1), NEW r \in OrTrees(Trees, m, j),
             q \in {AndNode(l, r), OrNode(l, r)}
      PROVE  IsMade(q, i, j)
  <2>1. Spans(l, i, k - 1) /\ Spans(r, m, j)
    BY <1>1, <1>2, Zenon DEF Spans
  <2> QED BY <1>6, <2>1, Zenon DEF IsMade
<1>7. ASSUME q \in AndTrees(Trees, i, j) PROVE IsMade(q, i, j)
  <2>1. IsAndTree(q, Trees, i, j)
    BY <1>1, <1>7, AndTreesAre
  <2>2. ASSUME NEW k \in i + 1..j, NEW l \in AndTrees(Trees, i, k - 1), NEW r \in NotTrees(Trees, k, j),
               q = AndNode(l, r)
        PROVE  IsMade(q, i, j)
    <3>1. l \in OrTrees(Trees, i, k - 1) /\ r \in OrTrees(Trees, k, j)
      BY <1>1, <1>2, <1>4, SymbolsNest
    <3> QED BY <1>4, <1>6, <2>2, <3>1
  <2>3. ASSUME NEW k \in i + 1..j - 1, NEW l \in AndTrees(Trees, i, k - 1),
               NEW r \in NotTrees(Trees, k + 1, j), q = AndNode(l, r)
        PROVE  IsMade(q, i, j)
    <3>1. l \in OrTrees(Trees, i, k - 1) /\ r \in OrTrees(Trees, k + 1, j)
      BY <1>1, <1>2, <1>3, SymbolsNest
    <3> QED BY <1>3, <1>6, <2>3, <3>1
  <2> QED BY <1>5, <2>1, <2>2, <2>3, Zenon DEF IsAndTree
<1>8. ASSUME NEW k \in i + 1..j - 1, NEW l \in OrTrees(Trees, i, k - 1),
             NEW r \in AndTrees(Trees, k + 1, j), q = OrNode(l, r)
      PROVE  IsMade(q, i, j)
  <2>1. r \in OrTrees(Trees, k + 1, j)
    BY <1>1, <1>2, <1>3, SymbolsNest
  <2> QED BY <1>3, <1>6, <1>8, <2>1
<1>9. IsOrTree(q, Trees, i, j)
  BY <1>1, OrTreesAre
<1> QED
  BY <1>7, <1>8, <1>9, Zenon DEF IsOrTree

\* The nodes are the trees of the intervals.
LEMMA NodesSpan ==
    ASSUME TokensOK, NEW q
    PROVE  q \in Nodes <=> \E i, j : Spans(q, i, j)
<1>1. DOMAIN Trees = Names \X Places \X Ranges
  <2> DEFINE D == {"not", "and", "or"} \X (1..Len(tokens) + 1) \X (0..Len(tokens))
  <2>1. Trees = [x \in D |-> Expr(Trees, x[1], x[2], x[3])]
    BY TreesAreDefined
  <2> HIDE DEF D
  <2>2. DOMAIN Trees = D
    BY <2>1, Zenon
  <2> QED BY <2>2 DEF D, Names, Places, Ranges
<1>2. ASSUME q \in Nodes PROVE \E i, j : Spans(q, i, j)
  <2>1. PICK x \in DOMAIN Trees : q \in Trees[x]
    BY <1>2, Zenon DEF Nodes
  <2>2. PICK name \in Names, i \in Places, j \in Ranges : x = <<name, i, j>>
    BY <1>1, <2>1
  <2>3. q \in NotTrees(Trees, i, j) \/ q \in AndTrees(Trees, i, j) \/ q \in OrTrees(Trees, i, j)
    BY <2>1, <2>2, Zenon DEF Names, NotTrees, AndTrees, OrTrees
  <2>4. q \in OrTrees(Trees, i, j)
    BY <2>3, SymbolsNest
  <2> QED BY <2>4, Zenon DEF Spans
<1>3. ASSUME NEW i, NEW j, Spans(q, i, j) PROVE q \in Nodes
  <2>1. i \in Places /\ j \in Ranges /\ q \in Trees[<<"or", i, j>>]
    BY <1>3, Zenon DEF Spans, OrTrees
  <2>2. <<"or", i, j>> \in DOMAIN Trees
    BY <1>1, <2>1 DEF Names
  <2> QED BY <2>1, <2>2, Zenon DEF Nodes
<1> QED
  BY <1>2, <1>3

\* The rank of a node: the size of the smallest interval it is a tree of.
IsRank(rank) ==
    /\ rank \in [Nodes -> Nat]
    /\ \A q \in Nodes : \E i, j : Spans(q, i, j) /\ rank[q] = Size(i, j)
    /\ \A q, i, j : Spans(q, i, j) => rank[q] <= Size(i, j)

LEMMA RanksExist ==
    ASSUME TokensOK
    PROVE  \E rank : IsRank(rank)
<1> DEFINE Sizes(q) == {n \in Nat : \E i, j : Spans(q, i, j) /\ n = Size(i, j)}
           rank == [q \in Nodes |-> CHOOSE n \in Sizes(q) : \A k \in Sizes(q) : n <= k]
<1>1. ASSUME NEW q, NEW i, NEW j, Spans(q, i, j) PROVE Size(i, j) \in Sizes(q)
  <2>1. Size(i, j) \in Nat
    BY <1>1, PartsAreSmaller, Zenon DEF Spans
  <2> QED BY <1>1, <2>1
<1>2. ASSUME NEW q \in Nodes
      PROVE  rank[q] \in Sizes(q) /\ \A k \in Sizes(q) : rank[q] <= k
  <2>1. Sizes(q) # {}
    <3>1. PICK i, j : Spans(q, i, j)
      BY NodesSpan
    <3> QED BY <1>1, <3>1
  <2>2. Sizes(q) \subseteq Nat
    OBVIOUS
  <2> HIDE DEF Sizes
  <2>3. \E n \in Sizes(q) : \A k \in Sizes(q) : n <= k
    BY <2>1, <2>2, LeastNumber
  <2> QED BY <2>3
<1>3. \A q \in Nodes : \A k \in Sizes(q) : k \in Nat /\ \E i, j : Spans(q, i, j) /\ k = Size(i, j)
  OBVIOUS
<1>4. rank = [q \in Nodes |-> rank[q]]
  OBVIOUS
<1> HIDE DEF rank, Sizes
<1>5. rank \in [Nodes -> Nat]
  BY <1>2, <1>3, <1>4
<1>6. \A q \in Nodes : \E i, j : Spans(q, i, j) /\ rank[q] = Size(i, j)
  BY <1>2, <1>3, Zenon
<1>7. \A q, i, j : Spans(q, i, j) => rank[q] <= Size(i, j)
  BY <1>1, <1>2, NodesSpan, Zenon
<1> QED
  BY <1>5, <1>6, <1>7, Zenon DEF IsRank

\* What a node is, and that its operands have a lower rank.
LEMMA NodesAre ==
    ASSUME TokensOK, NEW rank, IsRank(rank), NEW q \in Nodes
    PROVE  \/ \E i \in Leaves : q \in {TermNode(i), PhraseNode(i)}
           \/ \E o \in Nodes : q = NotNode(o) /\ rank[o] < rank[q]
           \/ \E l, r \in Nodes : /\ q \in {AndNode(l, r), OrNode(l, r)}
                                  /\ rank[l] < rank[q] /\ rank[r] < rank[q]
<1>1. PICK i, j : Spans(q, i, j) /\ rank[q] = Size(i, j)
  BY Zenon DEF IsRank
<1>2. i \in Places /\ j \in Ranges
  BY <1>1, Zenon DEF Spans
<1>3. IsMade(q, i, j)
  BY <1>1, TreesAreMade
<1>4. ASSUME NEW o, NEW a, NEW b, Spans(o, a, b), Size(a, b) < Size(i, j)
      PROVE  o \in Nodes /\ rank[o] < rank[q]
  <2>1. o \in Nodes
    BY <1>4, NodesSpan
  <2>2. rank[o] <= Size(a, b)
    BY <1>4, Zenon DEF IsRank
  <2>3. rank[o] \in Nat /\ Size(a, b) \in Nat /\ Size(i, j) \in Nat
    <3>1. a \in Places /\ b \in Ranges
      BY <1>4, Zenon DEF Spans
    <3>2. rank \in [Nodes -> Nat]
      BY Zenon DEF IsRank
    <3> QED BY <1>2, <2>1, <3>1, <3>2, PartsAreSmaller
  <2>4. rank[o] < Size(i, j)
    BY <1>4, <2>2, <2>3
  <2> QED BY <1>1, <2>1, <2>4
<1>5. ~(i < j /\ Spans(q, i + 1, j - 1))
  <2> SUFFICES ASSUME i < j, Spans(q, i + 1, j - 1) PROVE FALSE
    OBVIOUS
  <2>1. Size(i + 1, j - 1) < Size(i, j)
    BY <1>2, PartsAreSmaller
  <2>2. rank[q] < rank[q] /\ rank[q] \in Nat
    <3>1. rank \in [Nodes -> Nat]
      BY Zenon DEF IsRank
    <3> QED BY <1>4, <2>1, <3>1
  <2> QED BY <2>2
<1>6. ASSUME i < j, NEW o, Spans(o, i + 1, j), q = NotNode(o)
      PROVE  \E p \in Nodes : q = NotNode(p) /\ rank[p] < rank[q]
  <2>1. Size(i + 1, j) < Size(i, j)
    BY <1>2, <1>6, PartsAreSmaller
  <2>2. o \in Nodes /\ rank[o] < rank[q]
    BY <1>4, <1>6, <2>1
  <2> QED BY <1>6, <2>2
<1>7. ASSUME NEW k \in i + 1..j, NEW m \in k..j, NEW l, NEW r,
             Spans(l, i, k - 1), Spans(r, m, j), q \in {AndNode(l, r), OrNode(l, r)}
      PROVE  \E a, b \in Nodes : /\ q \in {AndNode(a, b), OrNode(a, b)}
                                 /\ rank[a] < rank[q] /\ rank[b] < rank[q]
  <2>1. Size(i, k - 1) < Size(i, j) /\ Size(m, j) < Size(i, j)
    BY <1>2, PartsAreSmaller
  <2>2. l \in Nodes /\ rank[l] < rank[q] /\ r \in Nodes /\ rank[r] < rank[q]
    BY <1>4, <1>7, <2>1
  <2> QED BY <1>7, <2>2, Zenon
<1>8. i \in Leaves /\ q \in {TermNode(i), PhraseNode(i)} => \E p \in Leaves : q \in {TermNode(p), PhraseNode(p)}
  BY Zenon
<1> QED
  BY <1>3, <1>5, <1>6, <1>7, <1>8, Zenon DEF IsMade

\* The fields of the nodes.
LEMMA NodeFields ==
    ASSUME NEW l, NEW r
    PROVE  /\ TermNode(l).type = "TERM" /\ TermNode(l).value = l
           /\ PhraseNode(l).type = "PHRASE" /\ PhraseNode(l).phrase_terms = l
           /\ NotNode(r).type = "NOT" /\ NotNode(r).right = r
           /\ AndNode(l, r).type = "AND" /\ AndNode(l, r).left = l /\ AndNode(l, r).right = r
           /\ OrNode(l, r).type = "OR" /\ OrNode(l, r).left = l /\ OrNode(l, r).right = r
  BY DEF TermNode, PhraseNode, NotNode, AndNode, OrNode

\* What a call of collect_scoring_terms() makes of the calls in it.
LEMMA LeafScores ==
    ASSUME NEW f, NEW b \in BOOLEAN, NEW i, NEW q, q = TermNode(i) \/ q = PhraseNode(i), NEW x
    PROVE  x \in Scores(f, q, b) <=> b = FALSE /\ x = i
<1>1. (q.type = "TERM" \/ q.type = "PHRASE") /\ Leaf(q) = i
  BY NodeFields DEF Leaf
<1>2. Scores(f, q, b) = IF b THEN {} ELSE {i}
  BY <1>1, Zenon DEF Scores
<1>3. b = TRUE \/ b = FALSE
  OBVIOUS
<1> QED BY <1>2, <1>3, Zenon

LEMMA NotScores ==
    ASSUME NEW f, NEW b, NEW o, NEW q, q = NotNode(o)
    PROVE  Scores(f, q, b) = f[<<o, ~b>>]
<1>1. q.type = "NOT" /\ q.right = o
  BY NodeFields
<1> QED BY <1>1, Zenon DEF Scores

LEMMA PairScores ==
    ASSUME NEW f, NEW b, NEW l, NEW r, NEW q, q = AndNode(l, r) \/ q = OrNode(l, r), NEW x
    PROVE  x \in Scores(f, q, b) <=> x \in f[<<l, b>>] \/ x \in f[<<r, b>>]
<1>1. (q.type = "AND" \/ q.type = "OR") /\ q.left = l /\ q.right = r
  BY NodeFields
<1>2. Scores(f, q, b) = f[<<l, b>>] \cup f[<<r, b>>]
  BY <1>1, Zenon DEF Scores
<1> QED BY <1>2, Zenon

\* What a query matches, from what its operands match.
LEMMA LeafMatches ==
    ASSUME NEW f, NEW i, NEW q, q = TermNode(i) \/ q = PhraseNode(i)
    PROVE  Matches(f, q) = {S \in SUBSET Leaves : i \in S}
<1>1. q.type \in {"TERM", "PHRASE"} /\ Leaf(q) = i
  BY NodeFields DEF Leaf
<1> QED BY <1>1, Zenon DEF Matches

LEMMA NotMatches ==
    ASSUME NEW f, NEW o, NEW q, q = NotNode(o)
    PROVE  Matches(f, q) = (SUBSET Leaves) \ f[o]
<1>1. q.type = "NOT" /\ q.right = o
  BY NodeFields
<1> QED BY <1>1, Zenon DEF Matches

LEMMA AndMatches ==
    ASSUME NEW f, NEW l, NEW r, NEW q, q = AndNode(l, r)
    PROVE  Matches(f, q) = f[l] \cap f[r]
<1>1. q.type = "AND" /\ q.left = l /\ q.right = r
  BY NodeFields
<1> QED BY <1>1, Zenon DEF Matches

LEMMA OrMatches ==
    ASSUME NEW f, NEW l, NEW r, NEW q, q = OrNode(l, r)
    PROVE  Matches(f, q) = f[l] \cup f[r]
<1>1. q.type = "OR" /\ q.left = l /\ q.right = r
  BY NodeFields
<1> QED BY <1>1, Zenon DEF Matches

\* The recursion has a value.
LEMMA ScoringObeys ==
    ASSUME TokensOK
    PROVE  \A q \in Nodes : \A b \in BOOLEAN :
              collect_scoring_terms(q, b) = Scores(ScoringTerms, q, b)
<1>1. PICK rank : IsRank(rank)
  BY RanksExist
<1>2. rank \in [Nodes -> Nat]
  BY <1>1, Zenon DEF IsRank
<1> DEFINE N == Nodes \X BOOLEAN
           V == SUBSET Leaves
           h == [c \in N |-> rank[c[1]]]
           G == [c \in N |-> [f \in [N -> V] |-> Scores(f, c[1], c[2])]]
<1>3. \A q \in Nodes, b \in BOOLEAN : <<q, b>> \in N /\ h[<<q, b>>] = rank[q]
  BY Zenon
<1>4. \A c \in N : \E q \in Nodes, b \in BOOLEAN : c = <<q, b>> /\ c[1] = q /\ c[2] = b
  <2> HIDE DEF h, G
  <2> QED OBVIOUS
<1>5. h \in [N -> Nat]
  BY <1>2, <1>4
<1>6. \A c \in N : h[c] < 2 * Len(tokens) + 2
  <2> TAKE c \in N
  <2>1. PICK q \in Nodes, b \in BOOLEAN : c = <<q, b>>
    BY <1>4
  <2>2. PICK i, j : Spans(q, i, j) /\ rank[q] = Size(i, j)
    BY <1>1, Zenon DEF IsRank
  <2>3. Size(i, j) < 2 * Len(tokens) + 2
    BY <2>2, PartsAreSmaller, Zenon DEF Spans
  <2> QED BY <1>3, <2>1, <2>2, <2>3
<1>7. ASSUME NEW f \in [N -> V], NEW q \in Nodes, NEW b \in BOOLEAN
      PROVE  Scores(f, q, b) \in V
  <2>1. ASSUME NEW i \in Leaves, q \in {TermNode(i), PhraseNode(i)} PROVE Scores(f, q, b) \in V
    <3>0. q = TermNode(i) \/ q = PhraseNode(i)
      BY <2>1, Zenon
    <3>1. \A x : x \in Scores(f, q, b) <=> b = FALSE /\ x = i
      BY <3>0, LeafScores, Zenon
    <3> QED BY <3>1
  <2>2. ASSUME NEW o \in Nodes, q = NotNode(o) PROVE Scores(f, q, b) \in V
    <3>1. Scores(f, q, b) = f[<<o, ~b>>]
      BY <2>2, NotScores, Zenon
    <3>2. <<o, ~b>> \in N
      BY Zenon
    <3> HIDE DEF N, V, h, G
    <3>3. f[<<o, ~b>>] \in V
      BY <3>2, Zenon
    <3> QED BY <3>1, <3>3, Zenon
  <2>3. ASSUME NEW l \in Nodes, NEW r \in Nodes, q \in {AndNode(l, r), OrNode(l, r)} PROVE Scores(f, q, b) \in V
    <3>0. q = AndNode(l, r) \/ q = OrNode(l, r)
      BY <2>3, Zenon
    <3>1. \A x : x \in Scores(f, q, b) <=> x \in f[<<l, b>>] \/ x \in f[<<r, b>>]
      BY <3>0, PairScores, Zenon
    <3>2. <<l, b>> \in N /\ <<r, b>> \in N
      BY Zenon
    <3>3. f[<<l, b>>] \in V /\ f[<<r, b>>] \in V
      BY <3>2, Zenon
    <3> QED BY <3>1, <3>3
  <2> HIDE DEF V, N
  <2> QED BY <1>1, <2>1, <2>2, <2>3, NodesAre, Zenon
<1>8. ASSUME NEW q \in Nodes, NEW b \in BOOLEAN, NEW f, NEW g,
             \A c \in N : h[c] < rank[q] => f[c] = g[c]
      PROVE  Scores(f, q, b) = Scores(g, q, b)
  <2>0. ASSUME NEW o \in Nodes, NEW d \in BOOLEAN, rank[o] < rank[q] PROVE f[<<o, d>>] = g[<<o, d>>]
    <3> HIDE DEF h, N
    <3> QED BY <1>3, <1>8, <2>0, Zenon
  <2>1. ASSUME NEW i \in Leaves, q \in {TermNode(i), PhraseNode(i)} PROVE Scores(f, q, b) = Scores(g, q, b)
    <3>0. q = TermNode(i) \/ q = PhraseNode(i)
      BY <2>1, Zenon
    <3>1. \A x : x \in Scores(f, q, b) <=> b = FALSE /\ x = i
      BY <3>0, LeafScores, Zenon
    <3>2. \A x : x \in Scores(g, q, b) <=> b = FALSE /\ x = i
      BY <3>0, LeafScores, Zenon
    <3> QED BY <3>1, <3>2, Zenon
  <2>2. ASSUME NEW o \in Nodes, q = NotNode(o), rank[o] < rank[q] PROVE Scores(f, q, b) = Scores(g, q, b)
    <3>1. Scores(f, q, b) = f[<<o, ~b>>] /\ Scores(g, q, b) = g[<<o, ~b>>]
      BY <2>2, NotScores, Zenon
    <3>2. (~b) \in BOOLEAN
      OBVIOUS
    <3> QED BY <2>0, <2>2, <3>1, <3>2, Zenon
  <2>3. ASSUME NEW l \in Nodes, NEW r \in Nodes, q \in {AndNode(l, r), OrNode(l, r)},
               rank[l] < rank[q], rank[r] < rank[q]
        PROVE  Scores(f, q, b) = Scores(g, q, b)
    <3> HIDE DEF N, V, h, G
    <3>0. q = AndNode(l, r) \/ q = OrNode(l, r)
      BY <2>3, Zenon
    <3>1. \A x : x \in Scores(f, q, b) <=> x \in f[<<l, b>>] \/ x \in f[<<r, b>>]
      BY <3>0, PairScores, Zenon
    <3>2. \A x : x \in Scores(g, q, b) <=> x \in g[<<l, b>>] \/ x \in g[<<r, b>>]
      BY <3>0, PairScores, Zenon
    <3> QED BY <2>0, <2>3, <3>1, <3>2, Zenon
  <2> HIDE DEF h, N
  <2> QED BY <1>1, <2>1, <2>2, <2>3, NodesAre, Zenon
<1>9. \A c \in N, f \in [N -> V] : G[c][f] = Scores(f, c[1], c[2])
  BY Zenon
<1>10. G \in [N -> [[N -> V] -> V]]
  <2>1. ASSUME NEW c \in N PROVE [f \in [N -> V] |-> Scores(f, c[1], c[2])] \in [[N -> V] -> V]
    <3>1. PICK q \in Nodes, b \in BOOLEAN : c[1] = q /\ c[2] = b
      BY <1>4, Zenon
    <3> HIDE DEF N, V
    <3>2. \A f \in [N -> V] : Scores(f, c[1], c[2]) \in V
      BY <1>7, <3>1, Zenon
    <3> QED BY <3>2, Zenon
  <2> HIDE DEF N, V
  <2> QED BY <2>1, Zenon
<1>11. \A c \in N : \A f, g \in [N -> V] :
          (\A d \in N : h[d] < h[c] => f[d] = g[d]) => G[c][f] = G[c][g]
  <2> TAKE c \in N
  <2> TAKE f, g \in [N -> V]
  <2> HAVE \A d \in N : h[d] < h[c] => f[d] = g[d]
  <2>1. PICK q \in Nodes, b \in BOOLEAN : c = <<q, b>> /\ c[1] = q /\ c[2] = b
    BY <1>4, Zenon
  <2>2. h[c] = rank[q]
    BY <1>3, <2>1, Zenon
  <2> HIDE DEF N, V, h, G
  <2>3. Scores(f, q, b) = Scores(g, q, b)
    <3>1. \A d \in N : h[d] < rank[q] => f[d] = g[d]
      BY <2>2, Zenon
    <3> QED BY <1>8, <3>1
  <2>4. G[c][f] = Scores(f, q, b) /\ G[c][g] = Scores(g, q, b)
    BY <1>9, <2>1, Zenon
  <2> QED BY <2>3, <2>4, Zenon
<1> DEFINE M == 2 * Len(tokens) + 2
<1>12. M \in Nat /\ V # {}
  BY TokenCount
<1> HIDE DEF N, V, h, G, M
<1>13. \A c \in N : h[c] < M
  BY <1>6 DEF M
<1>14. PICK f \in [N -> V] : \A c \in N : f[c] = G[c][f]
  <2>1. IsRecursion(N, V, h, M, G)
    BY <1>5, <1>10, <1>11, <1>12, <1>13, Zenon DEF IsRecursion
  <2> QED BY <2>1, RecursionHasASolution
<1>15. f = [c \in N |-> Scores(f, c[1], c[2])]
  <2>1. f = [c \in N |-> f[c]]
    BY Zenon
  <2>2. \A c \in N : f[c] = Scores(f, c[1], c[2])
    BY <1>9, <1>14, Zenon
  <2> QED BY <2>1, <2>2, Zenon
<1>16. ScoringTerms = [c \in N |-> Scores(ScoringTerms, c[1], c[2])]
  BY <1>15, Zenon DEF ScoringTerms, N
<1>17. ASSUME NEW q \in Nodes, NEW b \in BOOLEAN
       PROVE  collect_scoring_terms(q, b) = Scores(ScoringTerms, q, b)
  <2> DEFINE c == <<q, b>>
  <2>1. c \in N /\ c[1] = q /\ c[2] = b
    BY <1>3, Zenon
  <2> HIDE DEF c
  <2>2. ScoringTerms[c] = Scores(ScoringTerms, c[1], c[2])
    BY <1>16, <2>1, Zenon
  <2> QED BY <2>1, <2>2, Zenon DEF collect_scoring_terms, c
<1> QED
  BY <1>17, Zenon

\* The same for the documents a query matches.
LEMMA MatchingObeys ==
    ASSUME TokensOK
    PROVE  \A q \in Nodes : Matching[q] = Matches(Matching, q)
<1>1. PICK rank : IsRank(rank)
  BY RanksExist
<1>2. rank \in [Nodes -> Nat]
  BY <1>1, Zenon DEF IsRank
<1> DEFINE V == SUBSET SUBSET Leaves
           G == [q \in Nodes |-> [f \in [Nodes -> V] |-> Matches(f, q)]]
           M == 2 * Len(tokens) + 2
<1>3. \A q \in Nodes : rank[q] < M
  <2> TAKE q \in Nodes
  <2>1. PICK i, j : Spans(q, i, j) /\ rank[q] = Size(i, j)
    BY <1>1, Zenon DEF IsRank
  <2>2. Size(i, j) < 2 * Len(tokens) + 2
    BY <2>1, PartsAreSmaller, Zenon DEF Spans
  <2> QED BY <2>1, <2>2
<1>4. ASSUME NEW f \in [Nodes -> V], NEW q \in Nodes
      PROVE  Matches(f, q) \in V
  <2>1. ASSUME NEW i \in Leaves, q \in {TermNode(i), PhraseNode(i)} PROVE Matches(f, q) \in V
    <3>0. q = TermNode(i) \/ q = PhraseNode(i)
      BY <2>1, Zenon
    <3>1. Matches(f, q) = {S \in SUBSET Leaves : i \in S}
      BY <2>1, LeafMatches
    <3> QED BY <3>1
  <2>2. ASSUME NEW o \in Nodes, q = NotNode(o) PROVE Matches(f, q) \in V
    <3>1. Matches(f, q) = (SUBSET Leaves) \ f[o]
      BY <2>2, NotMatches, Zenon
    <3> QED BY <3>1
  <2>3. ASSUME NEW l \in Nodes, NEW r \in Nodes, q \in {AndNode(l, r), OrNode(l, r)} PROVE Matches(f, q) \in V
    <3>1. Matches(f, q) \in {f[l] \cap f[r], f[l] \cup f[r]}
      BY <2>3, AndMatches, OrMatches, SMTT(30)
    <3>2. f[l] \in V /\ f[r] \in V
      BY Zenon
    <3> QED BY <3>1, <3>2
  <2> HIDE DEF V
  <2> QED BY <1>1, <2>1, <2>2, <2>3, NodesAre, Zenon
<1>5. ASSUME NEW q \in Nodes, NEW f, NEW g,
             \A c \in Nodes : rank[c] < rank[q] => f[c] = g[c]
      PROVE  Matches(f, q) = Matches(g, q)
  <2>1. ASSUME NEW i \in Leaves, q \in {TermNode(i), PhraseNode(i)} PROVE Matches(f, q) = Matches(g, q)
    <3>0. q = TermNode(i) \/ q = PhraseNode(i)
      BY <2>1, Zenon
    <3>1. Matches(f, q) = {S \in SUBSET Leaves : i \in S}
      BY <3>0, LeafMatches, Zenon
    <3>2. Matches(g, q) = {S \in SUBSET Leaves : i \in S}
      BY <3>0, LeafMatches, Zenon
    <3> QED BY <3>1, <3>2, Zenon
  <2>2. ASSUME NEW o \in Nodes, q = NotNode(o), rank[o] < rank[q] PROVE Matches(f, q) = Matches(g, q)
    <3>1. Matches(f, q) = (SUBSET Leaves) \ f[o] /\ Matches(g, q) = (SUBSET Leaves) \ g[o]
      BY <2>2, NotMatches, Zenon
    <3> QED BY <1>5, <2>2, <3>1, Zenon
  <2>3. ASSUME NEW l \in Nodes, NEW r \in Nodes, q \in {AndNode(l, r), OrNode(l, r)},
               rank[l] < rank[q], rank[r] < rank[q]
        PROVE  Matches(f, q) = Matches(g, q)
    <3>1. f[l] = g[l] /\ f[r] = g[r]
      BY <1>5, <2>3, Zenon
    <3>2. CASE q = AndNode(l, r)
      <4>1. Matches(f, q) = f[l] \cap f[r] /\ Matches(g, q) = g[l] \cap g[r]
        BY <3>2, AndMatches, Zenon
      <4> QED BY <3>1, <4>1, Zenon
    <3>3. CASE q = OrNode(l, r)
      <4>1. Matches(f, q) = f[l] \cup f[r] /\ Matches(g, q) = g[l] \cup g[r]
        BY <3>3, OrMatches, Zenon
      <4> QED BY <3>1, <4>1, Zenon
    <3> QED BY <2>3, <3>2, <3>3, Zenon
  <2> QED BY <1>1, <2>1, <2>2, <2>3, NodesAre, Zenon
<1>6. \A q \in Nodes, f \in [Nodes -> V] : G[q][f] = Matches(f, q)
  BY Zenon
<1>7. G \in [Nodes -> [[Nodes -> V] -> V]]
  <2>1. ASSUME NEW q \in Nodes PROVE [f \in [Nodes -> V] |-> Matches(f, q)] \in [[Nodes -> V] -> V]
    <3> HIDE DEF V
    <3>1. \A f \in [Nodes -> V] : Matches(f, q) \in V
      BY <1>4, Zenon
    <3> QED BY <3>1, Zenon
  <2> HIDE DEF V
  <2> QED BY <2>1, Zenon
<1>8. \A q \in Nodes : \A f, g \in [Nodes -> V] :
         (\A c \in Nodes : rank[c] < rank[q] => f[c] = g[c]) => G[q][f] = G[q][g]
  <2> TAKE q \in Nodes
  <2> TAKE f, g \in [Nodes -> V]
  <2> HAVE \A c \in Nodes : rank[c] < rank[q] => f[c] = g[c]
  <2> HIDE DEF V, G
  <2>1. Matches(f, q) = Matches(g, q)
    BY <1>5, Zenon
  <2> QED BY <1>6, <2>1, Zenon
<1>9. M \in Nat /\ V # {}
  BY TokenCount
<1> HIDE DEF V, G, M
<1>10. PICK f \in [Nodes -> V] : \A q \in Nodes : f[q] = G[q][f]
  <2>1. IsRecursion(Nodes, V, rank, M, G)
    BY <1>2, <1>3, <1>7, <1>8, <1>9, Zenon DEF IsRecursion
  <2> QED BY <2>1, RecursionHasASolution
<1>11. f = [q \in Nodes |-> Matches(f, q)]
  <2>1. f = [q \in Nodes |-> f[q]]
    BY Zenon
  <2>2. \A q \in Nodes : f[q] = Matches(f, q)
    BY <1>6, <1>10, Zenon
  <2> QED BY <2>1, <2>2, Zenon
<1>12. Matching = [q \in Nodes |-> Matches(Matching, q)]
  BY <1>11, Zenon DEF Matching
<1> QED
  BY <1>12, Zenon

\* One more leaf that a document has never loses, or never wins, the match.
Rises(q, p) == \A S \in SUBSET Leaves : S \in Matching[q] => S \cup {p} \in Matching[q]
Falls(q, p) == \A S \in SUBSET Leaves : S \cup {p} \in Matching[q] => S \in Matching[q]

\* Under an odd number of NOTs it is the other way round.
Helps(q, p) ==
    /\ IF p \in collect_scoring_terms(q, FALSE) THEN Rises(q, p) ELSE Falls(q, p)
    /\ IF p \in collect_scoring_terms(q, TRUE) THEN Falls(q, p) ELSE Rises(q, p)

\* A leaf of another part of the query.
IsForeign(q, p) ==
    p \notin collect_scoring_terms(q, FALSE) /\ p \notin collect_scoring_terms(q, TRUE)

LEMMA LeafHelps ==
    ASSUME TokensOK, NEW i \in Leaves, NEW q \in Nodes, q \in {TermNode(i), PhraseNode(i)},
           NEW p \in Leaves
    PROVE  Helps(q, p) /\ (p # i => IsForeign(q, p))
<1>1. q = TermNode(i) \/ q = PhraseNode(i)
  BY Zenon
<1>2. \A b \in BOOLEAN : \A x : x \in collect_scoring_terms(q, b) <=> b = FALSE /\ x = i
  <2> TAKE b \in BOOLEAN
  <2> TAKE x
  <2>1. x \in Scores(ScoringTerms, q, b) <=> b = FALSE /\ x = i
    BY <1>1, LeafScores, Zenon
  <2> QED BY <2>1, ScoringObeys, Zenon
<1>3. /\ p \in collect_scoring_terms(q, FALSE) <=> p = i
      /\ p \notin collect_scoring_terms(q, TRUE)
  BY <1>2
<1>4. Matching[q] = {S \in SUBSET Leaves : i \in S}
  <2>1. Matches(Matching, q) = {S \in SUBSET Leaves : i \in S}
    BY <1>1, LeafMatches, Zenon
  <2> QED BY <2>1, MatchingObeys, Zenon
<1>5. Rises(q, p) /\ (p # i => Falls(q, p))
  BY <1>4 DEF Rises, Falls
<1> QED
  BY <1>3, <1>5, Zenon DEF Helps, IsForeign

LEMMA NotHelps ==
    ASSUME TokensOK, NEW o \in Nodes, NEW q \in Nodes, q = NotNode(o),
           NEW p \in Leaves, Helps(o, p)
    PROVE  Helps(q, p) /\ (IsForeign(o, p) => IsForeign(q, p))
<1>1. collect_scoring_terms(q, FALSE) = collect_scoring_terms(o, TRUE)
  <2>1. Scores(ScoringTerms, q, FALSE) = ScoringTerms[<<o, ~FALSE>>]
    BY NotScores, Zenon
  <2>2. (~FALSE) = TRUE
    OBVIOUS
  <2>3. collect_scoring_terms(q, FALSE) = Scores(ScoringTerms, q, FALSE)
    BY ScoringObeys, Zenon
  <2> QED BY <2>1, <2>2, <2>3, Zenon DEF collect_scoring_terms
<1>2. collect_scoring_terms(q, TRUE) = collect_scoring_terms(o, FALSE)
  <2>1. Scores(ScoringTerms, q, TRUE) = ScoringTerms[<<o, ~TRUE>>]
    BY NotScores, Zenon
  <2>2. (~TRUE) = FALSE
    OBVIOUS
  <2>3. collect_scoring_terms(q, TRUE) = Scores(ScoringTerms, q, TRUE)
    BY ScoringObeys, Zenon
  <2> QED BY <2>1, <2>2, <2>3, Zenon DEF collect_scoring_terms
<1>3. Matching[q] = (SUBSET Leaves) \ Matching[o]
  <2>1. Matches(Matching, q) = (SUBSET Leaves) \ Matching[o]
    BY NotMatches, Zenon
  <2> QED BY <2>1, MatchingObeys, Zenon
<1>4. /\ Falls(o, p) => Rises(q, p)
      /\ Rises(o, p) => Falls(q, p)
  <2>1. \A S \in SUBSET Leaves : S \cup {p} \in SUBSET Leaves
    OBVIOUS
  <2> QED BY <1>3, <2>1, Zenon DEF Rises, Falls
<1> QED
  BY <1>1, <1>2, <1>4, Zenon DEF Helps, IsForeign

LEMMA PairHelps ==
    ASSUME TokensOK, NEW l \in Nodes, NEW r \in Nodes, NEW q \in Nodes,
           q \in {AndNode(l, r), OrNode(l, r)},
           NEW p \in Leaves, Helps(l, p), Helps(r, p), IsForeign(l, p) \/ IsForeign(r, p)
    PROVE  Helps(q, p) /\ (IsForeign(l, p) /\ IsForeign(r, p) => IsForeign(q, p))
<1>1. q = AndNode(l, r) \/ q = OrNode(l, r)
  BY Zenon
<1>2. \A b \in BOOLEAN :
         p \in collect_scoring_terms(q, b) <=>
            p \in collect_scoring_terms(l, b) \/ p \in collect_scoring_terms(r, b)
  <2> TAKE b \in BOOLEAN
  <2>1. p \in Scores(ScoringTerms, q, b) <=>
           p \in ScoringTerms[<<l, b>>] \/ p \in ScoringTerms[<<r, b>>]
    BY <1>1, PairScores, Zenon
  <2>2. collect_scoring_terms(q, b) = Scores(ScoringTerms, q, b)
    BY ScoringObeys, Zenon
  <2> QED BY <2>1, <2>2, Zenon DEF collect_scoring_terms
<1>3. \/ Matching[q] = Matching[l] \cap Matching[r]
      \/ Matching[q] = Matching[l] \cup Matching[r]
  <2>1. \/ Matches(Matching, q) = Matching[l] \cap Matching[r]
        \/ Matches(Matching, q) = Matching[l] \cup Matching[r]
    <3>1. CASE q = AndNode(l, r)
      BY <3>1, AndMatches, Zenon
    <3>2. CASE q = OrNode(l, r)
      BY <3>2, OrMatches, Zenon
    <3> QED BY <1>1, <3>1, <3>2
  <2> QED BY <2>1, MatchingObeys, Zenon
<1>4. /\ Rises(l, p) /\ Rises(r, p) => Rises(q, p)
      /\ Falls(l, p) /\ Falls(r, p) => Falls(q, p)
  BY <1>3, Zenon DEF Rises, Falls
<1>5. /\ IsForeign(l, p) => Rises(l, p) /\ Falls(l, p)
      /\ IsForeign(r, p) => Rises(r, p) /\ Falls(r, p)
  BY Zenon DEF Helps, IsForeign
<1> DEFINE lt == p \in collect_scoring_terms(l, FALSE)
           rt == p \in collect_scoring_terms(r, FALSE)
           qt == p \in collect_scoring_terms(q, FALSE)
           lf == p \in collect_scoring_terms(l, TRUE)
           rf == p \in collect_scoring_terms(r, TRUE)
           qf == p \in collect_scoring_terms(q, TRUE)
<1>6. (qt <=> lt \/ rt) /\ (qf <=> lf \/ rf)
  BY <1>2, Zenon
<1>7. Helps(q, p)
  BY <1>4, <1>5, <1>6, Zenon DEF Helps, IsForeign
<1>8. IsForeign(l, p) /\ IsForeign(r, p) => IsForeign(q, p)
  BY <1>6, Zenon DEF IsForeign
<1> QED
  BY <1>7, <1>8

\* Every tree, by induction over the size of its part of the query.
HelpsWithin(q, i, j) ==
    \A p \in Leaves : Helps(q, p) /\ (p \notin i..j => IsForeign(q, p))

LEMMA TreesHelp ==
    ASSUME TokensOK
    PROVE  \A q, i, j : Spans(q, i, j) => HelpsWithin(q, i, j)
<1> DEFINE T == {n \in Nat : \E q, i, j : Spans(q, i, j) /\ Size(i, j) = n /\ ~HelpsWithin(q, i, j)}
<1>1. T = {}
  <2> SUFFICES ASSUME T # {} PROVE FALSE
    OBVIOUS
  <2>1. PICK n \in T : \A k \in T : n <= k
    <3>1. T \subseteq Nat
      OBVIOUS
    <3> HIDE DEF T
    <3> QED BY <3>1, LeastNumber
  <2>2. PICK q, i, j : Spans(q, i, j) /\ Size(i, j) = n /\ ~HelpsWithin(q, i, j)
    BY <2>1
  <2>3. i \in Places /\ j \in Ranges /\ i \in Nat /\ j \in Nat /\ Size(i, j) \in Nat
    BY <2>2, TokenCount DEF Spans, Places, Ranges, Size
  <2>4. ASSUME NEW o, NEW a, NEW b, Spans(o, a, b), Size(a, b) < Size(i, j)
        PROVE  HelpsWithin(o, a, b) /\ o \in Nodes
    <3>1. Size(a, b) \in Nat
      BY <2>4, PartsAreSmaller DEF Spans
    <3>2. ~(n <= Size(a, b))
      BY <2>2, <2>3, <2>4, <3>1
    <3>3. ~HelpsWithin(o, a, b) => Size(a, b) \in T
      BY <2>4, <3>1
    <3>4. o \in Nodes
      BY <2>4, NodesSpan, Zenon
    <3> QED BY <2>1, <3>2, <3>3, <3>4, Zenon
  <2>5. q \in Nodes
    BY <2>2, NodesSpan, Zenon
  <2>6. Leaves \subseteq Nat
    BY DEF Leaves, TokensOK
  <2> HIDE DEF T
  <2>7. CASE i = j /\ i \in Leaves /\ q \in {TermNode(i), PhraseNode(i)}
    <3>1. \A p \in Leaves : Helps(q, p) /\ (p # i => IsForeign(q, p))
      BY <2>5, <2>7, LeafHelps, Zenon
    <3>2. \A p \in Leaves : p \notin i..j => p # i
      BY <2>3, <2>7
    <3> QED BY <2>2, <3>1, <3>2, Zenon DEF HelpsWithin
  <2>8. CASE i < j /\ Spans(q, i + 1, j - 1)
    <3>1. HelpsWithin(q, i + 1, j - 1)
      BY <2>3, <2>4, <2>8, PartsAreSmaller
    <3>2. \A p \in Leaves : p \notin i..j => p \notin i + 1..j - 1
      BY <2>3, <2>6
    <3> QED BY <2>2, <3>1, <3>2, Zenon DEF HelpsWithin
  <2>9. ASSUME i < j, NEW o, Spans(o, i + 1, j), q = NotNode(o) PROVE FALSE
    <3>1. HelpsWithin(o, i + 1, j) /\ o \in Nodes
      BY <2>3, <2>4, <2>9, PartsAreSmaller
    <3>2. \A p \in Leaves : p \notin i..j => p \notin i + 1..j
      BY <2>3, <2>6
    <3>3. ASSUME NEW p \in Leaves PROVE Helps(q, p) /\ (p \notin i..j => IsForeign(q, p))
      <4>1. Helps(o, p) /\ (p \notin i..j => IsForeign(o, p))
        BY <3>1, <3>2, Zenon DEF HelpsWithin
      <4> QED BY <2>5, <2>9, <3>1, <4>1, NotHelps, Zenon
    <3> QED BY <2>2, <3>3, Zenon DEF HelpsWithin
  <2>10. ASSUME NEW k \in i + 1..j, NEW m \in k..j, NEW l, NEW r,
                Spans(l, i, k - 1), Spans(r, m, j), q \in {AndNode(l, r), OrNode(l, r)}
         PROVE  FALSE
    <3>1. /\ HelpsWithin(l, i, k - 1) /\ l \in Nodes
          /\ HelpsWithin(r, m, j) /\ r \in Nodes
      BY <2>3, <2>4, <2>10, PartsAreSmaller
    <3>2. \A p \in Leaves : /\ p \notin i..j => p \notin i..k - 1 /\ p \notin m..j
                            /\ p \notin i..k - 1 \/ p \notin m..j
      BY <2>3, <2>6
    <3>3. ASSUME NEW p \in Leaves PROVE Helps(q, p) /\ (p \notin i..j => IsForeign(q, p))
      <4>1. Helps(l, p) /\ (p \notin i..k - 1 => IsForeign(l, p))
        BY <3>1, Zenon DEF HelpsWithin
      <4>2. Helps(r, p) /\ (p \notin m..j => IsForeign(r, p))
        BY <3>1, Zenon DEF HelpsWithin
      <4>3. IsForeign(l, p) \/ IsForeign(r, p)
        BY <3>2, <4>1, <4>2, Zenon
      <4>4. Helps(q, p) /\ (IsForeign(l, p) /\ IsForeign(r, p) => IsForeign(q, p))
        BY <2>5, <2>10, <3>1, <4>1, <4>2, <4>3, PairHelps
      <4> QED BY <3>2, <4>1, <4>2, <4>4, Zenon
    <3> QED BY <2>2, <3>3, Zenon DEF HelpsWithin
  <2>11. IsMade(q, i, j)
    BY <2>2, TreesAreMade, Zenon
  <2> QED BY <2>7, <2>8, <2>9, <2>10, <2>11, Zenon DEF IsMade
<1> QED
  <2> SUFFICES ASSUME NEW q, NEW i, NEW j, Spans(q, i, j) PROVE HelpsWithin(q, i, j)
    BY Zenon
  <2>1. Size(i, j) \in Nat
    BY PartsAreSmaller DEF Spans
  <2> QED BY <1>1, <2>1

LEMMA ScoringIsRight ==
    ASSUME TokensOK
    PROVE  ScoredLeavesHelp
<1> SUFFICES ASSUME parse # Error PROVE \A p \in Leaves : Helps(parse.node, p)
  <2> SUFFICES ASSUME \A p \in Leaves : Helps(parse.node, p)
               PROVE  ScoredLeavesHelp
    BY Zenon DEF ScoredLeavesHelp
  <2> QED BY Zenon DEF ScoredLeavesHelp, Helps, Rises, Falls
<1>1. OrTrees(Trees, 1, Len(tokens)) = {parse.node}
  BY ParserIsRight, Zenon DEF ParserFollowsGrammar
<1>2. 1 \in Places /\ Len(tokens) \in Ranges
  BY TokenCount DEF Places, Ranges
<1>3. Spans(parse.node, 1, Len(tokens))
  BY <1>1, <1>2 DEF Spans
<1> QED
  BY <1>3, TreesHelp, Zenon DEF HelpsWithin

-----------------------------------------------------------------------------
(* The vocabulary: tokenizer and normalizer.                               *)

\* The recursive function in FlattenSeq.
Joined(s) == CHOOSE f : f = [i \in 1..Len(s) |-> IF i = 1 THEN s[i] ELSE f[i - 1] \o s[i]]

LEMMA JoinedObeys ==
    ASSUME NEW S, NEW s \in Seq(Seq(S))
    PROVE  /\ Len(s) \in Nat
           /\ Joined(s) \in [1..Len(s) -> Seq(S)]
           /\ \A i \in 1..Len(s) : Joined(s)[i] = IF i = 1 THEN s[i] ELSE Joined(s)[i - 1] \o s[i]
           /\ s # << >> => FlattenSeq(s) = Joined(s)[Len(s)]
<1> DEFINE N == 1..Len(s)
           V == Seq(S)
           rank == [i \in N |-> i]
           G == [i \in N |-> [f \in [N -> V] |-> IF i = 1 THEN s[i] ELSE f[i - 1] \o s[i]]]
<1>1. Len(s) \in Nat /\ \A i \in N : s[i] \in V
  OBVIOUS
<1>2. \A i \in N : i = 1 \/ i - 1 \in N
  BY <1>1
<1>3. \A i \in N, f \in [N -> V] : (IF i = 1 THEN s[i] ELSE f[i - 1] \o s[i]) \in V
  <2> TAKE i \in N
  <2> TAKE f \in [N -> V]
  <2>1. CASE i = 1
    BY <1>1, <2>1
  <2>2. CASE i # 1
    <3>1. f[i - 1] \in V /\ s[i] \in V
      BY <1>1, <1>2, <2>2
    <3>2. f[i - 1] \o s[i] \in V
      BY <3>1, ConcatProperties
    <3> QED BY <2>2, <3>2
  <2> QED BY <2>1, <2>2
<1>4. V # {} /\ Len(s) + 1 \in Nat
  <2>1. << >> \in V
    OBVIOUS
  <2>2. Len(s) + 1 \in Nat
    BY <1>1
  <2> QED BY <2>1, <2>2, Zenon
<1>5. rank \in [N -> Nat] /\ \A i \in N : rank[i] < Len(s) + 1
  BY <1>1
<1> HIDE DEF N, V
<1>6. G \in [N -> [[N -> V] -> V]]
  BY <1>3, Zenon
<1>7. \A i \in N : \A f, g \in [N -> V] :
         (\A k \in N : rank[k] < rank[i] => f[k] = g[k]) => G[i][f] = G[i][g]
  <2> TAKE i \in N
  <2> TAKE f, g \in [N -> V]
  <2> HAVE \A k \in N : rank[k] < rank[i] => f[k] = g[k]
  <2>1. CASE i = 1
    BY <2>1
  <2>2. CASE i # 1
    <3>1. i - 1 \in N /\ i - 1 < i
      BY <1>1, <1>2, <2>2 DEF N
    <3>2. f[i - 1] = g[i - 1]
      BY <3>1
    <3> QED BY <2>2, <3>2
  <2> QED BY <2>1, <2>2
<1>8. \A i \in N, f \in [N -> V] : G[i][f] = IF i = 1 THEN s[i] ELSE f[i - 1] \o s[i]
  BY Zenon
<1> HIDE DEF rank, G
<1>9. IsRecursion(N, V, rank, Len(s) + 1, G)
  BY <1>4, <1>5, <1>6, <1>7, Zenon DEF IsRecursion
<1>10. PICK f \in [N -> V] : \A i \in N : f[i] = G[i][f]
  BY <1>9, RecursionHasASolution
<1>11. f = [i \in N |-> IF i = 1 THEN s[i] ELSE f[i - 1] \o s[i]]
  <2>1. f = [i \in N |-> f[i]]
    BY Zenon
  <2>2. \A i \in N : f[i] = IF i = 1 THEN s[i] ELSE f[i - 1] \o s[i]
    BY <1>8, <1>10, Zenon
  <2> QED BY <2>1, <2>2, Zenon
<1>12. Joined(s) = [i \in N |-> IF i = 1 THEN s[i] ELSE Joined(s)[i - 1] \o s[i]]
  BY <1>11, Zenon DEF Joined, N
<1>13. \A i \in N : Joined(s)[i] = IF i = 1 THEN s[i] ELSE Joined(s)[i - 1] \o s[i]
  BY <1>12, Zenon
<1>14. \A i \in N : Joined(s)[i] \in V
  <2> DEFINE T == {i \in N : Joined(s)[i] \notin V}
  <2>1. SUFFICES ASSUME T # {} PROVE FALSE
    BY Zenon
  <2>2. T \subseteq Nat
    BY <1>1 DEF N
  <2>3. PICK m \in T : \A k \in T : m <= k
    <3> HIDE DEF T
    <3> QED BY <2>1, <2>2, LeastNumber
  <2>4. m \in N /\ Joined(s)[m] \notin V
    BY <2>3
  <2>5. CASE m = 1
    BY <1>1, <1>13, <2>4, <2>5 DEF N
  <2>6. CASE m # 1
    <3>1. m - 1 \in N /\ ~(m <= m - 1)
      BY <1>1, <1>2, <2>4, <2>6 DEF N
    <3>2. Joined(s)[m - 1] \in V /\ s[m] \in V
      BY <1>1, <2>3, <2>4, <3>1
    <3>3. Joined(s)[m - 1] \o s[m] \in V
      BY <3>2, ConcatProperties DEF V
    <3> QED BY <1>13, <2>4, <2>6, <3>3, Zenon
  <2> QED BY <2>5, <2>6
<1>15. Joined(s) \in [N -> V]
  BY <1>12, <1>14, Zenon
<1>16. s # << >> => FlattenSeq(s) = Joined(s)[Len(s)]
  <2>1. s # << >> => Len(s) # 0
    OBVIOUS
  <2> QED BY <2>1, Zenon DEF FlattenSeq, Joined
<1> QED
  BY <1>1, <1>13, <1>15, <1>16 DEF N, V

LEMMA FlattenIsSeq ==
    ASSUME NEW S, NEW s \in Seq(Seq(S))
    PROVE  FlattenSeq(s) \in Seq(S)
<1>1. CASE s = << >>
  <2>1. Len(s) = 0
    BY <1>1
  <2>2. FlattenSeq(s) = << >>
    BY <1>1, <2>1, Zenon DEF FlattenSeq
  <2> QED BY <2>2, EmptySeq
<1>2. CASE s # << >>
  <2>1. Len(s) \in 1..Len(s)
    BY <1>2
  <2>2. Joined(s) \in [1..Len(s) -> Seq(S)] /\ FlattenSeq(s) = Joined(s)[Len(s)]
    BY <1>2, JoinedObeys
  <2>3. Joined(s)[Len(s)] \in Seq(S)
    BY <2>1, <2>2, Zenon
  <2> QED BY <2>2, <2>3, Zenon
<1> QED
  BY <1>1, <1>2

LEMMA FlattenOne ==
    ASSUME NEW S, NEW x \in Seq(S)
    PROVE  FlattenSeq(<<x>>) = x
<1> DEFINE s == <<x>>
<1>1. s \in Seq(Seq(S)) /\ s # << >> /\ Len(s) = 1 /\ s[1] = x
  OBVIOUS
<1> HIDE DEF s
<1>2. FlattenSeq(s) = Joined(s)[1] /\ Joined(s)[1] = s[1]
  BY <1>1, JoinedObeys
<1> QED
  BY <1>1, <1>2 DEF s

LEMMA FlattenEmpty == FlattenSeq(<< >>) = << >>
<1>1. Len(<< >>) = 0
  OBVIOUS
<1> QED
  BY <1>1, Zenon DEF FlattenSeq

LEMMA FlattenConcat ==
    ASSUME NEW S, NEW a \in Seq(Seq(S)), NEW b \in Seq(Seq(S))
    PROVE  FlattenSeq(a \o b) = FlattenSeq(a) \o FlattenSeq(b)
<1>1. CASE a = << >>
  <2>1. a \o b = b /\ FlattenSeq(a) = << >> /\ FlattenSeq(b) \in Seq(S)
    BY <1>1, FlattenEmpty, FlattenIsSeq
  <2> QED BY <2>1, ConcatEmptySeq
<1>2. CASE b = << >>
  <2>1. a \o b = a /\ FlattenSeq(b) = << >> /\ FlattenSeq(a) \in Seq(S)
    BY <1>2, FlattenEmpty, FlattenIsSeq
  <2> QED BY <2>1, ConcatEmptySeq
<1>3. CASE a # << >> /\ b # << >>
  <2> DEFINE c == a \o b
             A == Len(a)
             B == Len(b)
             x == FlattenSeq(a)
  <2>1. A \in Nat /\ B \in Nat /\ A >= 1 /\ B >= 1 /\ c # << >>
    BY <1>3
  <2>2. c \in Seq(Seq(S)) /\ Len(c) = A + B
    OBVIOUS
  <2>3. /\ \A i \in 1..A : c[i] = a[i] /\ a[i] \in Seq(S)
        /\ \A i \in 1..B : c[A + i] = b[i] /\ b[i] \in Seq(S)
    OBVIOUS
  <2>4. x \in Seq(S)
    BY FlattenIsSeq
  <2> HIDE DEF A, B, c, x
  <2>5. \A i \in 1..A : Joined(c)[i] = Joined(a)[i]
    <3> DEFINE T == {i \in 1..A : Joined(c)[i] # Joined(a)[i]}
    <3>1. SUFFICES ASSUME T # {} PROVE FALSE
      OBVIOUS
    <3>2. T \subseteq Nat
      BY <2>1
    <3>3. PICK m \in T : \A k \in T : m <= k
      <4> HIDE DEF T
      <4> QED BY <3>1, <3>2, LeastNumber
    <3>4. m \in 1..A /\ Joined(c)[m] # Joined(a)[m] /\ m \in 1..Len(c) /\ m \in 1..Len(a)
      BY <2>1, <2>2, <3>3 DEF A
    <3>5. /\ Joined(c)[m] = IF m = 1 THEN c[m] ELSE Joined(c)[m - 1] \o c[m]
          /\ Joined(a)[m] = IF m = 1 THEN a[m] ELSE Joined(a)[m - 1] \o a[m]
      <4>1. Joined(c)[m] = IF m = 1 THEN c[m] ELSE Joined(c)[m - 1] \o c[m]
        BY <2>2, <3>4, JoinedObeys
      <4>2. Joined(a)[m] = IF m = 1 THEN a[m] ELSE Joined(a)[m - 1] \o a[m]
        BY <3>4, JoinedObeys
      <4> QED BY <4>1, <4>2
    <3>6. m # 1 => Joined(c)[m - 1] = Joined(a)[m - 1]
      <4>1. m # 1 => m - 1 \in 1..A /\ ~(m <= m - 1)
        BY <2>1, <3>4
      <4> QED BY <3>3, <4>1
    <3>7. c[m] = a[m]
      BY <2>3, <3>4
    <3> QED BY <3>4, <3>5, <3>6, <3>7, Zenon
  <2>6. x = Joined(c)[A] /\ x = Joined(a)[A]
    <3>1. x = Joined(a)[A]
      BY <1>3, JoinedObeys DEF A, x
    <3>2. A \in 1..A
      BY <2>1
    <3> QED BY <2>5, <3>1, <3>2
  <2>7. \A i \in 1..B : Joined(c)[A + i] = x \o Joined(b)[i]
    <3> DEFINE T == {i \in 1..B : Joined(c)[A + i] # x \o Joined(b)[i]}
    <3>1. SUFFICES ASSUME T # {} PROVE FALSE
      OBVIOUS
    <3>2. T \subseteq Nat
      BY <2>1
    <3>3. PICK m \in T : \A k \in T : m <= k
      <4> HIDE DEF T
      <4> QED BY <3>1, <3>2, LeastNumber
    <3>4. /\ m \in 1..B /\ Joined(c)[A + m] # x \o Joined(b)[m]
          /\ A + m \in 1..Len(c) /\ m \in 1..Len(b) /\ A + m # 1 /\ (A + m) - 1 = A + (m - 1)
      <4>1. m \in 1..B /\ Joined(c)[A + m] # x \o Joined(b)[m]
        BY <3>3, Zenon
      <4>2. m \in 1..Len(b)
        BY <4>1, Zenon DEF B
      <4> HIDE DEF T
      <4>3. A + m \in 1..Len(c) /\ A + m # 1 /\ (A + m) - 1 = A + (m - 1)
        BY <2>1, <2>2, <4>1
      <4> QED BY <4>1, <4>2, <4>3, Zenon
    <3>5. Joined(c)[A + m] = Joined(c)[A + (m - 1)] \o b[m]
      <4>1. \A i \in 1..Len(c) : Joined(c)[i] = IF i = 1 THEN c[i] ELSE Joined(c)[i - 1] \o c[i]
        BY <2>2, JoinedObeys
      <4>2. Joined(c)[A + m] = Joined(c)[(A + m) - 1] \o c[A + m]
        <5> DEFINE n == A + m
        <5>1. n \in 1..Len(c) /\ n # 1
          BY <3>4
        <5> HIDE DEF n, T
        <5>2. Joined(c)[n] = Joined(c)[n - 1] \o c[n]
          BY <4>1, <5>1, Zenon
        <5> QED BY <5>2, Zenon DEF n
      <4> QED BY <2>3, <3>4, <4>2
    <3>6. Joined(b)[m] = IF m = 1 THEN b[m] ELSE Joined(b)[m - 1] \o b[m]
      BY <3>4, JoinedObeys
    <3>7. CASE m = 1
      <4>1. A + (m - 1) = A
        BY <2>1, <3>7
      <4> QED BY <2>6, <3>4, <3>5, <3>6, <3>7, <4>1
    <3>8. CASE m # 1
      <4>1. m - 1 \in 1..B /\ m - 1 \in 1..Len(b) /\ ~(m <= m - 1)
        BY <2>1, <3>4, <3>8 DEF B
      <4>2. Joined(c)[A + (m - 1)] = x \o Joined(b)[m - 1]
        BY <3>3, <4>1
      <4>3. Joined(b)[m - 1] \in Seq(S) /\ b[m] \in Seq(S)
        BY <2>3, <3>4, <4>1, JoinedObeys
      <4>4. \A u, v \in Seq(S) : (x \o u) \o v = x \o (u \o v)
        <5> HIDE DEF T
        <5> TAKE u, v \in Seq(S)
        <5> QED BY <2>4, ConcatAssociative
      <4>5. (x \o Joined(b)[m - 1]) \o b[m] = x \o (Joined(b)[m - 1] \o b[m])
        BY <4>3, <4>4, Zenon
      <4> QED BY <3>4, <3>5, <3>6, <3>8, <4>2, <4>5, Zenon
    <3> QED BY <3>7, <3>8
  <2>8. FlattenSeq(b) = Joined(b)[B]
    BY <1>3, JoinedObeys DEF B
  <2>9. FlattenSeq(c) = Joined(c)[A + B]
    BY <2>1, <2>2, JoinedObeys
  <2>10. B \in 1..B
    BY <2>1
  <2> QED BY <2>7, <2>8, <2>9, <2>10, Zenon DEF c, x
<1> QED
  BY <1>1, <1>2, <1>3

\* The sequence of the parts of s, Part(s[1]), Part(s[2]), ...: the normalizer
\* makes a word a part, parse_primary() a token.
LEMMA PartsOfConcat ==
    ASSUME NEW X, NEW a \in Seq(X), NEW b \in Seq(X), NEW h
    PROVE  [k \in 1..Len(a \o b) |-> h[(a \o b)[k]]] =
              [k \in 1..Len(a) |-> h[a[k]]] \o [k \in 1..Len(b) |-> h[b[k]]]
  OBVIOUS

\* The end of a word is where the first byte is that is not of a word.
IsRunEnd(p, to, q) ==
    /\ q \in p..to + 1
    /\ q = to + 1 \/ ~is_word_byte(text[q])
    /\ \A r \in p..q - 1 : is_word_byte(text[r])

LEMMA RunEndIs ==
    ASSUME NEW p \in Nat, NEW to \in Nat, p <= to
    PROVE  /\ IsRunEnd(p, to, RunEnd(p, to))
           /\ \A q : IsRunEnd(p, to, q) => RunEnd(p, to) = q
<1> DEFINE T == {q \in p..to + 1 : q = to + 1 \/ ~is_word_byte(text[q])}
<1>1. T \subseteq Nat /\ to + 1 \in T
  OBVIOUS
<1>2. PICK q \in T : \A r \in T : q <= r
  <2> HIDE DEF T
  <2> QED BY <1>1, LeastNumber
<1>3. q \in p..to + 1 /\ (q = to + 1 \/ ~is_word_byte(text[q]))
  BY <1>2
<1>4. \A r \in p..q - 1 : is_word_byte(text[r])
  <2> TAKE r \in p..q - 1
  <2>1. r \in p..to + 1 /\ ~(q <= r)
    BY <1>3
  <2>2. r \notin T
    BY <1>2, <2>1
  <2> QED BY <2>1, <2>2
<1>5. IsRunEnd(p, to, q)
  BY <1>3, <1>4, Zenon DEF IsRunEnd
<1>6. IsRunEnd(p, to, RunEnd(p, to))
  BY <1>5, Zenon DEF IsRunEnd, RunEnd
<1>7. ASSUME NEW a, NEW b, IsRunEnd(p, to, a), IsRunEnd(p, to, b) PROVE ~(a < b)
  <2> SUFFICES ASSUME a < b PROVE FALSE
    OBVIOUS
  <2>1. a \in p..b - 1 /\ a # to + 1
    BY <1>7 DEF IsRunEnd
  <2> QED BY <1>7, <2>1, Zenon DEF IsRunEnd
<1>8. ASSUME NEW a, IsRunEnd(p, to, a) PROVE RunEnd(p, to) = a
  <2>1. ~(a < RunEnd(p, to)) /\ ~(RunEnd(p, to) < a)
    BY <1>6, <1>7, <1>8
  <2>2. a \in Nat /\ RunEnd(p, to) \in Nat
    BY <1>6, <1>8 DEF IsRunEnd
  <2> QED BY <2>1, <2>2
<1> QED
  BY <1>6, <1>8

\* Where the word that begins at p ends.
LEMMA RunEnds ==
    ASSUME NEW p \in Nat, NEW to \in Nat, p <= to, is_word_byte(text[p])
    PROVE  RunEnd(p, to) \in p + 1..to + 1
<1>1. IsRunEnd(p, to, RunEnd(p, to))
  BY RunEndIs
<1>2. RunEnd(p, to) # p
  BY <1>1 DEF IsRunEnd
<1> QED
  BY <1>1, <1>2 DEF IsRunEnd

\* Where a piece of the text begins and ends.
Firsts == 1..Len(text) + 1
Lasts  == 0..Len(text)

LEMMA RunIsWord ==
    ASSUME TextOK, NEW p \in Firsts, NEW to \in Lasts, p <= to, is_word_byte(text[p])
    PROVE  Run(p, to) \in Seq(AllChunks)
<1>1. Len(text) \in Nat /\ p \in Nat /\ to \in Nat
  BY TextLen DEF Firsts, Lasts
<1>2. RunEnd(p, to) \in p + 1..to + 1
  BY <1>1, RunEnds
<1> DEFINE e == RunEnd(p, to) - 1
<1>3. p \in Int /\ e \in Int /\ \A i \in p..e : text[i] \in AllChunks
  BY <1>1, <1>2 DEF TextOK, Firsts, Lasts
<1> HIDE DEF e
<1>4. SubSeq(text, p, e) \in Seq(AllChunks)
  BY <1>3, SubSeqProperties
<1> QED
  BY <1>4 DEF Run, e

\* The tokenizer obeys its equation.
LEMMA WordsObey ==
    ASSUME TextOK
    PROVE  \A p \in Firsts, to \in Lasts : Words[<<p, to>>] = TokenizeFrom(Words, p, to)
<1> DEFINE N == Firsts \X Lasts
           V == Seq(Seq(AllChunks))
           rank == [r \in N |-> Len(text) + 1 - r[1]]
           G == [r \in N |-> [f \in [N -> V] |-> TokenizeFrom(f, r[1], r[2])]]
<1>1. Len(text) \in Nat
  BY TextLen
<1>2. \A r \in N : r[1] \in Firsts /\ r[2] \in Lasts /\ r = <<r[1], r[2]>>
  OBVIOUS
<1>3. rank \in [N -> Nat] /\ \A r \in N : rank[r] < Len(text) + 2
  BY <1>1, <1>2 DEF Firsts
<1>4. \A p \in Firsts, to \in Lasts : <<p, to>> \in N /\ rank[<<p, to>>] = Len(text) + 1 - p
  OBVIOUS
<1> HIDE DEF N, rank
<1>5. ASSUME NEW p \in Firsts, NEW to \in Lasts, p <= to
      PROVE  /\ ~(p > to) /\ p + 1 \in Firsts
             /\ is_word_byte(text[p]) => RunEnd(p, to) \in Firsts /\ RunEnd(p, to) > p
  <2>1. p \in Nat /\ to \in Nat /\ to <= Len(text) /\ p >= 1
    BY <1>1 DEF Firsts, Lasts
  <2>2. is_word_byte(text[p]) => RunEnd(p, to) \in p + 1..to + 1
    BY <1>5, <2>1, RunEnds
  <2> QED BY <1>1, <1>5, <2>1, <2>2 DEF Firsts
<1>6. ASSUME NEW p \in Firsts, NEW to \in Lasts, NEW f \in [N -> V]
      PROVE  TokenizeFrom(f, p, to) \in V
  <2>1. CASE p > to
    <3>1. TokenizeFrom(f, p, to) = << >>
      BY <2>1, Zenon DEF TokenizeFrom
    <3> QED BY <3>1
  <2>2. CASE p <= to /\ is_word_byte(text[p])
    <3>1. TokenizeFrom(f, p, to) = <<Run(p, to)>> \o f[<<RunEnd(p, to), to>>]
      BY <1>5, <2>2, Zenon DEF TokenizeFrom
    <3>2. Run(p, to) \in Seq(AllChunks)
      BY <2>2, RunIsWord
    <3>3. f[<<RunEnd(p, to), to>>] \in V
      BY <1>4, <1>5, <2>2, Zenon
    <3>4. <<Run(p, to)>> \in V
      BY <3>2
    <3>5. <<Run(p, to)>> \o f[<<RunEnd(p, to), to>>] \in V
      BY <3>3, <3>4, ConcatProperties
    <3> QED BY <3>1, <3>5, Zenon
  <2>3. CASE p <= to /\ ~is_word_byte(text[p])
    <3>1. TokenizeFrom(f, p, to) = f[<<p + 1, to>>]
      BY <1>5, <2>3, Zenon DEF TokenizeFrom
    <3>2. f[<<p + 1, to>>] \in V
      BY <1>4, <1>5, <2>3, Zenon
    <3> QED BY <3>1, <3>2, Zenon
  <2>4. p > to \/ p <= to
    BY DEF Firsts, Lasts
  <2> QED BY <2>1, <2>2, <2>3, <2>4
<1>7. ASSUME NEW p \in Firsts, NEW to \in Lasts, NEW f, NEW g,
             \A q \in Firsts : q > p => f[<<q, to>>] = g[<<q, to>>]
      PROVE  TokenizeFrom(f, p, to) = TokenizeFrom(g, p, to)
  <2>1. CASE p > to
    BY <2>1, Zenon DEF TokenizeFrom
  <2>2. CASE p <= to /\ is_word_byte(text[p])
    <3>1. f[<<RunEnd(p, to), to>>] = g[<<RunEnd(p, to), to>>]
      BY <1>5, <1>7, <2>2, Zenon
    <3> QED BY <1>5, <2>2, <3>1, Zenon DEF TokenizeFrom
  <2>3. CASE p <= to /\ ~is_word_byte(text[p])
    <3>1. p + 1 > p
      BY DEF Firsts
    <3>2. f[<<p + 1, to>>] = g[<<p + 1, to>>]
      BY <1>5, <1>7, <2>3, <3>1, Zenon
    <3> QED BY <1>5, <2>3, <3>2, Zenon DEF TokenizeFrom
  <2>4. p > to \/ p <= to
    BY DEF Firsts, Lasts
  <2> QED BY <2>1, <2>2, <2>3, <2>4
<1>8. \A r \in N, f \in [N -> V] : G[r][f] = TokenizeFrom(f, r[1], r[2])
  BY Zenon
<1>9. G \in [N -> [[N -> V] -> V]]
  <2> HIDE DEF V
  <2>1. ASSUME NEW r \in N, NEW f \in [N -> V] PROVE TokenizeFrom(f, r[1], r[2]) \in V
    BY <1>2, <1>6, Zenon
  <2> QED BY <2>1, Zenon
<1>10. \A r \in N : \A f, g \in [N -> V] :
          (\A c \in N : rank[c] < rank[r] => f[c] = g[c]) => G[r][f] = G[r][g]
  <2> TAKE r \in N
  <2> TAKE f, g \in [N -> V]
  <2> HAVE \A c \in N : rank[c] < rank[r] => f[c] = g[c]
  <2>1. PICK p \in Firsts, to \in Lasts : r = <<p, to>> /\ r[1] = p /\ r[2] = to
    BY <1>2, Zenon
  <2> HIDE DEF V, G
  <2>2. ASSUME NEW q \in Firsts, q > p PROVE f[<<q, to>>] = g[<<q, to>>]
    <3>1. <<q, to>> \in N /\ rank[<<q, to>>] = Len(text) + 1 - q /\ rank[r] = Len(text) + 1 - p
      BY <1>4, <2>1, Zenon
    <3>2. Len(text) + 1 - q < Len(text) + 1 - p
      BY <1>1, <2>2 DEF Firsts
    <3> QED BY <3>1, <3>2, Zenon
  <2>3. TokenizeFrom(f, p, to) = TokenizeFrom(g, p, to)
    BY <1>7, <2>2, Zenon
  <2>4. G[r][f] = TokenizeFrom(f, p, to) /\ G[r][g] = TokenizeFrom(g, p, to)
    BY <1>8, <2>1, Zenon
  <2> QED BY <2>3, <2>4, Zenon
<1>11. V # {} /\ Len(text) + 2 \in Nat
  <2>1. << >> \in V
    OBVIOUS
  <2>2. Len(text) + 2 \in Nat
    BY <1>1
  <2> QED BY <2>1, <2>2, Zenon
<1> HIDE DEF V, G
<1>12. IsRecursion(N, V, rank, Len(text) + 2, G)
  BY <1>3, <1>9, <1>10, <1>11, Zenon DEF IsRecursion
<1>13. PICK f \in [N -> V] : \A r \in N : f[r] = G[r][f]
  BY <1>12, RecursionHasASolution
<1>14. f = [r \in N |-> TokenizeFrom(f, r[1], r[2])]
  <2>1. f = [r \in N |-> f[r]]
    BY Zenon
  <2>2. \A r \in N : f[r] = TokenizeFrom(f, r[1], r[2])
    BY <1>8, <1>13, Zenon
  <2> QED BY <2>1, <2>2, Zenon
<1>15. Words = [r \in N |-> TokenizeFrom(Words, r[1], r[2])]
  BY <1>14, Zenon DEF Words, N, Firsts, Lasts
<1> SUFFICES ASSUME NEW p \in Firsts, NEW to \in Lasts
             PROVE  Words[<<p, to>>] = TokenizeFrom(Words, p, to)
  BY Zenon
<1> DEFINE r == <<p, to>>
<1>16. r \in N /\ r[1] = p /\ r[2] = to
  BY <1>4, Zenon
<1> HIDE DEF r
<1>17. Words[r] = TokenizeFrom(Words, r[1], r[2])
  BY <1>15, <1>16, Zenon
<1> QED
  BY <1>16, <1>17, Zenon DEF r

\* Its cases.
LEMMA WordsAre ==
    ASSUME TextOK, NEW p \in Firsts, NEW to \in Lasts
    PROVE  /\ p > to => tokenize(p, to) = << >>
           /\ p <= to /\ is_word_byte(text[p]) =>
                 /\ tokenize(p, to) = <<Run(p, to)>> \o tokenize(RunEnd(p, to), to)
                 /\ RunEnd(p, to) \in p + 1..to + 1 /\ RunEnd(p, to) \in Firsts
                 /\ Run(p, to) \in Seq(AllChunks)
           /\ p <= to /\ ~is_word_byte(text[p]) =>
                 tokenize(p, to) = tokenize(p + 1, to) /\ p + 1 \in Firsts
<1>1. Len(text) \in Nat /\ p \in Nat /\ to \in Nat /\ to <= Len(text) /\ p >= 1
  BY TextLen DEF Firsts, Lasts
<1>2. tokenize(p, to) = TokenizeFrom(Words, p, to)
  BY WordsObey, Zenon DEF tokenize
<1>3. CASE p > to
  BY <1>1, <1>2, <1>3 DEF TokenizeFrom
<1>4. CASE p <= to /\ is_word_byte(text[p])
  <2>1. ~(p > to)
    BY <1>1, <1>4
  <2>2. tokenize(p, to) = <<Run(p, to)>> \o tokenize(RunEnd(p, to), to)
    BY <1>2, <1>4, <2>1, Zenon DEF TokenizeFrom, tokenize
  <2>3. RunEnd(p, to) \in p + 1..to + 1
    BY <1>1, <1>4, RunEnds
  <2>4. RunEnd(p, to) \in Firsts
    BY <1>1, <2>3 DEF Firsts
  <2>5. Run(p, to) \in Seq(AllChunks)
    BY <1>4, RunIsWord
  <2> QED BY <1>4, <2>1, <2>2, <2>3, <2>4, <2>5, Zenon
<1>5. CASE p <= to /\ ~is_word_byte(text[p])
  <2>1. ~(p > to)
    BY <1>1, <1>5
  <2>2. tokenize(p, to) = tokenize(p + 1, to)
    BY <1>2, <1>5, <2>1, Zenon DEF TokenizeFrom, tokenize
  <2>3. p + 1 \in Firsts
    BY <1>1, <1>5 DEF Firsts
  <2> QED BY <1>5, <2>1, <2>2, <2>3, Zenon
<1>6. p > to \/ p <= to
  BY <1>1
<1> QED
  BY <1>3, <1>4, <1>5, <1>6, Zenon

\* An induction from the end of the text to its beginning.
LEMMA FromTheEnd ==
    ASSUME TextOK, NEW T, T \subseteq Firsts, T # {}
    PROVE  \E p \in T : \A q \in Firsts : q > p => q \notin T
<1>1. Len(text) + 1 \in Nat /\ T \subseteq 0..Len(text) + 1
  BY TextLen DEF Firsts
<1>2. PICK p \in T : \A q \in T : q <= p
  BY <1>1, GreatestNumber
<1>3. \A q \in Firsts : q > p => q \notin T
  <2> TAKE q \in Firsts
  <2> HAVE q > p
  <2>1. ~(q <= p)
    BY DEF Firsts
  <2> QED BY <1>2, <2>1
<1> QED
  BY <1>3

LEMMA WordsAreWords ==
    ASSUME TextOK
    PROVE  \A p \in Firsts, to \in Lasts : tokenize(p, to) \in Seq(Seq(AllChunks))
<1> SUFFICES ASSUME NEW to \in Lasts PROVE \A p \in Firsts : tokenize(p, to) \in Seq(Seq(AllChunks))
  BY Zenon
<1> DEFINE T == {p \in Firsts : tokenize(p, to) \notin Seq(Seq(AllChunks))}
<1> SUFFICES ASSUME T # {} PROVE FALSE
  BY Zenon
<1>1. PICK p \in T : \A q \in Firsts : q > p => q \notin T
  BY FromTheEnd
<1>2. p \in Firsts /\ tokenize(p, to) \notin Seq(Seq(AllChunks))
  BY <1>1, Zenon
<1>3. \A q \in Firsts : q > p => tokenize(q, to) \in Seq(Seq(AllChunks))
  BY <1>1, Zenon
<1> HIDE DEF T
<1>4. p \in Nat /\ to \in Nat
  BY <1>2, TextLen DEF Firsts, Lasts
<1>5. CASE p > to
  <2>1. tokenize(p, to) = << >>
    BY <1>2, <1>5, WordsAre, Zenon
  <2> QED BY <1>2, <2>1
<1>6. CASE p <= to /\ is_word_byte(text[p])
  <2> DEFINE e == RunEnd(p, to)
             w == Run(p, to)
  <2>1. tokenize(p, to) = <<w>> \o tokenize(e, to) /\ e \in p + 1..to + 1 /\ e \in Firsts /\ w \in Seq(AllChunks)
    BY <1>2, <1>6, WordsAre, Zenon
  <2> HIDE DEF e, w
  <2>2. tokenize(e, to) \in Seq(Seq(AllChunks))
    BY <1>3, <1>4, <2>1
  <2>3. <<w>> \in Seq(Seq(AllChunks))
    BY <2>1
  <2> QED BY <1>2, <2>1, <2>2, <2>3, ConcatProperties
<1>7. CASE p <= to /\ ~is_word_byte(text[p])
  <2>1. tokenize(p, to) = tokenize(p + 1, to) /\ p + 1 \in Firsts
    BY <1>2, <1>7, WordsAre, Zenon
  <2>2. p + 1 > p
    BY <1>4
  <2> QED BY <1>2, <1>3, <2>1, <2>2, Zenon
<1> QED
  BY <1>4, <1>5, <1>6, <1>7

\* A byte that is not of a word splits the text.
LEMMA WordsSplit ==
    ASSUME TextOK, NEW m \in 1..Len(text), ~is_word_byte(text[m])
    PROVE  \A p \in Firsts : p <= m =>
              tokenize(p, Len(text)) = tokenize(p, m - 1) \o tokenize(m + 1, Len(text))
<1>1. /\ Len(text) \in Nat /\ Len(text) \in Lasts /\ m - 1 \in Lasts /\ m + 1 \in Firsts
      /\ m \in Firsts /\ m \in Nat /\ m <= Len(text)
  BY TextLen DEF Firsts, Lasts
<1> DEFINE N == Len(text)
           rest == tokenize(m + 1, N)
           T == {p \in Firsts : p <= m /\ tokenize(p, N) # tokenize(p, m - 1) \o rest}
<1> SUFFICES ASSUME T # {} PROVE FALSE
  BY Zenon
<1>2. PICK p \in T : \A q \in Firsts : q > p => q \notin T
  BY FromTheEnd
<1>3. p \in Firsts /\ p <= m /\ tokenize(p, N) # tokenize(p, m - 1) \o rest
  BY <1>2, Zenon
<1>4. \A q \in Firsts : q > p /\ q <= m => tokenize(q, N) = tokenize(q, m - 1) \o rest
  BY <1>2, Zenon
<1>5. p \in Nat /\ p <= N
  BY <1>1, <1>3 DEF Firsts
<1>6. rest \in Seq(Seq(AllChunks)) /\ \A q \in Firsts : tokenize(q, m - 1) \in Seq(Seq(AllChunks))
  BY <1>1, WordsAreWords, Zenon
<1> HIDE DEF T, rest
<1>7. CASE p = m
  <2>1. tokenize(m, N) = rest
    BY <1>1, WordsAre DEF rest
  <2>2. m > m - 1
    BY <1>1
  <2>3. tokenize(m, m - 1) = << >>
    BY <1>1, <2>2, WordsAre, Zenon
  <2>4. << >> \o rest = rest
    BY <1>6, ConcatEmptySeq
  <2> QED BY <1>3, <1>7, <2>1, <2>3, <2>4, Zenon
<1>8. CASE p # m /\ is_word_byte(text[p])
  <2> DEFINE e == RunEnd(p, m - 1)
             w == Run(p, m - 1)
  <2>1. p <= m - 1 /\ m - 1 \in Nat
    BY <1>1, <1>3, <1>5, <1>8
  <2>2. /\ tokenize(p, m - 1) = <<w>> \o tokenize(e, m - 1)
        /\ e \in p + 1..m - 1 + 1 /\ e \in Firsts /\ w \in Seq(AllChunks)
    BY <1>1, <1>3, <1>8, <2>1, WordsAre, Zenon
  <2>3. IsRunEnd(p, m - 1, e)
    BY <1>5, <2>1, RunEndIs
  <2>4. e > p /\ e <= m /\ e \in Nat
    BY <1>1, <1>5, <2>2
  <2>5. IsRunEnd(p, N, e)
    <3>1. e \in p..N + 1
      BY <1>1, <1>5, <2>4
    <3>2. e = N + 1 \/ ~is_word_byte(text[e])
      <4>1. e = m - 1 + 1 => e = m
        BY <1>1
      <4> QED BY <2>3, <4>1, Zenon DEF IsRunEnd
    <3>3. \A r \in p..e - 1 : is_word_byte(text[r])
      BY <2>3, Zenon DEF IsRunEnd
    <3> QED BY <3>1, <3>2, <3>3, Zenon DEF IsRunEnd
  <2>6. RunEnd(p, N) = e
    BY <1>1, <1>5, <2>5, RunEndIs
  <2>7. Run(p, N) = w
    BY <2>6, Zenon DEF Run
  <2>8. tokenize(p, N) = <<w>> \o tokenize(e, N)
    <3>1. tokenize(p, N) = <<Run(p, N)>> \o tokenize(RunEnd(p, N), N)
      BY <1>1, <1>3, <1>5, <1>8, WordsAre, Zenon
    <3> HIDE DEF e, w
    <3> QED BY <2>6, <2>7, <3>1, Zenon
  <2> HIDE DEF e, w
  <2>9. tokenize(e, N) = tokenize(e, m - 1) \o rest
    BY <1>4, <2>2, <2>4, Zenon
  <2>10. <<w>> \in Seq(Seq(AllChunks)) /\ tokenize(e, m - 1) \in Seq(Seq(AllChunks))
    BY <1>6, <2>2
  <2>11. (<<w>> \o tokenize(e, m - 1)) \o rest = <<w>> \o (tokenize(e, m - 1) \o rest)
    BY <1>6, <2>10, ConcatAssociative
  <2> QED BY <1>3, <2>2, <2>8, <2>9, <2>11, Zenon
<1>9. CASE p # m /\ ~is_word_byte(text[p])
  <2>1. p <= m - 1 /\ p + 1 > p /\ p + 1 <= m
    BY <1>1, <1>3, <1>5, <1>9
  <2>2. tokenize(p, N) = tokenize(p + 1, N) /\ p + 1 \in Firsts
    BY <1>1, <1>3, <1>5, <1>9, WordsAre, Zenon
  <2>3. tokenize(p, m - 1) = tokenize(p + 1, m - 1)
    BY <1>1, <1>3, <1>9, <2>1, WordsAre, Zenon
  <2> QED BY <1>3, <1>4, <2>1, <2>2, <2>3, Zenon
<1> QED
  BY <1>7, <1>8, <1>9

AllWords == Seq(AllChunks)

LEMMA NormalIsWord ==
    ASSUME NEW w \in AllWords
    PROVE  normalize(w) \in AllWords
<1>1. << >> \in AllWords
  BY DEF AllWords
<1>2. ASSUME w # << >> PROVE stem(w) \in AllWords
  <2>1. w \in Seq(AllChunks) /\ Len(w) \in 1..Len(w)
    BY <1>2 DEF AllWords
  <2>2. "cat" \in AllChunks
    BY DEF AllChunks, WordChunks
  <2> QED BY <2>1, <2>2 DEF stem, AllWords
<1> QED
  BY <1>1, <1>2, Zenon DEF normalize, NoTerm

\* What becomes of a word.
NormalPart == [w \in AllWords |-> IF normalize(w) = NoTerm THEN << >> ELSE <<normalize(w)>>]

LEMMA NormalParts ==
    ASSUME NEW a \in Seq(AllWords)
    PROVE  /\ [k \in 1..Len(a) |-> NormalPart[a[k]]] \in Seq(Seq(AllWords))
           /\ normalize_all(a) = FlattenSeq([k \in 1..Len(a) |-> NormalPart[a[k]]])
           /\ normalize_all(a) \in Seq(AllWords)
<1>1. \A k \in 1..Len(a) : a[k] \in AllWords
  OBVIOUS
<1>2. \A w \in AllWords : NormalPart[w] = IF normalize(w) = NoTerm THEN << >> ELSE <<normalize(w)>>
  BY Zenon DEF NormalPart
<1>3. \A w \in AllWords : NormalPart[w] \in Seq(AllWords)
  <2> TAKE w \in AllWords
  <2>1. normalize(w) \in AllWords
    BY NormalIsWord
  <2>2. << >> \in Seq(AllWords) /\ <<normalize(w)>> \in Seq(AllWords)
    BY <2>1
  <2> QED BY <1>2, <2>2, Zenon
<1>4. [k \in 1..Len(a) |-> NormalPart[a[k]]] \in Seq(Seq(AllWords))
  <2>1. \A k \in 1..Len(a) : NormalPart[a[k]] \in Seq(AllWords)
    BY <1>1, <1>3, Zenon
  <2>2. Len(a) \in Nat
    OBVIOUS
  <2> HIDE DEF NormalPart
  <2> QED BY <2>1, <2>2
<1>5. [k \in 1..Len(a) |-> NormalPart[a[k]]] =
         [k \in 1..Len(a) |-> IF normalize(a[k]) = NoTerm THEN << >> ELSE <<normalize(a[k])>>]
  BY <1>1, <1>2, Zenon
<1>6. normalize_all(a) = FlattenSeq([k \in 1..Len(a) |-> NormalPart[a[k]]])
  BY <1>5, Zenon DEF normalize_all
<1> QED
  BY <1>4, <1>6, FlattenIsSeq, Zenon

LEMMA NormalizeConcat ==
    ASSUME NEW a \in Seq(AllWords), NEW b \in Seq(AllWords)
    PROVE  normalize_all(a \o b) = normalize_all(a) \o normalize_all(b)
<1>1. a \o b \in Seq(AllWords)
  BY ConcatProperties
<1>2. [k \in 1..Len(a \o b) |-> NormalPart[(a \o b)[k]]] =
         [k \in 1..Len(a) |-> NormalPart[a[k]]] \o [k \in 1..Len(b) |-> NormalPart[b[k]]]
  OBVIOUS
<1>3. FlattenSeq([k \in 1..Len(a) |-> NormalPart[a[k]]] \o [k \in 1..Len(b) |-> NormalPart[b[k]]]) =
         normalize_all(a) \o normalize_all(b)
  <2>1. /\ [k \in 1..Len(a) |-> NormalPart[a[k]]] \in Seq(Seq(AllWords))
        /\ [k \in 1..Len(b) |-> NormalPart[b[k]]] \in Seq(Seq(AllWords))
    BY NormalParts, Zenon
  <2>2. /\ normalize_all(a) = FlattenSeq([k \in 1..Len(a) |-> NormalPart[a[k]]])
        /\ normalize_all(b) = FlattenSeq([k \in 1..Len(b) |-> NormalPart[b[k]]])
    BY NormalParts, Zenon
  <2> DEFINE x == [k \in 1..Len(a) |-> NormalPart[a[k]]]
             y == [k \in 1..Len(b) |-> NormalPart[b[k]]]
  <2> HIDE DEF x, y
  <2>3. FlattenSeq(x \o y) = FlattenSeq(x) \o FlattenSeq(y)
    BY <2>1, FlattenConcat DEF x, y
  <2> QED BY <2>2, <2>3, Zenon DEF x, y
<1>4. normalize_all(a \o b) = FlattenSeq([k \in 1..Len(a \o b) |-> NormalPart[(a \o b)[k]]])
  BY <1>1, NormalParts, Zenon
<1> QED
  BY <1>2, <1>3, <1>4, Zenon

LEMMA NormalizeOne ==
    ASSUME NEW w \in AllWords, normalize(w) # NoTerm
    PROVE  normalize_all(<<w>>) = <<normalize(w)>>
<1>1. <<w>> \in Seq(AllWords) /\ Len(<<w>>) = 1 /\ <<w>>[1] = w
  OBVIOUS
<1>2. NormalPart[w] = <<normalize(w)>>
  BY Zenon DEF NormalPart
<1>3. [k \in 1..Len(<<w>>) |-> NormalPart[<<w>>[k]]] = <<NormalPart[w]>>
  OBVIOUS
<1>4. NormalPart[w] \in Seq(AllWords)
  BY <1>2, NormalIsWord
<1> QED
  BY <1>1, <1>2, <1>3, <1>4, NormalParts, FlattenOne, Zenon

LEMMA NormalizeNone == normalize_all(<< >>) = << >>
<1>1. [k \in 1..Len(<< >>) |-> IF normalize(<< >>[k]) = NoTerm THEN << >> ELSE <<normalize(<< >>[k])>>] = << >>
  OBVIOUS
<1> QED
  BY <1>1, FlattenEmpty, Zenon DEF normalize_all

\* The tokens whose terms are words, and the terms of a sequence of them.
WordTokens == {t \in Tokens : TermsOf(t) \in Seq(AllWords)}

TermPart == [t \in WordTokens |-> TermsOf(t)]

TermsOfAll(ts) == FlattenSeq([k \in 1..Len(ts) |-> TermsOf(ts[k])])

PlainToken(t) == t.type \in {"TERM", "PHRASE"} /\ (t.type = "TERM" => IsPlain(t))

AllPlain(ts) == \A k \in 1..Len(ts) : PlainToken(ts[k])

LEMMA TermParts ==
    ASSUME NEW ts \in Seq(WordTokens)
    PROVE  /\ [k \in 1..Len(ts) |-> TermPart[ts[k]]] \in Seq(Seq(AllWords))
           /\ TermsOfAll(ts) = FlattenSeq([k \in 1..Len(ts) |-> TermPart[ts[k]]])
<1>1. \A k \in 1..Len(ts) : ts[k] \in WordTokens
  OBVIOUS
<1>2. \A t \in WordTokens : TermPart[t] = TermsOf(t)
  BY Zenon DEF TermPart
<1>3. \A t \in WordTokens : TermPart[t] \in Seq(AllWords)
  BY <1>2, Zenon DEF WordTokens
<1>4. [k \in 1..Len(ts) |-> TermPart[ts[k]]] \in Seq(Seq(AllWords))
  <2>1. \A k \in 1..Len(ts) : TermPart[ts[k]] \in Seq(AllWords)
    BY <1>1, <1>3, Zenon
  <2>2. Len(ts) \in Nat
    OBVIOUS
  <2> HIDE DEF TermPart
  <2> QED BY <2>1, <2>2
<1>5. [k \in 1..Len(ts) |-> TermPart[ts[k]]] = [k \in 1..Len(ts) |-> TermsOf(ts[k])]
  BY <1>1, <1>2, Zenon
<1> QED
  BY <1>4, <1>5, Zenon DEF TermsOfAll

LEMMA TermsOfPrepended ==
    ASSUME NEW t \in WordTokens, NEW ts \in Seq(WordTokens)
    PROVE  /\ <<t>> \o ts \in Seq(WordTokens)
           /\ AllPlain(<<t>> \o ts) => PlainToken(t) /\ AllPlain(ts)
           /\ TermsOfAll(<<t>> \o ts) = TermsOf(t) \o TermsOfAll(ts)
<1>1. <<t>> \in Seq(WordTokens) /\ <<t>> \o ts \in Seq(WordTokens) /\ Len(<<t>>) = 1 /\ <<t>>[1] = t
  OBVIOUS
<1>2. /\ 1 \in 1..Len(<<t>> \o ts) /\ (<<t>> \o ts)[1] = t
      /\ \A k \in 1..Len(ts) : k + 1 \in 1..Len(<<t>> \o ts) /\ (<<t>> \o ts)[k + 1] = ts[k]
  OBVIOUS
<1>3. AllPlain(<<t>> \o ts) => PlainToken(t) /\ AllPlain(ts)
  <2> SUFFICES ASSUME AllPlain(<<t>> \o ts) PROVE PlainToken(t) /\ AllPlain(ts)
    OBVIOUS
  <2> DEFINE us == <<t>> \o ts
  <2>1. \A k \in 1..Len(us) : PlainToken(us[k])
    BY Zenon DEF AllPlain
  <2>2. PlainToken(us[1])
    BY <1>2, <2>1, Zenon
  <2>3. ASSUME NEW k \in 1..Len(ts) PROVE PlainToken(ts[k])
    <3>1. k + 1 \in 1..Len(us) /\ us[k + 1] = ts[k]
      BY <1>2, Zenon
    <3> HIDE DEF us
    <3> QED BY <2>1, <3>1, Zenon
  <2> QED BY <1>2, <2>2, <2>3, Zenon DEF AllPlain
<1>4. [k \in 1..Len(<<t>> \o ts) |-> TermPart[(<<t>> \o ts)[k]]] =
         [k \in 1..Len(<<t>>) |-> TermPart[<<t>>[k]]] \o [k \in 1..Len(ts) |-> TermPart[ts[k]]]
  BY <1>1, PartsOfConcat
<1>5. TermsOfAll(<<t>> \o ts) = TermsOfAll(<<t>>) \o TermsOfAll(ts)
  <2>1. /\ [k \in 1..Len(<<t>>) |-> TermPart[<<t>>[k]]] \in Seq(Seq(AllWords))
        /\ [k \in 1..Len(ts) |-> TermPart[ts[k]]] \in Seq(Seq(AllWords))
    BY <1>1, TermParts, Zenon
  <2>2. FlattenSeq([k \in 1..Len(<<t>>) |-> TermPart[<<t>>[k]]] \o [k \in 1..Len(ts) |-> TermPart[ts[k]]]) =
           FlattenSeq([k \in 1..Len(<<t>>) |-> TermPart[<<t>>[k]]])
              \o FlattenSeq([k \in 1..Len(ts) |-> TermPart[ts[k]]])
    BY <2>1, FlattenConcat, Zenon
  <2>3. /\ TermsOfAll(<<t>> \o ts) = FlattenSeq([k \in 1..Len(<<t>> \o ts) |-> TermPart[(<<t>> \o ts)[k]]])
        /\ TermsOfAll(<<t>>) = FlattenSeq([k \in 1..Len(<<t>>) |-> TermPart[<<t>>[k]]])
        /\ TermsOfAll(ts) = FlattenSeq([k \in 1..Len(ts) |-> TermPart[ts[k]]])
    BY <1>1, TermParts, Zenon
  <2> QED BY <1>4, <2>2, <2>3, Zenon
<1>6. TermsOfAll(<<t>>) = TermsOf(t)
  <2>1. [k \in 1..Len(<<t>>) |-> TermsOf(<<t>>[k])] = <<TermsOf(t)>>
    OBVIOUS
  <2>2. TermsOf(t) \in Seq(AllWords)
    BY Zenon DEF WordTokens
  <2> QED BY <2>1, <2>2, FlattenOne, Zenon DEF TermsOfAll
<1> QED
  BY <1>1, <1>3, <1>5, <1>6, Zenon

\* The terms of the tokens of a piece of the text are the terms of its words.
SameTerms(p, ts) ==
    /\ ts \in Seq(WordTokens)
    /\ AllPlain(ts) => TermsOfAll(ts) = normalize_all(tokenize(p, Len(text)))

LEMMA WordTokenIs ==
    ASSUME TextOK, NEW type \in TokenTypes, NEW from \in Nat, NEW to \in Nat,
           type = "PHRASE" => from + 1 \in Firsts /\ to - 1 \in Lasts,
           type = "TERM" => from \in 1..Len(text) /\ to \in from..Len(text)
    PROVE  /\ Token(type, from, to) \in WordTokens
           /\ Token(type, from, to).type = type
           /\ type = "TERM" => TermsOf(Token(type, from, to)) = <<normalize(SubSeq(text, from, to))>>
           /\ type = "PHRASE" => TermsOf(Token(type, from, to)) =
                                    normalize_all(tokenize(from + 1, to - 1))
<1> DEFINE t == Token(type, from, to)
<1>1. t \in Tokens /\ t.type = type /\ t.from = from /\ t.to = to
  BY DEF Token, Tokens
<1> HIDE DEF t
<1>2. CASE type = "TERM"
  <2>1. TermsOf(t) = <<normalize(SubSeq(text, from, to))>>
    BY <1>1, <1>2, Zenon DEF TermsOf
  <2>2. SubSeq(text, from, to) \in AllWords
    <3>1. text \in Seq(AllChunks) /\ from \in 1..Len(text) /\ to \in from..Len(text)
      BY <1>2 DEF TextOK
    <3> QED BY <3>1 DEF AllWords
  <2>3. normalize(SubSeq(text, from, to)) \in AllWords
    BY <2>2, NormalIsWord, Zenon
  <2>4. TermsOf(t) \in Seq(AllWords)
    BY <2>1, <2>3
  <2>5. type # "PHRASE"
    BY <1>2
  <2> QED BY <1>1, <2>1, <2>4, <2>5, Zenon DEF WordTokens, t
<1>3. CASE type = "PHRASE"
  <2>1. type # "TERM"
    BY <1>3
  <2>2. TermsOf(t) = normalize_all(tokenize(from + 1, to - 1))
    BY <1>1, <1>3, <2>1, Zenon DEF TermsOf
  <2>3. tokenize(from + 1, to - 1) \in Seq(AllWords)
    BY <1>3, WordsAreWords, Zenon DEF AllWords
  <2>4. TermsOf(t) \in Seq(AllWords)
    BY <2>2, <2>3, NormalParts, Zenon
  <2> QED BY <1>1, <2>1, <2>2, <2>4, Zenon DEF WordTokens, t
<1>4. CASE type \notin {"TERM", "PHRASE"}
  <2>1. TermsOf(t) = << >>
    BY <1>1, <1>4, Zenon DEF TermsOf
  <2>2. TermsOf(t) \in Seq(AllWords)
    BY <2>1
  <2> QED BY <1>1, <1>4, <2>2, Zenon DEF WordTokens, t
<1> QED
  BY <1>2, <1>3, <1>4, Zenon

LEMMA QueriesAgree ==
    ASSUME TextOK
    PROVE  \A p \in Firsts : SameTerms(p, lex[p])
<1> DEFINE N == Len(text)
           T == {p \in Firsts : ~SameTerms(p, lex[p])}
<1> SUFFICES ASSUME T # {} PROVE FALSE
  BY Zenon
<1>1. PICK p \in T : \A q \in Firsts : q > p => q \notin T
  BY FromTheEnd
<1>2. p \in Firsts /\ ~SameTerms(p, lex[p])
  BY <1>1, Zenon
<1>3. \A q \in Firsts : q > p => SameTerms(q, lex[q])
  BY <1>1, Zenon
<1> HIDE DEF T
<1>4. N \in Nat /\ p \in Nat /\ p >= 1 /\ p <= N + 1 /\ N \in Lasts
  BY <1>2, TextLen DEF Firsts, Lasts
<1>5. lex[p] = LexFrom(lex, p)
  <2>1. p \in 1..Len(text) + 2
    BY <1>4
  <2> QED BY <2>1, LexObeys
<1>6. CASE p > N
  <2>1. lex[p] = << >>
    BY <1>5, <1>6, Zenon DEF LexFrom
  <2>2. tokenize(p, N) = << >>
    BY <1>2, <1>4, <1>6, WordsAre, Zenon
  <2>3. TermsOfAll(<< >>) = << >>
    <3>1. [k \in 1..Len(<< >>) |-> TermsOf(<< >>[k])] = << >>
      OBVIOUS
    <3> QED BY <3>1, FlattenEmpty, Zenon DEF TermsOfAll
  <2>4. << >> \in Seq(WordTokens)
    OBVIOUS
  <2> QED BY <1>2, <2>1, <2>2, <2>3, <2>4, NormalizeNone, Zenon DEF SameTerms
<1>7. CASE p \in 1..N
  <2>1. p + 1 \in Firsts /\ p + 1 > p /\ p <= N
    BY <1>4, <1>7 DEF Firsts
  <2>2. SameTerms(p + 1, lex[p + 1])
    BY <1>3, <2>1, Zenon
  <2>3. CASE text[p] \in {"(", ")"}
    <3> DEFINE t == Token(text[p], p, p)
    <3>1. text[p] \in TokenTypes /\ text[p] \notin {"TERM", "PHRASE"}
      BY <2>3 DEF TokenTypes
    <3>2. t \in WordTokens /\ t.type = text[p]
      BY <1>4, <3>1, WordTokenIs, Zenon
    <3>3. lex[p] = <<t>> \o lex[p + 1]
      BY <1>5, <1>7, <2>3, LexFromCases, Zenon
    <3> HIDE DEF t
    <3>4. ~PlainToken(t)
      BY <3>1, <3>2, Zenon DEF PlainToken
    <3>5. lex[p + 1] \in Seq(WordTokens)
      BY <2>2, Zenon DEF SameTerms
    <3>6. <<t>> \o lex[p + 1] \in Seq(WordTokens) /\ ~AllPlain(<<t>> \o lex[p + 1])
      BY <3>2, <3>4, <3>5, TermsOfPrepended, Zenon
    <3> QED BY <1>2, <3>3, <3>6, Zenon DEF SameTerms
  <2>4. CASE text[p] = "quote"
    <3> DEFINE close == NextIn({"quote"}, p + 1)
               t     == Token("PHRASE", p, close)
    <3>1. close \in p + 1..N + 1 /\ (close <= N => text[close] = "quote")
      BY <1>7, PhraseEnds
    <3>2. lex[p] = IF close > N THEN <<Unterminated>> ELSE <<t>> \o lex[close + 1]
      BY <1>5, <1>7, <2>4, LexFromCases, Zenon
    <3> HIDE DEF close
    <3>3. CASE close > N
      <4>1. Unterminated \in WordTokens /\ Unterminated.type = "ERROR"
        <5>1. "ERROR" \in TokenTypes /\ 0 \in Nat /\ "ERROR" # "PHRASE" /\ "ERROR" # "TERM"
          BY DEF TokenTypes
        <5> QED BY <5>1, WordTokenIs, Zenon DEF Unterminated
      <4>2. ~PlainToken(Unterminated)
        BY <4>1 DEF PlainToken
      <4>3. <<Unterminated>> \in Seq(WordTokens) /\ ~AllPlain(<<Unterminated>>)
        <5>1. /\ <<Unterminated>> \in Seq(WordTokens) /\ 1 \in 1..Len(<<Unterminated>>)
              /\ <<Unterminated>>[1] = Unterminated
          BY <4>1
        <5> QED BY <4>2, <5>1, Zenon DEF AllPlain
      <4> QED BY <1>2, <3>2, <3>3, <4>3, Zenon DEF SameTerms
    <3>4. CASE ~(close > N)
      <4>1. /\ close \in 1..N /\ close + 1 \in Firsts /\ close + 1 > p /\ p + 1 <= close
            /\ close - 1 \in Lasts /\ close \in Nat
        BY <1>4, <3>1, <3>4 DEF Firsts, Lasts
      <4>2. ~is_word_byte(text[p]) /\ ~is_word_byte(text[close])
        <5>1. text[close] = "quote"
          BY <3>1, <4>1
        <5> QED BY <2>4, <5>1 DEF is_word_byte, WordChunks
      <4>3. t \in WordTokens /\ TermsOf(t) = normalize_all(tokenize(p + 1, close - 1))
        <5>1. "PHRASE" \in TokenTypes /\ "PHRASE" # "TERM"
          BY DEF TokenTypes
        <5> QED BY <1>4, <2>1, <4>1, <5>1, WordTokenIs, Zenon
      <4> HIDE DEF t
      <4>4. tokenize(p, N) = tokenize(p + 1, N)
        BY <1>2, <1>4, <2>1, <4>2, WordsAre, Zenon
      <4>5. tokenize(p + 1, N) = tokenize(p + 1, close - 1) \o tokenize(close + 1, N)
        BY <2>1, <4>1, <4>2, WordsSplit, Zenon
      <4>6. normalize_all(tokenize(p, N)) = TermsOf(t) \o normalize_all(tokenize(close + 1, N))
        <5>1. /\ tokenize(p + 1, close - 1) \in Seq(AllWords)
              /\ tokenize(close + 1, N) \in Seq(AllWords)
          BY <1>4, <2>1, <4>1, WordsAreWords, Zenon DEF AllWords
        <5> QED BY <4>3, <4>4, <4>5, <5>1, NormalizeConcat, Zenon
      <4>7. SameTerms(close + 1, lex[close + 1])
        BY <1>3, <4>1, Zenon
      <4>8. /\ <<t>> \o lex[close + 1] \in Seq(WordTokens)
            /\ AllPlain(<<t>> \o lex[close + 1]) => AllPlain(lex[close + 1])
            /\ TermsOfAll(<<t>> \o lex[close + 1]) = TermsOf(t) \o TermsOfAll(lex[close + 1])
        BY <4>3, <4>7, TermsOfPrepended, Zenon DEF SameTerms
      <4>9. lex[p] = <<t>> \o lex[close + 1]
        BY <3>2, <3>4, Zenon
      <4> QED BY <1>2, <4>6, <4>7, <4>8, <4>9, Zenon DEF SameTerms
    <3> QED BY <3>3, <3>4
  <2>5. CASE is_word_byte(text[p])
    <3> DEFINE next == NextIn(EndsWord, p)
               w    == SubSeq(text, p, next - 1)
               t    == Token(KeywordOrTerm(w), p, next - 1)
    <3>1. next \in p + 1..N + 1
      BY <1>7, <2>5, WordEnds
    <3>2. next # N + 1 => text[next] \in EndsWord
      <4>1. p \in 1..Len(text) + 1
        BY <1>4
      <4> QED BY <4>1, NextInFinds, Zenon
    <3>3. lex[p] = <<t>> \o lex[next]
      BY <1>5, <1>7, <2>5, LexFromCases, Zenon
    <3> HIDE DEF next
    <3>4. next - 1 \in Nat /\ next - 1 \in p..N /\ next \in Firsts /\ next > p
      BY <1>4, <1>7, <3>1 DEF Firsts
    <3>5. KeywordOrTerm(w) \in {"AND", "OR", "NOT", "TERM"} /\ KeywordOrTerm(w) \in TokenTypes
          /\ KeywordOrTerm(w) # "PHRASE"
      <4>1. KeywordOrTerm(w) \in {"AND", "OR", "NOT", "TERM"}
        BY Zenon DEF KeywordOrTerm
      <4> HIDE DEF w
      <4> QED BY <4>1 DEF TokenTypes
    <3>6. /\ t \in WordTokens /\ t.type = KeywordOrTerm(w)
          /\ KeywordOrTerm(w) = "TERM" => TermsOf(t) = <<normalize(w)>>
      BY <1>4, <1>7, <3>4, <3>5, WordTokenIs, Zenon
    <3>7. t.from = p /\ t.to = next - 1
      BY DEF Token
    <3> HIDE DEF t
    <3>8. SameTerms(next, lex[next])
      BY <1>3, <3>4, Zenon
    <3>9. /\ <<t>> \o lex[next] \in Seq(WordTokens)
          /\ AllPlain(<<t>> \o lex[next]) => PlainToken(t) /\ AllPlain(lex[next])
          /\ TermsOfAll(<<t>> \o lex[next]) = TermsOf(t) \o TermsOfAll(lex[next])
      BY <3>6, <3>8, TermsOfPrepended, Zenon DEF SameTerms
    <3>10. ASSUME PlainToken(t)
           PROVE  normalize_all(tokenize(p, N)) = TermsOf(t) \o normalize_all(tokenize(next, N))
      <4>1. t.type = "TERM" /\ IsPlain(t)
        BY <3>5, <3>6, <3>10, Zenon DEF PlainToken
      <4>2. (\A r \in p..next - 1 : is_word_byte(text[r])) /\ normalize(w) # NoTerm
        BY <3>7, <4>1, Zenon DEF IsPlain
      <4>3. TermsOf(t) = <<normalize(w)>>
        BY <3>6, <4>1, Zenon
      <4>4. IsRunEnd(p, N, next)
        <5>1. next \in p..N + 1
          BY <1>4, <3>1
        <5>2. \A c \in EndsWord : ~is_word_byte(c)
          BY DEF EndsWord, is_word_byte, WordChunks
        <5> QED BY <3>2, <4>2, <5>1, <5>2, Zenon DEF IsRunEnd
      <4>5. RunEnd(p, N) = next
        BY <1>4, <2>1, <4>4, RunEndIs
      <4>6. Run(p, N) = w
        BY <4>5, Zenon DEF Run
      <4>7. tokenize(p, N) = <<w>> \o tokenize(next, N) /\ w \in AllWords
        <5> HIDE DEF w
        <5> QED BY <1>2, <1>4, <2>1, <2>5, <4>5, <4>6, WordsAre, Zenon DEF AllWords
      <4> HIDE DEF w
      <4>8. normalize_all(<<w>>) = <<normalize(w)>>
        BY <4>2, <4>7, NormalizeOne, Zenon
      <4>9. <<w>> \in Seq(AllWords) /\ tokenize(next, N) \in Seq(AllWords)
        <5>1. <<w>> \in Seq(AllWords)
          BY <4>7
        <5> QED BY <1>4, <3>4, <5>1, WordsAreWords, Zenon DEF AllWords
      <4>10. normalize_all(<<w>> \o tokenize(next, N)) =
                normalize_all(<<w>>) \o normalize_all(tokenize(next, N))
        BY <4>9, NormalizeConcat, Zenon
      <4> QED BY <4>3, <4>7, <4>8, <4>10, Zenon
    <3> QED BY <1>2, <3>3, <3>8, <3>9, <3>10, Zenon DEF SameTerms
  <2>6. CASE IsSkipped(text[p])
    <3>1. lex[p] = lex[p + 1]
      BY <1>5, <1>7, <2>6, LexFromCases, Zenon
    <3>2. tokenize(p, N) = tokenize(p + 1, N)
      <4>1. ~is_word_byte(text[p])
        BY <2>6, Zenon DEF IsSkipped
      <4> QED BY <1>2, <1>4, <2>1, <4>1, WordsAre, Zenon
    <3> QED BY <1>2, <2>2, <3>1, <3>2, Zenon DEF SameTerms
  <2> QED BY <1>7, <2>3, <2>4, <2>5, <2>6, LexFromCases
<1> QED
  BY <1>4, <1>6, <1>7

LEMMA WordsShareVocabulary == TextOK => PlainWordsShareVocabulary
<1> SUFFICES ASSUME TextOK, OnlyWords,
                    \A k \in 1..Len(Lexed) : Lexed[k].type = "TERM" => IsPlain(Lexed[k])
             PROVE  QueryTerms = IndexTerms
  BY Zenon DEF PlainWordsShareVocabulary
<1>1. 1 \in Firsts
  BY TextLen DEF Firsts
<1>2. SameTerms(1, Lexed)
  BY <1>1, QueriesAgree, Zenon DEF Lexed
<1>3. AllPlain(Lexed)
  BY Zenon DEF AllPlain, PlainToken, OnlyWords
<1> QED
  BY <1>2, <1>3, Zenon DEF SameTerms, TermsOfAll, QueryTerms, IndexTerms

-----------------------------------------------------------------------------
(* The front end.                                                          *)

FrontEndOK == TextOK /\ TokensOK

LEMMA LexingGivesKinds == TextOK => LexedKinds \in Seq(Kinds \cup {"ERROR"})
<1> SUFFICES ASSUME TextOK PROVE LexedKinds \in Seq(Kinds \cup {"ERROR"})
  OBVIOUS
<1>1. Lossless(1, Lexed)
  BY TextLen, LexIsLossless DEF Lexed
<1>2. Len(Lexed) \in Nat /\ \A k \in 1..Len(Lexed) : Lexed[k].type \in TokenTypes
  <2>1. Lexed \in Seq(Tokens)
    BY <1>1, Zenon DEF Lossless
  <2>2. Len(Lexed) \in Nat /\ \A k \in 1..Len(Lexed) : Lexed[k] \in Tokens
    BY <2>1
  <2>3. \A t \in Tokens : t.type \in TokenTypes
    BY DEF Tokens
  <2> QED BY <2>2, <2>3, Zenon
<1>3. ASSUME NEW k \in 1..Len(Lexed) PROVE KindOf(Lexed[k]) \in Kinds \cup {"ERROR"}
  <2>1. KindOf(Lexed[k]) = "BAD_PHRASE" \/ KindOf(Lexed[k]) = Lexed[k].type
    BY Zenon DEF KindOf
  <2> QED BY <1>2, <2>1 DEF TokenTypes, Kinds
<1>4. \A k \in 1..Len(Lexed) : LexedKinds[k] \in Kinds \cup {"ERROR"}
  BY <1>3 DEF LexedKinds
<1>5. LexedKinds = [k \in 1..Len(Lexed) |-> LexedKinds[k]]
  BY DEF LexedKinds
<1> QED
  BY <1>2, <1>4, <1>5

LEMMA FrontEndInvariant == FrontEndSpec => []FrontEndOK
<1>1. FrontEndInit => FrontEndOK
  BY DEF FrontEndInit, FrontEndOK, TextOK, TokensOK
<1>2. FrontEndOK /\ [FrontEndNext]_frontEndVars => FrontEndOK'
  <2> SUFFICES ASSUME FrontEndOK, [FrontEndNext]_frontEndVars PROVE FrontEndOK'
    OBVIOUS
  <2>1. CASE ReadChunk
    <3>1. TextOK'
      BY <2>1, FrontEndAssumption DEF ReadChunk, FrontEndOK, TextOK
    <3>2. TextOK' => LexedKinds' \in Seq(Kinds \cup {"ERROR"})
      <4>1. (TextOK => LexedKinds \in Seq(Kinds \cup {"ERROR"}))'
        BY LexingGivesKinds, PTL
      <4> QED BY <4>1 DEF Kinds
    <3>3. TokensOK'
      BY <2>1, <3>1, <3>2, Zenon DEF ReadChunk, TokensOK
    <3> QED BY <3>1, <3>3 DEF FrontEndOK
  <2>2. CASE ReadToken
    BY <2>2 DEF ReadToken, FrontEndOK, TextOK, TokensOK
  <2>3. CASE UNCHANGED frontEndVars
    BY <2>3 DEF frontEndVars, FrontEndOK, TextOK, TokensOK
  <2> QED BY <2>1, <2>2, <2>3 DEF FrontEndNext
<1> QED
  BY <1>1, <1>2, PTL DEF FrontEndSpec

\* In every query lex() accepts, whatever its length, every chunk that carries
\* meaning is in exactly one token, and the tokens are in the order of the text.
THEOREM LexerLosesNothing == FrontEndSpec => []NothingIsLost
<1>1. FrontEndOK => NothingIsLost
  BY LexingIsLossless DEF FrontEndOK
<1> QED
  BY <1>1, FrontEndInvariant, PTL

\* parse() accepts a sequence of tokens of any length just if the grammar of
\* parser.h derives it, and then returns its tree, the only one there is.
THEOREM ParserIsTheGrammar == FrontEndSpec => []ParserFollowsGrammar
<1>1. FrontEndOK => ParserFollowsGrammar
  BY ParserIsRight DEF FrontEndOK
<1> QED
  BY <1>1, FrontEndInvariant, PTL

\* For queries of any length and shape: a document is scored by the leaves that can
\* win it the match, and by no leaf that can lose it the match.
THEOREM ScoringFollowsPolarity == FrontEndSpec => []ScoredLeavesHelp
<1>1. FrontEndOK => ScoredLeavesHelp
  BY ScoringIsRight DEF FrontEndOK
<1> QED
  BY <1>1, FrontEndInvariant, PTL

\* A text of any length, read as a document and read as a query of words and
\* phrases, has the same terms in the same order, if its words outside quotes are
\* plain: the lexer cuts them where the tokenizer does.
THEOREM QueryAndIndexAgree == FrontEndSpec => []PlainWordsShareVocabulary
<1>1. FrontEndOK => PlainWordsShareVocabulary
  BY WordsShareVocabulary DEF FrontEndOK
<1> QED
  BY <1>1, FrontEndInvariant, PTL
=============================================================================
