----------------------------- MODULE HttpTarget -----------------------------
(***************************************************************************)
(* The target of a request (src/http_server.cpp): percent decoding, and    *)
(* the path and parameters it is taken apart into.                         *)
(*                                                                         *)
(* A name the code only compares ("/search", "top_k") is one character.    *)
(***************************************************************************)
EXTENDS TextScan, Integers, FiniteSetsExt

HexDigits == {"0", "1", "2", "3", "4", "5", "6", "7", "8", "9",
              "A", "B", "C", "D", "E", "F", "a", "b", "c", "d", "e", "f"}

HexDigit == [d \in HexDigits |->
    CASE d = "0" -> 0 [] d = "1" -> 1 [] d = "2" -> 2 [] d = "3" -> 3 [] d = "4" -> 4
      [] d = "5" -> 5 [] d = "6" -> 6 [] d = "7" -> 7 [] d = "8" -> 8 [] d = "9" -> 9
      [] d \in {"A", "a"} -> 10 [] d \in {"B", "b"} -> 11 [] d \in {"C", "c"} -> 12
      [] d \in {"D", "d"} -> 13 [] d \in {"E", "e"} -> 14 [] d \in {"F", "f"} -> 15]

\* Characters that may need an escape, and their ASCII codes.
Coded == {Control, "\n", Space, Quote, "%", "&", "+", "=", "?", "\\", "4", "a"}
Code  == [c \in Coded |->
    CASE c = Control -> 1 [] c = "\n" -> 10 [] c = Space -> 32 [] c = Quote -> 34 [] c = "%" -> 37
      [] c = "&" -> 38 [] c = "+" -> 43 [] c = "4" -> 52 [] c = "=" -> 61 [] c = "?" -> 63
      [] c = "\\" -> 92 [] c = "a" -> 97]

\* static_cast<char>; characters without a name here are one.
Char(code) == IF \E c \in Coded : Code[c] = code
              THEN CHOOSE c \in Coded : Code[c] = code
              ELSE "other"

IsHex(c) == c \in HexDigits
Sign     == [c \in {"+", "-"} |-> IF c = "+" THEN 1 ELSE 255]

\* std::stoi(s, nullptr, 16) of two characters: it stops at the first that is
\* no digit, and throws if there is none.
StoiThrows(a, b) == ~IsHex(a) /\ ~(a \in DOMAIN Sign /\ IsHex(b))
stoi(a, b) == CASE IsHex(a) /\ IsHex(b)  -> 16 * HexDigit[a] + HexDigit[b]
                [] IsHex(a) /\ ~IsHex(b) -> HexDigit[a]
                [] ~IsHex(a)             -> (Sign[a] * HexDigit[b]) % 256

-----------------------------------------------------------------------------

\* How many characters the one at position p takes with it.  Mutant: an escape at
\* the very end of the text is not seen.
UnitNotLast(s, p) == IF s[p] = "%" /\ p + 2 < Len(s) THEN 3 ELSE 1

UnitLength(s, p) == IF s[p] = "%" /\ p + 2 <= Len(s) THEN 3 ELSE 1

\* Where the loop of url_decode finds escapes and single characters, and the end.
Units(s) == Visited([p \in 1..Len(s) |-> p + UnitLength(s, p)], 1)

Decoded(s, p) == CASE UnitLength(s, p) = 3                -> Char(stoi(s[p + 1], s[p + 2]))
                   [] UnitLength(s, p) # 3 /\ s[p] = "+" -> Space
                   [] UnitLength(s, p) # 3 /\ s[p] # "+" -> s[p]

DecodeThrows(s) ==
    LET at == Units(s)
    IN  \E k \in 1..Len(at) - 1 :
            UnitLength(s, at[k]) = 3 /\ StoiThrows(s[at[k] + 1], s[at[k] + 2])

url_decode(s) == LET at == Units(s) IN [k \in 1..Len(at) - 1 |-> Decoded(s, at[k])]

-----------------------------------------------------------------------------

\* The part of s before the first c, and the part after it.
Before(s, c) == SubSeq(s, 1, Find(s, c, 1) - 1)
After(s, c)  == SubSeq(s, Find(s, c, 1) + 1, Len(s))

\* Where the non-empty pieces between the "&" begin, and the piece that begins at p.
PairsIn(qs)   == {p \in 1..Len(qs) : (p = 1 \/ qs[p - 1] = "&") /\ qs[p] # "&"}
PairAt(qs, p) == SubSeq(qs, p, Find(qs, "&", p) - 1)

\* A pair without "=" has an empty value.
KeyAt(qs, p)   == Before(PairAt(qs, p), "=")
ValueAt(qs, p) == After(PairAt(qs, p), "=")

TargetThrows(target) ==
    LET qs == After(target, "?")
    IN  \/ DecodeThrows(Before(target, "?"))
        \/ \E p \in PairsIn(qs) : DecodeThrows(KeyAt(qs, p)) \/ DecodeThrows(ValueAt(qs, p))

\* The last of several parameters with one name counts.
parse_target(target) ==
    LET qs         == After(target, "?")
        named(key) == {p \in PairsIn(qs) : url_decode(KeyAt(qs, p)) = key}
    IN  [path  |-> url_decode(Before(target, "?")),
         query |-> [key \in {url_decode(KeyAt(qs, p)) : p \in PairsIn(qs)} |->
                       url_decode(ValueAt(qs, Max(named(key))))]]
=============================================================================
