------------------------------ MODULE TextScan ------------------------------
(***************************************************************************)
(* How the HTTP server and the JSON reader go through a text: a text is a  *)
(* sequence of characters, each a string, with positions from 1.           *)
(***************************************************************************)
EXTENDS Naturals, Sequences

Space   == "space"
Quote   == "quote"
Control == "control"  \* any control character that has no short escape in JSON

\* std::string::find of one character from a position on; the position behind the
\* text stands for npos.
Find(s, c, from) == CHOOSE p \in from..Len(s) + 1 :
                       /\ p = Len(s) + 1 \/ s[p] = c
                       /\ \A q \in from..p - 1 : s[q] # c

\* The positions a loop visits from `first` on, and the one it stops at: it goes on from
\* a position p of DOMAIN next to next[p].
Visited(next, first) ==
    LET from[p \in Nat] == IF p \in DOMAIN next THEN <<p>> \o from[next[p]] ELSE <<p>>
    IN  from[first]
=============================================================================
