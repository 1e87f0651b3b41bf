------------------------------ MODULE JsonText ------------------------------
(***************************************************************************)
(* The JSON writer and reader of src/include/tinysearch/json_util.h, and,  *)
(* to judge them by, what a JSON string means.                             *)
(***************************************************************************)
EXTENDS TextScan, SequencesExt

Backslash  == "\\"
OpenBrace  == "{"
CloseBrace == "}"

\* "\u0001" is two characters here.  Mutant: the backslash is written as it is.
EscapeQuotesOnly(c) == IF c = Quote THEN <<Backslash, c>>
                       ELSE IF c = "\n" THEN <<Backslash, "n">>
                       ELSE IF c = Control THEN <<Backslash, "u0001">>
                       ELSE <<c>>

EscapeOf(c) == IF c \in {Quote, Backslash} THEN <<Backslash, c>>
               ELSE IF c = "\n" THEN <<Backslash, "n">>
               ELSE IF c = Control THEN <<Backslash, "u0001">>
               ELSE <<c>>

escape(s) == FlattenSeq([k \in 1..Len(s) |-> EscapeOf(s[k])])

quote(s) == <<Quote>> \o escape(s) \o <<Quote>>

\* A flat object of one field.
Field(key, text) == <<OpenBrace, Quote, key, Quote, ":">> \o quote(text) \o <<CloseBrace>>

-----------------------------------------------------------------------------

Missing == [found |-> FALSE, text |-> << >>]

\* The positions of the characters of the string that begins at `start`, and where it
\* ends: at a quote, or behind the text.  A backslash takes one character with it.
IsEscape(s, p) == s[p] = Backslash /\ p < Len(s)

CharsFrom(s, start) ==
    Visited([p \in {q \in start..Len(s) : s[q] # Quote} |-> IF IsEscape(s, p) THEN p + 2 ELSE p + 1], start)

\* What the character at p is to the code's reader.
Unescaped(s, p) == IF ~IsEscape(s, p) THEN s[p] ELSE IF s[p + 1] = "n" THEN "\n" ELSE s[p + 1]

StringAt(s, start) ==
    LET at == CharsFrom(s, start) IN [k \in 1..Len(at) - 1 |-> Unescaped(s, at[k])]

\* `"key"`, then a colon, then a quote, whatever stands between them.
extract_string_field(body, key) ==
    LET keys  == {p \in 1..Len(body) - 2 : SubSeq(body, p, p + 2) = <<Quote, key, Quote>>}
        colon == Find(body, ":", Min(keys) + 3)
        start == Find(body, Quote, colon) + 1
    IN  IF keys = {} \/ colon > Len(body) \/ start > Len(body) + 1 THEN Missing
        ELSE [found |-> TRUE, text |-> StringAt(body, start)]

-----------------------------------------------------------------------------
(* A JSON reader, as a client has one.                                     *)

Meaning == [c \in {Quote, Backslash, "n", "u0001"} |->
               IF c = "n" THEN "\n" ELSE IF c = "u0001" THEN Control ELSE c]

\* No control characters, and no unknown escapes.
IsJson(s, p) == IF s[p] = Backslash THEN IsEscape(s, p) /\ s[p + 1] \in DOMAIN Meaning
                ELSE s[p] \notin {"\n", Control}

\* The string that begins at position `start`; it has to end.
ReadString(s, start) ==
    LET at    == CharsFrom(s, start)
        chars == 1..Len(at) - 1
    IN  IF Last(at) <= Len(s) /\ \A k \in chars : IsJson(s, at[k])
        THEN [found |-> TRUE,
              text  |-> [k \in chars |-> IF IsEscape(s, at[k]) THEN Meaning[s[at[k] + 1]] ELSE s[at[k]]]]
        ELSE Missing
=============================================================================
