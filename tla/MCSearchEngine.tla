--------------------------- MODULE MCSearchEngine ---------------------------
(* SearchEngine on a corpus of two files and two words, in two directories *)
(* one of which holds only the first file.                                 *)
EXTENDS SearchEngine

MCFilesUnder(d) == IF d = "notes" THEN Path ELSE {"a.md"}
MCHashPath(p)   == IF p = "a.md" THEN "id-a" ELSE "id-b"
MCStableId      == {MCHashPath(p) : p \in Path}

\* A file is as good as the one word it is found by.
MCFinds(q, x) == q = x
=============================================================================
