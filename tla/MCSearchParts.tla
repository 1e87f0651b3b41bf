--------------------------- MODULE MCSearchParts ---------------------------
(***************************************************************************)
(* The parts of search() (src/search_engine.cpp:313-407) that share no     *)
(* data, each by itself: a query is read (QueryFrontEnd), the best         *)
(* candidates are selected (TopK), the file of a result is written and     *)
(* shown, byte by byte (Snippet), and answers are cached (LruCache).  A    *)
(* behaviour takes one of the parts; the others stay as they begin.        *)
(***************************************************************************)
EXTENDS QueryFrontEnd, TopK, Snippet, LruCache

VARIABLE part

partVars == <<part, frontEndVars, vars, snippetVars, cacheVars>>

MCLower(c) == IF c = "B" THEN "b" ELSE c

MCWordLists == {<< >>, <<<<"a">>>>, <<<<"b">>, <<"a", "b">>>>, <<<<"b", "b">>, <<"a">>>>}

\* For the other parts the limit is the default, and no words are looked for.
PartsInit == /\ part \in {"query", "selection", "excerpt", "cache"}
             /\ FrontEndInit /\ Init /\ SnippetInit /\ CacheInit
             /\ part # "selection" => top_k = DefaultTopK /\ scores = << >>
             /\ part # "excerpt" => words = << >>

ReadQuery == /\ part = "query" /\ FrontEndNext
             /\ UNCHANGED <<part, vars, snippetVars, cacheVars>>

Select == /\ part = "selection" /\ Next
          /\ UNCHANGED <<part, frontEndVars, snippetVars, cacheVars>>

Show == /\ part = "excerpt" /\ Write
        /\ UNCHANGED <<part, frontEndVars, vars, cacheVars>>

UseCache == /\ part = "cache" /\ CacheNext
            /\ UNCHANGED <<part, frontEndVars, vars, snippetVars>>

PartsNext == ReadQuery \/ Select \/ Show \/ UseCache

PartsSpec == PartsInit /\ [][PartsNext]_partVars
=============================================================================
