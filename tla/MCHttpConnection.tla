-------------------------- MODULE MCHttpConnection --------------------------
(***************************************************************************)
(* Requests as clients write them: every short text, in the forms a client *)
(* may give it, and requests that are not in order.                        *)
(***************************************************************************)
EXTENDS HttpConnection

CONSTANT MaxText  \* bound: characters of a text

MCDocuments == {<<"a">>}

Texts == UNION {[1..n -> Coded] : n \in 0..MaxText}

Get(target, asked) == [method |-> "GET", target |-> target, lengths |-> << >>, others |-> 1,
                       body |-> << >>, asked |-> asked]

Post(lengths, text, asked) == [method |-> "POST", target |-> <<"/index">>, lengths |-> lengths,
                               others |-> 0, body |-> text, asked |-> asked]

Searches == UNION {{Get(before \o e \o after, Call("search", t)) :
                       e \in Encodings(t),
                       before \in {<<"/search", "?", "q", "=">>,
                                   <<"/search", "?", "ranker", "&", "&", "q", "=">>},
                       after \in {<< >>, <<"&", "top_k", "=", "4">>}} :
                   t \in Texts \ {<< >>}}

Indexing == {Post(<<Len(Field("path", t))>>, Field("path", t), Call("index", t)) :
                t \in {u \in Texts : Control \notin ToSet(u)}}

Others == {Get(<<"/documents/", "a">>, Call("get", <<"a">>)),
           Get(<<"/documents/", "%", "3", "4">>, Call("get", <<"4">>)),
           Get(<<"/health">>, Call("read", << >>))}

\* No query, a route there is not, bad escapes, a length that is no number, one that
\* is too small or too large, a head that is too long, no field.
OutOfOrder == {Get(<<"/search">>, None), Get(<<"/documents/">>, None), Get(<<"/index">>, None),
               Get(<<"/search", "?", "q", "=", "%", "?", "a">>, None),
               Get(<<"/search", "?", "q", "=", "%", "+", "4", "%", "4", "?", "%", "4">>, None),
               Post(<<NotANumber>>, Field("path", <<"a">>), None),
               Post(<<9, 2>>, Field("path", <<"a">>), None),
               Post(<<>>, Field("path", <<"a">>), None),
               Post(<<99>>, Field("path", <<"a">>), None),
               Post(<<3>>, <<"{", "a", "}">>, None),
               [Get(<<"/health">>, None) EXCEPT !.others = 9]}

MCRequests == Searches \cup Indexing \cup Others \cup OutOfOrder
=============================================================================
