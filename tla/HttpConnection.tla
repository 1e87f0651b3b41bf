--------------------------- MODULE HttpConnection ---------------------------
(***************************************************************************)
(* One connection of the HTTP server, from the first byte to the answer:   *)
(* handle_connection() and dispatch() (src/http_server.cpp) with the       *)
(* handlers of run_serve() (src/main.cpp).  What the client sends arrives  *)
(* in pieces of any size; the client may go away at any time.              *)
(*                                                                         *)
(* On the wire a line of the head is one item, and so is a line break and a*)
(* character of the body.  Connections share only the engine (see Server). *)
(***************************************************************************)
EXTENDS HttpTarget, JsonText

CONSTANTS Requests,     \* what clients send; see IsRequest
          Piece,        \* the most items one recv() returns
          HeaderGuard,  \* items of a head without an end (1 MB)
          Documents     \* the ids get_document() knows

NotANumber == -1  \* a Content-Length std::stoul cannot read

Call(op, text) == [op |-> op, text |-> text]
None           == Call("none", << >>)

\* How a client writes a character into a target: as it is, unless it has a meaning
\* there, a space as "+", and any character as "%" and the two digits of its code.
Special == {"%", "&", "+", "=", "?", Space, "\n", Control}
Forms   == [c \in Coded |->
               (IF c \in Special THEN {} ELSE {<<c>>})
               \cup (IF c = Space THEN {<<"+">>} ELSE {})
               \cup {<<"%", d[1], d[2]>> :
                       d \in {e \in HexDigits \X HexDigits : 16 * HexDigit[e[1]] + HexDigit[e[2]] = Code[c]}}]

Encodings(text) ==
    {FlattenSeq(f) : f \in {g \in [1..Len(text) -> UNION {Forms[text[k]] : k \in 1..Len(text)}] :
                              \A k \in 1..Len(text) : g[k] \in Forms[text[k]]}}

\* A search has its text as the parameter q, between i and j: no parameter behind it has
\* that name, and none is escaped.
AsksForSearch(target, text) ==
    /\ text # << >>
    /\ SubSeq(target, 1, 2) = <<"/search", "?">>
    /\ \E i \in 2..Len(target) - 2, j \in 2..Len(target) :
          /\ SubSeq(target, i + 1, i + 2) = <<"q", "=">>
          /\ SubSeq(target, i + 3, j) \in Encodings(text)
          /\ i = 2 \/ target[i] = "&"
          /\ j = Len(target) \/ target[j + 1] = "&"
          /\ \A p \in 3..i : target[p] # "%"
          /\ \A p \in j + 1..Len(target) : target[p] \notin {"%", "q"}

AsksForDocument(target, id) ==
    id # << >> /\ target # << >> /\ target[1] = "/documents/" /\ Tail(target) \in Encodings(id)

\* JSON allows control characters as escapes only, which the code's reader does not know.
AsksForIndex(target, json, path) ==
    target = <<"/index">> /\ json = Field("path", path) /\ Control \notin ToSet(path)

\* `asked` is what the client means, if the request says so; else None.
Means(r, asked) ==
    \/ asked.op = "none"
    \/ asked.op = "search" /\ r.method = "GET" /\ AsksForSearch(r.target, asked.text)
    \/ asked.op = "get" /\ r.method = "GET" /\ AsksForDocument(r.target, asked.text)
    \/ asked.op = "index" /\ r.method = "POST" /\ AsksForIndex(r.target, r.body, asked.text)
    \/ asked = Call("read", << >>) /\ r.method = "GET" /\ r.target \in {<<"/health">>, <<"/stats">>}

IsRequest(r) == /\ r.target \in Seq(STRING) /\ r.body \in Seq(STRING)
                /\ r.lengths \in Seq(Nat \cup {NotANumber}) /\ r.others \in Nat
                /\ r.asked = Call(r.asked.op, r.asked.text) /\ r.asked.text \in Seq(Coded)
                /\ Means(r, r.asked)

ASSUME ConnectionAssumption == /\ \A r \in Requests : IsRequest(r)
                               /\ Piece \in Nat \ {0} /\ HeaderGuard \in Nat

VARIABLES request,   \* what the client sends
          received,  \* how much of it recv() has returned
          closed,    \* the client has closed its end: nothing more comes
          phase,     \* where the thread is
          expected,  \* content_length
          body,      \* the body so far
          called,    \* the call of the engine that the request led to
          answer     \* the response

vars == <<request, received, closed, phase, expected, body, called, answer>>

Break == "CRLF"

\* Request line, header lines, an empty line, the body.
Lines(r) == 1 + Len(r.lengths) + r.others
HeadOf(r)  == [k \in 1..2 * Lines(r) |-> IF k % 2 = 1 THEN "line" ELSE Break]
WireOf   == [r \in Requests |-> HeadOf(r) \o <<Break>> \o r.body]
Wire   == WireOf[request]

Buffer == SubSeq(Wire, 1, received)

\* Where the empty line begins.
EmptyLine(b) == {p \in 1..Len(b) - 1 : b[p] = Break /\ b[p + 1] = Break}

-----------------------------------------------------------------------------

Init == /\ request \in Requests
        /\ received = 0 /\ closed = FALSE
        /\ phase = "head"
        /\ expected = 0 /\ body = << >>
        /\ called = None
        /\ answer = [status |-> 0, text |-> << >>]

\* The client goes away; what it sent before has been received.
Close == /\ ~closed /\ phase # "done"
         /\ closed' = TRUE
         /\ UNCHANGED <<request, received, phase, expected, body, called, answer>>

Arrive(n) == ~closed /\ received + n <= Len(Wire) /\ received' = received + n

Arriving(n) == SubSeq(Wire, received + 1, received + n)

AfterHead(searched, size) == IF EmptyLine(searched) # {} THEN "parse"
                             ELSE IF size > HeaderGuard THEN "done" ELSE "head"

\* Mutant: the end is looked for in the last piece alone.
ReceiveHeadPiecewise ==
    /\ phase = "head"
    /\ \E n \in 1..Piece : Arrive(n) /\ phase' = AfterHead(Arriving(n), received + n)
    /\ UNCHANGED <<request, closed, expected, body, called, answer>>

\* The first loop; a head without an end is dropped.
ReceiveHead ==
    /\ phase = "head"
    /\ \E n \in 1..Piece : Arrive(n) /\ phase' = AfterHead(Buffer \o Arriving(n), received + n)
    /\ UNCHANGED <<request, closed, expected, body, called, answer>>

HeadEnds == /\ phase = "head" /\ closed
            /\ phase' = "done"
            /\ UNCHANGED <<request, received, closed, expected, body, called, answer>>

\* The last Content-Length counts; what came after the head begins the body.
ParseHead == /\ phase = "parse"
             /\ NotANumber \notin ToSet(request.lengths)
             /\ expected' = IF request.lengths = << >> THEN 0 ELSE Last(request.lengths)
             /\ body' = SubSeq(Buffer, Min(EmptyLine(Buffer)) + 2, received)
             /\ phase' = "body"
             /\ UNCHANGED <<request, received, closed, called, answer>>

\* An exception outside the try block leaves the thread and ends the process.
Aborts == phase' = "aborted" /\ UNCHANGED <<request, received, closed, expected, body, called, answer>>

ParseThrows == phase = "parse" /\ NotANumber \in ToSet(request.lengths) /\ Aborts

ReceiveBody ==
    /\ phase = "body" /\ Len(body) < expected
    /\ \E n \in 1..Piece : Arrive(n) /\ body' = body \o Arriving(n)
    /\ UNCHANGED <<request, closed, phase, expected, called, answer>>

BodyRead == phase = "body" /\ (Len(body) >= expected \/ closed)

BadTarget == {r \in Requests : TargetThrows(r.target)}
TargetOf  == [r \in Requests \ BadTarget |-> parse_target(r.target)]
Target    == TargetOf[request]

TargetAborts == BodyRead /\ request \in BadTarget /\ Aborts

-----------------------------------------------------------------------------
(* dispatch() and the handlers.                                            *)

Route    == <<request.method, Target.path>>
Param(p) == IF <<p>> \in DOMAIN Target.query THEN Target.query[<<p>>] ELSE << >>

DocumentsPrefix == "/documents/"
IsDocument == request.method = "GET" /\ Len(Target.path) > 1 /\ Target.path[1] = DocumentsPrefix

Respond(call, status, text) == /\ called' = call
                               /\ answer' = [status |-> status, text |-> text]

SearchHandler ==
    /\ Route = <<"GET", <<"/search">>>>
    /\ IF Param("q") = << >> THEN Respond(None, 400, Field("error", <<"missing q">>))
       ELSE \/ Respond(Call("search", Param("q")), 200, Field("query", Param("q")))
            \/ Respond(Call("search", Param("q")), 400, Field("error", <<"invalid query">>))

\* The last disjunct is a scan that throws; dispatch() is inside the try block.
IndexHandler ==
    LET path == extract_string_field(body, "path")
    IN  /\ Route = <<"POST", <<"/index">>>>
        /\ IF ~path.found THEN Respond(None, 400, Field("error", <<"missing path">>))
           ELSE \/ Respond(Call("index", path.text), 200, <<"report">>)
                \/ Respond(Call("index", path.text), 500, <<"what">>)

\* /health and /stats.
ReadHandler == /\ Route \in {<<"GET", <<"/health">>>>, <<"GET", <<"/stats">>>>}
               /\ Respond(Call("read", << >>), 200, <<"numbers">>)

DocumentHandler ==
    LET id == Tail(Target.path)
    IN  /\ IsDocument
        /\ IF id \in Documents THEN Respond(Call("get", id), 200, Field("id", id))
           ELSE Respond(Call("get", id), 404, Field("error", <<"document not found">>))

NotFound == /\ Route \notin {<<"GET", <<r>>>> : r \in {"/search", "/health", "/stats"}}
            /\ Route # <<"POST", <<"/index">>>>
            /\ ~IsDocument
            /\ Respond(None, 404, Field("error", <<"not found">>))

Dispatch == /\ BodyRead /\ request \notin BadTarget
            /\ \/ SearchHandler \/ IndexHandler \/ ReadHandler \/ DocumentHandler \/ NotFound
            /\ phase' = "send"
            /\ UNCHANGED <<request, received, closed, expected, body>>

Send == /\ phase = "send"
        /\ phase' = "done"
        /\ UNCHANGED <<request, received, closed, expected, body, called, answer>>

\* The client has reset the connection: SIGPIPE.
SendKills == phase = "send" /\ closed /\ Aborts

Serve == \/ ReceiveHead \/ HeadEnds \/ ParseHead \/ ParseThrows \/ ReceiveBody
         \/ TargetAborts \/ Dispatch \/ Send \/ SendKills

Next == Serve \/ Close

Spec == Init /\ [][Next]_vars

\* The thread is scheduled, and what a client has sent arrives; clients that
\* go away need not.
FairSpec == Spec /\ WF_vars(Serve)

-----------------------------------------------------------------------------

\* A request in order: its head fits, and its body is as long as it says.
InOrder == /\ request.asked.op # "none"
           /\ Len(Wire) - Len(request.body) <= HeaderGuard
           /\ Len(request.body) = IF request.lengths = << >> THEN 0 ELSE Last(request.lengths)

Whole == received = Len(Wire)

(* However a request is cut into pieces, the engine is called with what    *)
(* the client meant, or not at all: the end of the head is found across    *)
(* pieces, the body is complete, and percent decoding, parameters and the  *)
(* JSON field give back the text the client put in.  The one exception is  *)
(* a client that closes before it has sent the body: the code takes what   *)
(* there is for the request.                                               *)
EngineGetsWhatClientMeant ==
    (phase = "send" /\ InOrder /\ (Whole \/ ~closed)) => called = request.asked

(* A client that reads the answer as JSON finds the query or the id it     *)
(* sent: "escape()/quote() are enough to safely emit any string as JSON"   *)
(* (json_util.h:14).                                                       *)
AnswersReadBack ==
    (phase = "send" /\ InOrder /\ Whole /\ answer.status = 200
                    /\ called.op \in {"search", "get"}) =>
        LET value == {p \in 1..Len(answer.text) : answer.text[p] = ":"}
        IN  ReadString(answer.text, Min(value) + 2) = [found |-> TRUE, text |-> request.asked.text]

(* A client that sends a request in order and waits gets its answer,       *)
(* whatever the pieces: recv() is not called once more than there is       *)
(* something to receive, where it would wait for ever.                     *)
RequestsAreAnswered ==
    InOrder ~> (closed \/ (phase = "done" /\ answer.status # 0))
=============================================================================
