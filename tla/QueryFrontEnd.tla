--------------------------- MODULE QueryFrontEnd ---------------------------
(***************************************************************************)
(* Lexer, parser and normalizer together: from the text of a query to its  *)
(* tree and its terms.  Every short text goes through the lexer and its    *)
(* tokens through the parser; sequences of tokens longer than short texts  *)
(* have are given to the parser directly.                                  *)
(***************************************************************************)
EXTENDS QueryText, QueryScoring

CONSTANTS Chunks,     \* the chunks texts are made of
          MaxChunks,  \* bound: chunks of a text
          MaxTokens   \* bound: tokens given directly

ASSUME FrontEndAssumption == Chunks \subseteq AllChunks /\ MaxChunks \in Nat /\ MaxTokens \in Nat

frontEndVars == <<text, tokens>>

\* What the parser sees of a token.  lex() throws on ERROR, parse_primary() on BAD_PHRASE.
KindOf(token) == CASE token.type = "PHRASE" /\ TermsOf(token) = << >> -> "BAD_PHRASE"
                   [] OTHER -> token.type

LexedKinds == [k \in 1..Len(Lexed) |-> KindOf(Lexed[k])]

FrontEndInit == text = << >> /\ tokens = << >>

\* The next chunk of a text, which is lexed anew.
ReadChunk == /\ Len(text) < MaxChunks
             /\ tokens = LexedKinds
             /\ \E c \in Chunks : text' = Append(text, c)
             /\ tokens' = LexedKinds'

ReadToken == /\ Len(tokens) < MaxTokens
             /\ text = << >>
             /\ \E kind \in Kinds : tokens' = Append(tokens, kind)
             /\ UNCHANGED text

FrontEndNext == ReadChunk \/ ReadToken

FrontEndSpec == FrontEndInit /\ [][FrontEndNext]_frontEndVars

=============================================================================
