-------------------------- MODULE MCAdapterEndpoint --------------------------
(***************************************************************************)
(* AdapterEndpoint for TLC: one caller may send anything, the second one   *)
(* of two ordinary posts, and the third only asks for the results.         *)
(***************************************************************************)
EXTENDS AdapterEndpoint

CONSTANTS Anyone, Poster, Reader

MCCallers == {Anyone, Poster, Reader}

Piece(kind, size) == [kind |-> kind, size |-> size]
Plain == Piece("plain", 1)
Order == Piece("injection", 1)
Key == Piece("api_key", 2)
Token == Piece("fake_cortex_token", 3)

\* Texts without two secrets of one kind, and one with.
LoneTexts == {<<Plain>>, <<Plain, Order>>, <<Key, Plain>>, <<Token, Plain, Key>>,
              <<Order, Token>>}
Texts == LoneTexts \union {<<Token, Plain, Token, Plain>>}

Payload(form, event) == [form |-> form, event |-> event]
PlainPost(source) ==
    Payload("good", CHOOSE e \in Events({<<Plain>>}) :
                        e.source = source /\ e.consent = "active" /\ ~e.raw /\ ~e.derived)

WebEvents == {e \in Events(Texts) : e.source \in WebSources}

\* macOS events have a plain text or one with a secret.
MacEvents == {e \in Events({<<Plain>>, <<Key, Plain>>}) :
                 e.source \in MacSources /\ e.derived}

AnyPost ==
    {Payload("good", e) : e \in WebEvents}
    \union {Payload(form, PlainPost("browser").event) : form \in Forms \ {"local"}}
OrdinaryPosts == {PlainPost("browser"), PlainPost("terminal")}
LocalEvents == WebEvents \union MacEvents

MCPosts == [c \in MCCallers |-> CASE c = Anyone -> AnyPost
                                  [] c = Poster -> OrdinaryPosts
                                  [] c = Reader -> {}]
MCLocals == [c \in MCCallers |-> IF c = Anyone THEN LocalEvents ELSE {}]
=============================================================================
