------------------------------ MODULE Redaction ------------------------------
(***************************************************************************)
(* What the firewall's patterns find in a text, and what its redaction     *)
(* leaves of it.                                                           *)
(*                                                                         *)
(* A text is a sequence of pieces and is laid out in cells, one or more to *)
(* a piece.  A cell is a pair: the piece it belongs to and its place in    *)
(* the piece.  The placeholder takes one cell and a secret at least two:   *)
(* every pattern matches 18 characters or more, "[REDACTED_SECRET]" is 17. *)
(***************************************************************************)
EXTENDS Integers, Sequences, SequencesExt

\* SECRET_PATTERNS, in the order in which they are tried.
SecretKinds == <<"api_key", "bearer_token", "fake_cortex_token">>

SecretPieces == [kind : Range(SecretKinds), size : {2, 3}]
Pieces == SecretPieces \union [kind : {"plain", "injection"}, size : {1}]

IsSecret(piece) == piece.kind \in Range(SecretKinds)

\* detect_prompt_injection
Injected(text) == \E i \in DOMAIN text : text[i].kind = "injection"

HasSecret(text) == \E i \in DOMAIN text : IsSecret(text[i])

Placeholder == <<0, 0>>

PieceCells(text, i) == [j \in 1 .. text[i].size |-> <<i, j>>]

Cells(text) == FlattenSeq([i \in DOMAIN text |-> PieceCells(text, i)])

\* A pattern matches a piece of its kind that lies whole in the cells.
Start(cells, i) == CHOOSE p \in DOMAIN cells : cells[p] = <<i, 1>>
Whole(text, cells, i) ==
    /\ \E p \in DOMAIN cells : cells[p] = <<i, 1>>
    /\ LET end == Start(cells, i) + text[i].size - 1
       IN /\ end <= Len(cells)
          /\ SubSeq(cells, Start(cells, i), end) = PieceCells(text, i)
Matches(text, cells, kind) ==
    {i \in DOMAIN text : text[i].kind = kind /\ Whole(text, cells, i)}

\* redacted[:start] + replacement + redacted[end:]: a slice that goes past
\* the end of the string is cut short there.
Replaced(cells, start, size) ==
    SubSeq(cells, 1, IF start - 1 < Len(cells) THEN start - 1 ELSE Len(cells))
    \o <<Placeholder>>
    \o SubSeq(cells, start + size, Len(cells))

\* The inner loop of redact_sensitive_text.  The matches of a pattern are
\* all found before the first is replaced, and are replaced in their order
\* at the places where they were found.
ReplacePieces(text, found, pieces) ==
    MapThenFoldSet(LAMBDA i, cells : Replaced(cells, Start(found, i), text[i].size),
                   found, LAMBDA i : i, LAMBDA left : Max(left), pieces)

RedactKind(text, found, kind) == ReplacePieces(text, found, Matches(text, found, kind))

\* Mutant of Redacted: every pattern looks at the text as it came in.
RedactedFromOneScan(text) ==
    ReplacePieces(text, Cells(text), {i \in DOMAIN text : IsSecret(text[i])})

\* The outer loop: each pattern looks at what the ones before it left.
Redacted(text) ==
    FoldLeft(LAMBDA cells, kind : RedactKind(text, cells, kind),
             Cells(text), SecretKinds)

\* The pieces of a text of which some cell is left.
Left(text, cells) == {i \in DOMAIN text : \E p \in DOMAIN cells : cells[p][1] = i}
SecretsLeft(text, cells) == {i \in Left(text, cells) : IsSecret(text[i])}

\* No pattern matches this text twice.
LoneSecrets(text) ==
    \A i, j \in DOMAIN text :
        IsSecret(text[i]) /\ text[i].kind = text[j].kind => i = j
=============================================================================
