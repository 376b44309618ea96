---------------------------- MODULE MCLiveClicker ----------------------------
(***************************************************************************)
(* LiveClicker for TLC.  A plain text, one with a secret and one with an   *)
(* instruction take the three ways there are through the firewall.         *)
(***************************************************************************)
EXTENDS LiveClicker

Piece(kind, size) == [kind |-> kind, size |-> size]

MCTexts == {<<Piece("plain", 1)>>,
            <<Piece("plain", 1), Piece("api_key", 2)>>,
            <<Piece("injection", 1)>>}
=============================================================================
