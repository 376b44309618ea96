--------------------------- MODULE MCEvidenceVault ---------------------------
(* EvidenceVault for TLC: evidence and payloads are interchangeable. *)
EXTENDS EvidenceVault, TLC

Symmetry == Permutations(Evidence) \cup Permutations(Payloads)
=============================================================================
