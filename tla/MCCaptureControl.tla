-------------------------- MODULE MCCaptureControl --------------------------
(***************************************************************************)
(* CaptureControl for TLC: request threads, processes and files are        *)
(* interchangeable, and no property tells them apart.                      *)
(***************************************************************************)
EXTENDS CaptureControl, TLC

Symmetry == Permutations(Handlers) \cup Permutations(Procs) \cup Permutations(Files)
=============================================================================
