------------------------- MODULE MCManualMemoryBook -------------------------
(* ManualMemoryBook for TLC: ids and threads are interchangeable. *)
EXTENDS ManualMemoryBook, TLC

Symmetry == Permutations(Memories) \cup Permutations(UndoIds)
                \cup Permutations(Handlers)
=============================================================================
