--------------------- MODULE ManualMemoryBookRefinement ---------------------
(***************************************************************************)
(* The handlers of ManualMemoryBook, one request at a time and none of     *)
(* them failing, implement the promise of MemoryBook.                      *)
(***************************************************************************)
EXTENDS ManualMemoryBook

\* A correction takes effect when the replacement is stored.
BeingCorrected(m) ==
    \E h \in Handlers :
        pc[h] \in {"correctTombIndex", "correctNewStore"} /\ arg[h] = m

\* An undo request that read its timestamp inside the window will succeed.
BeingRestored(m) ==
    \E h \in Handlers :
        \/ pc[h] \in {"undoDelete", "undoStore"} /\ arg[h] = m
        \/ /\ pc[h] = "undoSelect"
           /\ undo[uid[h]] # None
           /\ undo[uid[h]].mem = m
           /\ undo[uid[h]].expires > ts[h]

CanStillUndo(m) ==
    \/ BeingRestored(m)
    \/ \E u \in UndoIds :
          undo[u] # None /\ undo[u].mem = m /\ undo[u].expires > now

bookState ==
    [m \in Memories |->
        IF BeingCorrected(m) THEN "live"
        ELSE IF store[m] = "forgotten" /\ ~CanStillUndo(m) THEN "gone"
        ELSE store[m]]

bookReplacedBy ==
    [m \in Memories |-> IF BeingCorrected(m) THEN None ELSE replacement[m]]

Book == INSTANCE MemoryBook WITH state <- bookState, replacedBy <- bookReplacedBy

\* Every behaviour of the sequential service is one the user was promised:
\* a correction replaces, a forget hides, an undo restores a forgotten memory
\* and nothing else, and only inside its window.
KeepsPromise == Book!Promise
=============================================================================
