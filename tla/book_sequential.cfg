SPECIFICATION Spec
CONSTANTS
    Memories = {m1, m2, m3}
    UndoIds = {u1, u2}
    Handlers = {h1}
    None = None
    Window = 1
    MaxTime = 2
    MaxFaults = 0
INVARIANTS
    IndexAgreesAtRest
    PendingUndoMeansForgotten
PROPERTIES
    UndoRestoresOnlyForgotten
    KeepsPromise
