SPECIFICATION Spec
CONSTANTS
    Memories = {m1, m2}
    UndoIds = {u1, u2}
    Handlers = {h1, h2}
    None = None
    Window = 1
    MaxTime = 1
    MaxFaults = 1
INVARIANTS
    AnswersShowOnlyLive
    ForgottenIsRecoverable
    ReplacementIsStored
    TombstonesAreAudited
    HonouredUndoIsSpent
SYMMETRY Symmetry
