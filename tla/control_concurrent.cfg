SPECIFICATION Spec
CONSTANTS
    Handlers = {h1, h2}
    Procs = {p1, p2}
    Files = {f1, f2}
    None = None
    MaxTurns = 1
SYMMETRY Symmetry
INVARIANTS
    LoneStopResets
    LoneRepliesAreTrue
