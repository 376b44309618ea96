SPECIFICATION Spec
CONSTANTS
    Handlers = {h1}
    Procs = {p1, p2, p3}
    Files = {f1, f2, f3}
    None = None
    MaxTurns = 3
SYMMETRY Symmetry
INVARIANTS
    NoOrphanOverlay
    StopEndsOverlays
    StopRemovesCards
    OverlayShowsLatestTurn
    RunningRepliesAreFresh
