SPECIFICATION Spec
CONSTANTS
    Seeds = {s1}
    None = None
    DayLength = 2
    LastSecond = 3
    MaxDepth = 2
    MaxRequests = 5
    MaxFaults = 1
INVARIANTS
    RowsAreReadable
