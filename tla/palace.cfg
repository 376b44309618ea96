SPECIFICATION Spec
CONSTANTS
    Seeds = {s1}
    None = None
    DayLength = 2
    LastSecond = 3
    MaxDepth = 2
    MaxRequests = 5
    MaxFaults = 1
INVARIANTS
    OneVersionRecalled
    CorrectionIsRecalled
    ChangesAreAudited
    FirstCorrectionsAreReadable
PROPERTIES
    DeletedStaysOut
CHECK_DEADLOCK FALSE
