SPECIFICATION Spec
CONSTANTS
    Evidence = {e1, e2}
    Payloads = {x, y}
    Ttls = {0, 1}
    None = None
    Torn = Torn
    Nothing = Nothing
    Error = Error
    MaxTime = 2
    MaxFaults = 2
SYMMETRY Symmetry
INVARIANTS
    ServedAsStored
    UnexpiredIsReadable
    SweptIsGone
    StoredBlobsAreTracked
