CONSTANTS
    Requests = {r1, r2, r3, r4}
    Texts <- MCTexts
    MaxObservations = 2
    MaxFailures = 1
    None = None
SPECIFICATION Spec
INVARIANTS ReceiptsTellTheStore AnswersAreCountedOnce
PROPERTIES EveryRequestEnds
CHECK_DEADLOCK FALSE
