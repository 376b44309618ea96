SPECIFICATION Spec
CONSTANTS
    None = None
    LastDay = 2
INVARIANTS
    BlockedStaysOut
PROPERTIES
    PromotionIsEarned
    TransitionsStayReadable
