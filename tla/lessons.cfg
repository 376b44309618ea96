CONSTANTS
    Topics = {t1}
    None = None
    Denial = Denial
    ReviewAfter = 0
    LastSecond = 1
    LastDay = 3
    MaxLessons = 3
    MaxFailures = 1
SPECIFICATION Spec
INVARIANTS WithdrawnStaysOut ReplacedIsWithdrawn GuidanceIsConfirmed EffectsAreAudited
