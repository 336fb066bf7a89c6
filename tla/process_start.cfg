CONSTANTS
    MaxEvals = 2
SPECIFICATION FairSpec
PROPERTIES
    WarmupIsHarmless
CHECK_DEADLOCK FALSE
