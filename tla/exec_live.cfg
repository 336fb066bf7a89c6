CONSTANTS
    x = x
    result = result
    Names <- OneName
    Unsaved <- Slots
    MaxCalls = 2
    MaxInterrupts = 1
SPECIFICATION FairSpec
PROPERTIES
    EveryCallAnswered
CHECK_DEADLOCK FALSE
