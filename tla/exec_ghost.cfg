CONSTANTS
    x = x
    result = result
    Names <- OneName
    Unsaved <- Slots
    MaxCalls = 2
    MaxInterrupts = 0
SPECIFICATION Spec
INVARIANTS
    TimedOutLeaveNoTrace
CHECK_DEADLOCK FALSE
