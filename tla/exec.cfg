CONSTANTS
    x = x
    result = result
    Names <- OneName
    Unsaved <- Slots
    MaxCalls = 3
    MaxInterrupts = 1
SPECIFICATION Spec
INVARIANTS
    TypeOK
    SingleFlightUntilSigint
    BusyIsKnown
    NoStaleSlot
    CommittedKept
    RefusedLeaveNoTrace
    InvalidationNotLost
    IInv
PROPERTIES
    StartsFromSnapshot
    ContractKept
CHECK_DEADLOCK FALSE
