CONSTANTS
    Addresses <- Places
    Programs <- MCPrograms
    Requests <- MCRequests
    Cap = 1
    MaxTicks = 2
    NoAddress = NoAddress
CHECK_DEADLOCK FALSE
SPECIFICATION Spec
INVARIANTS TypeOK HitIsEntry ExistingFunctionFound NameFindsFunction
