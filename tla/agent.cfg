CONSTANTS
    main = main
    entry = entry
    Names <- NoNames
    Unsaved <- NoNames
    MaxCalls = 2
    MaxInterrupts = 0
    Functions <- TwoFunctions
    Entry = entry
    MaxVersion = 2
SPECIFICATION AgentSpec
INVARIANTS
    AgentTypeOK
    InvalidatedWritesVisible
CHECK_DEADLOCK FALSE
