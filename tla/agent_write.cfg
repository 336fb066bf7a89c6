CONSTANTS
    main = main
    entry = entry
    Names <- NoNames
    Unsaved <- NoNames
    MaxCalls = 2
    MaxInterrupts = 0
    Functions <- TwoFunctions
    Entry = entry
    MaxVersion = 2
SPECIFICATION AgentSpec
INVARIANT CacheReflectsWrites
CHECK_DEADLOCK FALSE
