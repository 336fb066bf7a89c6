CONSTANTS
    MaxEvals = 3
SPECIFICATION FairSpec
INVARIANTS
    TypeOK
    RedirectIsPrivate
    DecompilerDisposed
    NoNewScriptAfterShutdown
PROPERTIES
    ProcessEnds
CHECK_DEADLOCK FALSE
