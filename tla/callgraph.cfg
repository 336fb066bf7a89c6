CONSTANTS
    Functions <- FourFunctions
    Sources <- OneSource
    MaxDepth = 3
    MaxLimit = 3
SPECIFICATION FairSpec
INVARIANTS
    Sound
    FirstPaths
PROPERTIES
    Terminates
CHECK_DEADLOCK FALSE
