CONSTANTS
    LastAddress = 4
    MaxChanges = 2
    Matching <- MCMatching
    Undecodable <- MCUndecodable
    Limits <- MCLimits
    XrefLimits <- MCXrefLimits
    Code <- MCCode
    BodyFirst = 2
    BodyLast = 4
    MaxTargets = 3
SPECIFICATION Spec
INVARIANTS
    PagesComplete
    XrefsExhaustive
    BatchReportsEveryTarget
