CONSTANTS
    k1 = k1
    k2 = k2
    k3 = k3
    None = None
    Keys <- ThreeKeys
    Entry = k1
    Sizes <- SomeSizes
    MaxBytes = 5
    FarOff = 11
SYMMETRY Alike
SPECIFICATION Spec
INVARIANTS
    TypeOK
    Accounting
    UnderCap
    LeastRecentlyUsedFirst
PROPERTIES
    NoNeedlessEviction
    FreshEntryStays
