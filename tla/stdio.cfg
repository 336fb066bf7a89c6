CONSTANTS
    Streams <- MCStreams
    Ids <- MCIds
    MaxFaults = 2
    NoId = NoId
CHECK_DEADLOCK FALSE
SPECIFICATION Spec
INVARIANTS TypeOK CleanStreamAnswered JunkIsContained TelemetryMatches FaultsDoNotKill
