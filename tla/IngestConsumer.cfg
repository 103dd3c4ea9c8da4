SPECIFICATION Spec
CONSTANTS
    States = {"RUNNING", "DOWN"}
    BatchSize = 2
    MaxMsgs = 3
    MaxGood = 1
    MaxRestarts = 1
INVARIANTS
    TypeOK
    TelemetryAccounted
    InsertedOnce
    NeverOvercounts
