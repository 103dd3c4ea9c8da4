SPECIFICATION FairSpec
CONSTANTS
    Commands = {c1, c2}
    MaxRuns = 1
    MaxOrders = 2
    Workers = {w1, w2}
    MaxJobs = 4
INVARIANTS
    TypeOK
    ClosedOnAnswer
    AcceptedWasRun
PROPERTIES
    RowReleased
CHECK_DEADLOCK FALSE
