SPECIFICATION Spec
CONSTANTS
    Commands = {c1, c2}
    MaxRuns = 1
    MaxOrders = 1
    Workers = {w1, w2}
    MaxJobs = 3
PROPERTIES
    ClosedForGood
CHECK_DEADLOCK FALSE
