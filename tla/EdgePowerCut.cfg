SPECIFICATION FairSpec
CONSTANTS
    MaxPred = 2
    Batch = 2
    MaxWaiting = 2
    MaxKept = 2

INVARIANTS
    PowerCutKeepsQueued
