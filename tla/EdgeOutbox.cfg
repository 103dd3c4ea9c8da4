SPECIFICATION FairSpec
CONSTANTS
    MaxPred = 3
    Batch = 2
    MaxWaiting = 2
    MaxKept = 2
INVARIANTS
    TypeOK
    StoredInOrder
    OnlyOldestResent
    AccountedFor
PROPERTIES
    ReplayedOnReconnect
    DeliversInOrder
