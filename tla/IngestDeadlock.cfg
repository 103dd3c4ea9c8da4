SPECIFICATION FairSpec
CONSTANTS
    States = {"RUNNING"}
    BatchSize = 2
    MaxMsgs = 2
    MaxGood = 0
    MaxRestarts = 0
PROPERTIES
    RowsFlushed
