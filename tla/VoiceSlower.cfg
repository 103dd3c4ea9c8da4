SPECIFICATION DialogueSpec
CONSTANTS
    Machines = {"m1", "m2"}
    VoiceTabs = {v1, v2}
    AllowT3 = TRUE
    MaxCommands = 1
    MaxLapses = 1
INVARIANT OnlyConfirmExecutes
CHECK_DEADLOCK FALSE
