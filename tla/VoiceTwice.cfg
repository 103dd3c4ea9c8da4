SPECIFICATION VoiceSpec
CONSTANTS
    MaxActions = 1
    Actuating = {}
    VoiceWorkers = {r1, r2}
    MaxEffects = 2
INVARIANTS
    ExecutedOnce
