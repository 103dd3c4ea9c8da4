SPECIFICATION ServicesSpec
CONSTANTS
    MaxActions = 2
    Actuating = {2}
    VoiceWorkers = {r1, r2}
    MaxEffects = 2
    NumComponents = 2
    Worn = 2
    Process <- ProcessOf
    Scales = {1, 2}
    MaintenanceS = 2
    MaxResets = 2
    Devices = {d1, d2}
    SeqModulus = 4
    Low = 1
    High = 3
    MaxFaultS = 2
    Nominal = 3
    MaxWork = 4
    Modes = {"worn"}
    Metrics = {"temp"}
    MachineParts = {"bearing"}
    MaxEvents = 1
    PlantModels = {pm1, pm2}
    BoundModels = {bm1}
    RegistryWorkers = {q1, q2}
    MaxPromotions = 4
    Topics = {t1, t2}
    Sockets = {k1, k2, k3}
    MaxGen = 3
    MaxInbox = 2
    Codes = {as1, as2}
    AssetWorkers = {w1, w2}
    MaxEdits = 3
    MaxFaults = 1
    Planners = {w1, w2}
    PlanOrders = {1, 2, 3}
    Technicians = {"t1", "t2"}
    Slots = 4
    SlotLength = 2
    MaxPlans = 3
    MaxDrags = 1
    Duration <- SlotsOf
    LineOf <- Line
    Windows <- WindowsOf
    Days = 3
    Hours = 3
    MaxShifts = 1
    LastTime = 3
    DayStart = 1
    Buckets = 2
    RollupWorkers = {w1, w2}
    Machines = {"m1", "m2"}
    VoiceTabs = {v1, v2}
    AllowT3 = TRUE
    MaxCommands = 1
    MaxLapses = 1
    Trainers = {w1, w2}
    MaxTrainings = 2
    MaxSecond = 2
    MaxMishaps = 1
    Sensors = {"load", "temp"}
    WindowSize = 2
    Stride = 2
    RulCap = 20
    HalfWidths = {1, 8}
    BucketSeconds = 2
    MaxTime = 4
    MaxMissed = 1
    Scenarios = {s1, s2}
    RunWorkers = {w1, w2}
    MaxRunRequests = 3
    MaxRestarts = 1
    MachineOf <- PartsOf
    LoadLevels = {0, 1}
    Barrier = 2
    Shocks = {1, 2}
    Trials = 2
    Horizon = 8
INVARIANTS
    ServicesTypeOK
    PendingNotDone
    SimulatorSound
    DeathMatchesBirth
    RegistrySound
    TwinsSound
    LiveSound
    PlansSound
    TimeAgrees
    ForecastSound
    TrainingSound
    DialogueSound
PROPERTIES
    WalkedAway
    SettledForGood
    NodeStream
    RetiredIsReadOnly
CHECK_DEADLOCK FALSE
