SPECIFICATION MCSpec
SYMMETRY MCSymmetry
CONSTANTS
    Expanded = {"P03"}
    Others = {"web"}
    MaxFaults = 1
    Levels = {0, 1, 2, 4}
    AtoConfigs <- MCAtoConfigs
    Hysteresis = 2
    MinRise = 1
    Debounce = 2
    EmptyDetect = 2
    LongestTimeout = 5
    MaxPeriod = 2
    AgeCap = 8
    Limit <- MCLimit
    MaxSampleGap = 2
    ElectricAgeCap = 4
    FeedParams <- MCFeedParams
    Hour = 5
    MaxFeedsPerHour = 2
    FeedAgeCap = 5
    MaxIteration = 2
    PlugTypes = {"PUMP"}
    MinOn = 1
    MinOff = 1
    TickPeriod = 1
    MaxLag = 1
    PlugAgeCap = 3
    MaxChanges = 2
    MaxBusy = 2
    Writers = {"web", "ui"}
    Importer = "web"
    Settings = {"s1", "s2"}
    Values = {v0, v1}
    FlapCooldown = 1
    FlapWindow = 4
    MaxTransitions = 2
    MaxPause = 2
    FlapAgeCap = 7
    GuardTasks = {"sensors", "diag"}
    CriticalTasks = {"sensors"}
    Optional = {"diag"}
    Threshold <- MCThreshold
    Width = 3
    MissedCap = 3
    Window = 1
    Countdown = 2
    Hold = 1
INVARIANTS
    ControllersTypeOK
    Interlock
    TableCoversDirect
    DriverHonest
    PowerIsCut
    PumpBounded
    DryRunBounded
    TripsInTime
    FeedOnRecord
    RestoreOnce
    UnwantedEnds
    StoredIsPromised
    FlapLimit
    Patience
    HangFound
    
