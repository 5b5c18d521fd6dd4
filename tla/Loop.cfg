CONSTANTS
    TicksPerSec = 2
    SafeoffStableS = 1
    EmergencyStableS = 1
    Requests <- MCRequests
    Order <- MCOrder
    WaitTicks = 3
    StaggerTicks = 2
    MonitorTicks = 4
    SequenceRequests <- MCSequenceRequests
    FailureThreshold = 3
    SuccessThreshold = 2
    OpenTicks = 3
    Alarms = {"ALM-015", "ALM-026", "ALM-028", "ALM-043", "ALM-046", "ALM-056", "ALM-060", "ALM-065"}
    Plants <- MCPlants
    Plugs = {1, 2}
    TableSlots = 2
    AckStates = 3
    Bulk = TRUE
SPECIFICATION MCSpec
INVARIANTS
    LoopTypeOK
    CauseMatchesMode
    RestartConfined
    ExtremeIsEmergency
    Paced
    OfferedOnlyWhileRearming
    OpenEnds
    DoubleAck
    StageFollowsAlarm
PROPERTIES
    ModesKeptButForHangs
    NoShortcut
    SequenceEnds
    WholePause
    ClosesOnlyConfirmed
    TripsOnStreak
    Recovers
    FreshGetsAcknowledged
