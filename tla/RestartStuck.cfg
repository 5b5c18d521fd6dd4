CONSTANTS
    Order <- ProductOrder
    WaitTicks = 1
    StaggerTicks = 1
    MonitorTicks = 1
    SequenceRequests <- RestartOnly
SPECIFICATION FairSequenceSpec
PROPERTIES
    RestartSettles
