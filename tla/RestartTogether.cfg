CONSTANTS
    Order <- ProductOrder
    WaitTicks = 6
    StaggerTicks = 1
    MonitorTicks = 2
    SequenceRequests <- NoRequests
    Group <- HeaterAndFilter
    MinOff = 6
SPECIFICATION RelaysSpec
PROPERTIES
    GroupByGroup
