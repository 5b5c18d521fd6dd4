CONSTANTS
    Alarms = {"ALM-026", "ALM-028"}
    Plants <- ThermalOnly
    Plugs = {}
    TableSlots = 2
    AckStates = 2
    Bulk = TRUE
SPECIFICATION DiligentSpec
PROPERTIES
    EveryGetsAcknowledged
