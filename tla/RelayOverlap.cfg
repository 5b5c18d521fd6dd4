CONSTANTS
    Expanded = {"P03"}
    Others = {"web"}
    MaxFaults = 0
SPECIFICATION FairRelaySpec
PROPERTIES
    CutsPower
