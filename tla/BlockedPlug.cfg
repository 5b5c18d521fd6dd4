SPECIFICATION PlugSpec
CONSTANTS
    PlugTypes = {"OTHER"}
    MinOn = 1
    MinOff = 1
    TickPeriod = 1
    MaxLag = 1
    PlugAgeCap = 3
    MaxChanges = 1
    MaxBusy = 1
PROPERTY BlockedStaysOff
