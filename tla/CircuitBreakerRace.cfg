CONSTANTS
    FailureThreshold = 2
    SuccessThreshold = 2
    OpenTicks = 3
SPECIFICATION BreakerSpec
PROPERTIES
    OpenHolds
