CONSTANTS
    TicksPerSec = 2
    SafeoffStableS = 2
    EmergencyStableS = 1
    Requests <- AckOnly
SPECIFICATION CoreSpec
PROPERTIES
    Stabilised
