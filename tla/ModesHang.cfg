CONSTANTS
    TicksPerSec = 2
    SafeoffStableS = 1
    EmergencyStableS = 1
    Requests <- AckOnly
SPECIFICATION CoreSpec
PROPERTIES
    ImplementsModes
