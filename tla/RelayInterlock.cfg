CONSTANTS
    Expanded = {}
    Others = {"web"}
    MaxFaults = 0
SPECIFICATION RelaySpec
INVARIANTS
    NeverBoth
