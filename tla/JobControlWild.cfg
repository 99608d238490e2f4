\* Programs leave their groups and leave descendants behind.
SPECIFICATION Spec
CONSTANTS
    NPid = 3
    MaxPipe = 2
    MaxSwitches = 1
    MaxFaults = 0
    Limits = {3}
    Codes = {0, 1}
    Success = 0
    Failure = 2
    Retries = 1
    CanLeave = TRUE
    CanSpawn = TRUE
INVARIANTS
    NoChildLost
    NothingLeft
PROPERTIES
    StatusOfLast
