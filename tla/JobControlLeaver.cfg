\* A pipeline member in a group of its own: the shell may wait for ever.
SPECIFICATION Spec
CONSTANTS
    NPid = 2
    MaxPipe = 2
    MaxSwitches = 1
    MaxFaults = 0
    Limits = {2}
    Codes = {0}
    Success = 0
    Failure = 2
    Retries = 1
    CanLeave = TRUE
    CanSpawn = FALSE
INVARIANTS
    NeverWaitsInVain
