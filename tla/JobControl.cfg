\* Safety of the job table: programs stay in the group of their job.
SPECIFICATION Spec
CONSTANTS
    NPid = 3
    MaxPipe = 2
    MaxSwitches = 2
    MaxFaults = 1
    Limits = {1, 2}
    Codes = {0}
    Success = 0
    Failure = 2
    Retries = 1
    CanLeave = FALSE
    CanSpawn = FALSE
INVARIANTS
    TypeOK
    StatusAgrees
    NeverWaitsInVain
    TerminalPlaced
    NoFinishedJob
PROPERTIES
    LimitHolds
