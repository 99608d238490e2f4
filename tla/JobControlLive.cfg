\* Liveness: reports are seen, waits return, the shutdown ends.
SPECIFICATION FairSpec
CONSTANTS
    NPid = 2
    MaxPipe = 2
    MaxSwitches = 2
    MaxFaults = 1
    Limits = {2}
    Codes = {0}
    Success = 0
    Failure = 2
    Retries = 2
    CanLeave = FALSE
    CanSpawn = FALSE
PROPERTIES
    EveryChangeSeen
    WaitReturns
    ShutdownEnds
    ImplementsLedger
