\* Pipelines of up to three, one signal and one failing call.
SPECIFICATION FairSpec
CONSTANTS
    MaxPipe = 3
    MaxSignals = 1
    MaxFaults = 1
INVARIANTS
    TypeOK
    PublishedFirst
    RollbackClean
    NoFalseRefusal
    HeldInterruptActs
    PipesConnect
PROPERTIES
    LaunchEnds
