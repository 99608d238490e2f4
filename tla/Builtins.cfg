\* Every builtin; files of up to three lines; arrays of two places.
SPECIFICATION Spec
CONSTANTS
    Sessions <- MCSessions
    Dirs = {"d1", "d2"}
    Prompts = {"a"}
    Numbers = {0, 2, 4, 8}
    IntMax = 3
    LongMax = 7
    DefaultJobs = 1
    Triggers = {"timer", "heartbeat"}
    MaxBright = 2
    MaxMeddling = 1
    Names = {1, 2, 3}
    Lo = 2
    Limit = 2
    Values <- MCValues
    MaxTicks = 2
    MaxCpuLines = 3
    MaxBytes = 6
    MaxCompatible = 2
    Pids = {1, 2, 3, 4}
    Nameless = {3}
    Room = 1
    MaxBirths = 2
    PidMax = 4
    PidLong = 9
INVARIANTS
    TypeOK
    LedHonest
    ReadingsRight
    ProcessesListed
PROPERTIES
    ImplementsStore
