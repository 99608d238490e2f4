\* A pipe of two bytes, so that it fills up, and two children.
SPECIFICATION FairSpec
CONSTANTS
    c1 = c1
    c2 = c2
    Children = {c1, c2}
    NoChild = NoChild
    Capacity = 2
    Chunk = 1
    MaxSignals = 3
    MaxInput = 2
INVARIANTS
    TypeOK
    NoLostWakeup
    NothingForgotten
    HandlerHasPipe
PROPERTIES
    EofEndsShell
    ImplementsService
