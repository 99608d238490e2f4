\* Lines of up to two bytes: every input of seven events.
SPECIFICATION Spec
CONSTANTS
    Letters = {"a", "b"}
    Size = 3
    Success = 0
    Failure = 1
    BadLine = 2
    MaxEvents = 7
INVARIANTS
    TypeOK
    LinesAreSegments
CHECK_DEADLOCK FALSE
