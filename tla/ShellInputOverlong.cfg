\* A ^C in the middle of a line that is too long: the rest is executed.
SPECIFICATION Spec
CONSTANTS
    Letters = {"a"}
    Size = 3
    Success = 0
    Failure = 1
    BadLine = 2
    MaxEvents = 7
PROPERTIES
    OverlongDiscarded
CHECK_DEADLOCK FALSE
