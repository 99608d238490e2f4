\* Two command lines, two faults, and a table that the second redirection of
\* a command fills if the shell has a terminal.
SPECIFICATION Spec
CONSTANTS
    MaxFd = 7
    MaxFaults = 2
    MaxCommands = 2
INVARIANTS
    TypeOK
    TableRestored
    StandardReserved
    TextPlaced
