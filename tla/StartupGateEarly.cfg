\* A ^C right after the handover of the terminal may be lost.
SPECIFICATION Spec
CONSTANTS
    MaxPipe = 1
    MaxSignals = 1
    MaxFaults = 0
INVARIANTS
    EveryInterruptActs
