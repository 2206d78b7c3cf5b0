\* The clock is set back between two cycles.
SPECIFICATION Spec
CONSTANTS
    Retain = 1
    ClockStepsBack = TRUE
    MaxClock = 2
    MaxCycles = 2
    MaxCommits = 0
CHECK_DEADLOCK FALSE
PROPERTIES
    SuccessHasFile
