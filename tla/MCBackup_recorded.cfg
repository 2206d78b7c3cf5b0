\* A request writes while the row is to be inserted.
SPECIFICATION Spec
CONSTANTS
    Retain = 1
    ClockStepsBack = FALSE
    MaxClock = 2
    MaxCycles = 2
    MaxCommits = 1
CHECK_DEADLOCK FALSE
PROPERTIES
    EveryCycleIsRecorded
