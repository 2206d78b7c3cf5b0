\* Three cycles that fail, are rotated and are cut short by crashes.
SPECIFICATION FairSpec
CONSTANTS
    Retain = 1
    ClockStepsBack = FALSE
    MaxClock = 3
    MaxCycles = 3
    MaxCommits = 2
CHECK_DEADLOCK FALSE
INVARIANTS
    TypeOK
    RecoveryPointKept
    RecordedFilesRestore
    StatusIsConsistent
PROPERTIES
    RotationBoundsFiles
    RotationKeepsNewest
    RowsAreTrue
    CyclesEnd
    StartingEnds
