CONSTANTS
    MaxRuns = 2
    MaxPages = 2
    Jobs <- AnyJob
    MaxPackets = 3
    MaxSets = 2
    Budgets <- Few
SPECIFICATION Spec
CHECK_DEADLOCK FALSE
INVARIANTS
    TypeOK
    NoSilentStatement
    RowsInOrder
    ShowsStored
    SettledIsIdle
PROPERTIES
    Settles
