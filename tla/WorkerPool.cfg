CONSTANTS
    MaxTasks = 3
    MaxQueries = 2
    MaxWorkers = 3
    Defaults <- OneWorker
    Choices <- MoreWorkers
    MaxChanges = 1
SPECIFICATION Spec
CHECK_DEADLOCK FALSE
INVARIANTS
    TypeOK
    OneOwner
    RefsExact
    OwnAnswer
PROPERTIES
    Drains
