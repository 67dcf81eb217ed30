CONSTANTS
    MaxTasks = 3
    MaxQueries = 0
    MaxWorkers = 3
    Defaults <- OneWorker
    Choices <- LongerQueue
    MaxChanges = 1
SPECIFICATION Spec
CHECK_DEADLOCK FALSE
INVARIANT ActiveBounded
