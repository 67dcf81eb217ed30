CONSTANTS
    MaxRuns = 1
    MaxPages = 0
    Jobs <- LongSelect
    MaxPackets = 3
    MaxSets = 1
    Budgets <- RunOnly
SPECIFICATION Spec
CHECK_DEADLOCK FALSE
INVARIANT ProperOrder
