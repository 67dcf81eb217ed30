CONSTANTS
    Requests = {a}
    WithCallback = {a}
    MaxShells = 3
    External = {2}
    MaxData = 1
    MaxLosses = 1
SPECIFICATION Spec
CHECK_DEADLOCK FALSE
INVARIANTS
    TypeOK
    OneLiveSocket
    RetryScheduled
    SessionAlive
    AnswerUnderway
PROPERTIES
    Answered
    Resumes
    Recovers
