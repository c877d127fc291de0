CONSTANTS
    MaxAttempts = 6
    MaxErrors = 3
SPECIFICATION Spec
INVARIANTS
    FailuresEndPoll
CHECK_DEADLOCK FALSE
