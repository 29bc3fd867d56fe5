SPECIFICATION Spec
CONSTANTS
    Event <- MCEvent
    Time <- MCTime
    WindowSize = 2
    MaxBatchSize = 2
    MaxRetries = 2
    MaxFaults = 1
    MaxRestarts = 1
INVARIANTS
    NoEventDropped
CHECK_DEADLOCK FALSE
