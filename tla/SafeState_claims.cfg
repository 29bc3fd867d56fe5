SPECIFICATION Spec
CONSTANTS
    Limit = 2
    MaxTrips = 2
    MaxCalls = 0
    MaxFaults = 1
    MaxRestarts = 1
INVARIANTS
    SafeStateClaims
CHECK_DEADLOCK FALSE
