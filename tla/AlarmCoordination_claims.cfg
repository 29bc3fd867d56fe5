SPECIFICATION Spec
CONSTANTS
    r1 = r1
    r2 = r2
    Replica <- MCReplica
    Flaky <- MCFlaky
    Alarm <- MCFour
    Related <- MCOnePair
    Critical <- MCCritical
    GroupId <- MCGroupId
    Operations <- MCAlarmsAndSweep
    MaxSubmits = 5
    MaxPumps = 1
    MaxFaults = 1
    MaxRestarts = 1
    SqliteBackend = FALSE
CONSTRAINT
    MCInOrder
INVARIANTS
    CoordinationClaims
CHECK_DEADLOCK FALSE
