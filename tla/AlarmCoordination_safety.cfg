SPECIFICATION Spec
CONSTANTS
    r1 = r1
    r2 = r2
    Replica <- MCReplica
    Flaky <- MCFlaky
    Alarm <- MCAlarm
    Related <- MCRelated
    Critical <- MCCritical
    GroupId <- MCGroupId
    Operations <- MCOperations
    MaxSubmits = 3
    MaxPumps = 1
    MaxFaults = 1
    MaxRestarts = 1
    SqliteBackend = TRUE
INVARIANTS
    TypeOK
    HidesOnlyWhenHealthy
    HiddenIsRestorable
    AlarmKept
    
CHECK_DEADLOCK FALSE
