SPECIFICATION FairSpec
CONSTANTS
    Limit = 2
    MaxTrips = 2
    MaxCalls = 4
    MaxFaults = 3
    MaxRestarts = 1
INVARIANTS
    TypeOK
    ClaimIsPhysical
    EpisodeHoldsPlant
    ReleaseAuthorised
    ExitIsRecorded
    LogInOrder
    AuditStatusHonest
PROPERTIES
    ResumeWorks
    OverrunHalts
    TransitionsSettle
CHECK_DEADLOCK FALSE
