SPECIFICATION FairSpec
CONSTANTS
    c1 = c1
    MaxOffered = 5
    Big <- MCBig
    Callers <- MCCallers
    MaxEvents = 2
    MaxFaults = 2
INVARIANTS
    TypeOK
    Conserved
    OnePlace
    OrderedBatches
    QueueIsTimed
PROPERTIES
    AcceptedIsDelivered
CHECK_DEADLOCK FALSE
