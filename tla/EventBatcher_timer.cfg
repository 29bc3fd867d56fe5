SPECIFICATION FairSpec
CONSTANTS
    c1 = c1
    MaxOffered = 3
    Big <- MCBig
    Callers <- MCCallers
    MaxEvents = 2
    MaxFaults = 1
PROPERTIES
    TimeTriggered
CHECK_DEADLOCK FALSE
