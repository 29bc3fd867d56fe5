SPECIFICATION Spec
CONSTANTS
    m1 = m1
    m2 = m2
    c1 = c1
    c2 = c2
    go = go
    bad = bad
    Master <- MCMaster
    Class <- MCClass
    Command <- MCCommand
    Malformed <- MCMalformed
    MaxEvents = 2
    Threshold = 1
    FragmentSize = 1
    SeqModulus = 2
    MaxUpdates = 2
    MaxRequests = 1
    MaxInputs = 3
    MaxInFlight = 2
    MaxDrops = 0
SYMMETRY MCSymmetry
INVARIANT LeavesOnlyConfirmed
CHECK_DEADLOCK FALSE
