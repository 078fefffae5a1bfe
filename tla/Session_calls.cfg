SPECIFICATION FairSpec
CONSTANTS
    k1 = k1
    k2 = k2
    c1 = c1
    Callers = {k1, k2}
    Conns = {c1}
    KindOf <- OneEach
    MaxAttempts = 2
    MaxNested = 1
    MaxWrites = 2
    MaxDepth = 1
    MaxSavepoints = 1
    MaxFaults = 1
    MaxErrors = 1
    Late = FALSE
INVARIANTS  AtMostOneCommit 
PROPERTY CallsEnd
CHECK_DEADLOCK FALSE
