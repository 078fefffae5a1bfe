SPECIFICATION FairSpec
CONSTANTS
    i1 = i1
    i2 = i2
    Instances = {i1, i2}
    Defs <- TickDefs
    GraceMs = 1
    MaxTime = 3
    MaxRuns = 3
    MaxLag = 0
    MaxFaults = 1
    MaxAdmin = 1
INVARIANTS NoOverlap 
PROPERTIES  RunsEnd
CHECK_DEADLOCK FALSE
