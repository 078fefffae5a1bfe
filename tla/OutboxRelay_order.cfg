SPECIFICATION Spec
CONSTANTS
    r1 = r1
    r2 = r2
    a = a
    none = none
    Relays = {r1, r2}
    Partitions = {0}
    Records <- TwoRecords
    Keys = {a}
    NoKey = none
    KeyOf <- TwoKeyOf
    PartitionOf <- TwoPartitionOf
    BatchSize = 2
    MaxAttempts = 2
    MayClose = {}
    MaxChurn = 1
    MaxFaults = 2
    MaxAdmin = 1
SYMMETRY Alike
INVARIANTS NothingLost
 
CHECK_DEADLOCK FALSE
