SPECIFICATION FairSpec
CONSTANTS
    r1 = r1
    r2 = r2
    a = a
    none = none
    Relays = {r1, r2}
    Partitions = {0, 1}
    Records = {1}
    Keys = {a}
    NoKey = none
    KeyOf <- OneKeyOf
    PartitionOf <- OnePartitionOf
    BatchSize = 2
    MaxAttempts = 2
    MayClose = {r1}
    MaxChurn = 1
    MaxFaults = 1
    MaxAdmin = 0

PROPERTIES  JoinerServed
CHECK_DEADLOCK FALSE
