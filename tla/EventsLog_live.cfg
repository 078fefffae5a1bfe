SPECIFICATION FairSpec
CONSTANTS
    Readers = {r1}
    MaxXid = 2
    MaxEntries = 2
    Unwanted = {}
    BatchSize = 2
    MaxAttempts = 1
    KeepUntilConsumed = TRUE
    MaxFaults = 1
    Resets = TRUE
    Modes = {"batch"}
INVARIANTS NothingSkipped
PROPERTY EventuallySettled
CHECK_DEADLOCK FALSE
