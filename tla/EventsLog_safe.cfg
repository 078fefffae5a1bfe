SPECIFICATION Spec
CONSTANTS
    Readers = {r1, r2}
    MaxXid = 2
    MaxEntries = 3
    Unwanted = {2}
    BatchSize = 2
    MaxAttempts = 1
    KeepUntilConsumed = TRUE
    MaxFaults = 1
    Resets = FALSE
    Modes = {"entry"}
INVARIANTS NothingSkipped ExactlyOnce ParkedAfterAttempts
PROPERTY ImplementsStream
CHECK_DEADLOCK FALSE
SYMMETRY ReaderSymmetry
