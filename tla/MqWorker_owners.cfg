SPECIFICATION WorkerSpec
CONSTANTS
    None = None
    q1 = q1  g1 = g1  a = a  b = b  w1 = w1  w2 = w2
    Queue = {q1}
    Group = {}
    Msg = {a}
    queueOf <- OneQueue
    groupOf <- NoGroups
    parentOf <- NoParents
    onFail <- AllIgnore
    Spawned = {}
    KeepCompleted = {q1}
    Rated = {}
    QueueCaps = {None}
    GroupCaps = {None}
    Limited = {FALSE}
    Purgeable = {}
    MaxClaims = 2
    Worker = {w1, w2}
    Concurrency = 1
    MaxAttempts = 2
    Deferring = {"defer"}
    Transactional = FALSE
    Graceful = TRUE
    MaxDefers = 1
    MaxFaults = 1
    MaxAdmin = 1
    MaxStalls = 1
    MaxAll = 3
INVARIANTS TokenFencing LostIsFinal ActiveHasRun
PROPERTIES LeaseProtects
SYMMETRY Workers
CHECK_DEADLOCK FALSE
