SPECIFICATION FairSpec
CONSTANTS
    None = None
    q1 = q1  g1 = g1  a = a  b = b  w1 = w1  w2 = w2
    Queue = {q1}
    Group = {g1}
    Msg = {a, b}
    queueOf <- OneQueue
    groupOf <- OneGrouped
    parentOf <- AParent
    onFail <- AllIgnore
    Spawned = {b}
    KeepCompleted = {q1}
    Rated = {q1}
    QueueCaps = {1}
    GroupCaps = {1}
    Limited = {TRUE}
    Purgeable = {}
    MaxClaims = 3
    Worker = {w1}
    Concurrency = 1
    MaxAttempts = 1
    Deferring = {"wait"}
    Transactional = TRUE
    Graceful = FALSE
    MaxDefers = 1
    MaxFaults = 1
    MaxAdmin = 1
    MaxStalls = 0
    MaxAll = 2
INVARIANTS GroupCountersMatch QueueCountersMatch
PROPERTIES EventuallySettled CloseEnds
CHECK_DEADLOCK FALSE
