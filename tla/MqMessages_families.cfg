SPECIFICATION MCSpec
CONSTANTS
    None = None
    flow = flow  chain = chain  g1 = g1
    p = p  c1 = c1  c2 = c2  s1 = s1  s2 = s2  s3 = s3
    Queue = {flow, chain}
    Group = {g1}
    Msg = {p, c1, c2, s1, s2, s3}
    queueOf <- QueueOf
    groupOf <- GroupOf
    parentOf <- ParentOf
    onFail <- OnFail
    Spawned = {s3}
    KeepCompleted = {flow}
    Rated = {chain}
    QueueCaps = {1, None}
    GroupCaps = {1}
    Limited = {TRUE, FALSE}
    Purgeable = {"ready", "blocked", "completed", "failed", "cancelled"}
    MaxClaims = 2
INVARIANTS PendingMatches DepsAgree BlockedWaits
PROPERTIES ParentRunsAfterChildren ClaimsWithinLimits CancelNotDropped
CHECK_DEADLOCK FALSE
