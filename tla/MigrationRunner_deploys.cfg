SPECIFICATION FairSpec
CONSTANTS
    r1 = r1
    r2 = r2
    a = a
    b = b
    i = i
    Runners = {r1, r2}
    Contents <- Deploys
    Objects = {a, b, i}
    Budget = 2
    Ignores = {TRUE, FALSE}
    MaxFaults = 2
    MaxFailures = 1
    MaxEdits = 1
INVARIANTS  WithdrawnLeftNothing WatermarkCommitsWithRows
PROPERTIES SettledIsFinal EventuallyUpToDate
CHECK_DEADLOCK FALSE
