SPECIFICATION Spec
CONSTANTS
    r1 = r1
    r2 = r2
    a = a
    b = b
    i = i
    Runners = {r1}
    Contents <- Fresh
    Objects = {a, b, i}
    Budget = 2
    Ignores = {FALSE}
    MaxFaults = 1
    MaxFailures = 0
    MaxEdits = 0
INVARIANT SupersededIsInPlace
CHECK_DEADLOCK FALSE
