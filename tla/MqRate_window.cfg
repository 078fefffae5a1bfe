SPECIFICATION Spec
CONSTANTS
    None = None
    c1 = c1  c2 = c2
    Claimer = {c1, c2}
    Rates <- Changing
    Batch = 2
    Pauses = {1, 4}
    MaxInt = 4
    MaxClock = 6
PROPERTIES RatePerWindow LimitNotShortened
SYMMETRY Claimers
CHECK_DEADLOCK FALSE
