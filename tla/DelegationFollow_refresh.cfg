SPECIFICATION SpecResolved
CONSTANTS
    dA = dA  dB = dB  l1 = l1  l2 = l2  c1 = c1
    Users = {1, 2}
    Dreps = {dA}
    Logins = {l1}
    Crons = {c1}
    Seconds = {0}
    DueAfter = 2
    RetryAfter = 2
    ExpectedTtl = 5
    Swings = TRUE
    BulkLimit = 2
    SinceCap = 1
    MaxClock = 6
    MaxMoves = 1
    MaxLogins = 1
    MaxFailures = 1
    MaxFaults = 1
SYMMETRY Symmetry
INVARIANTS RowCatchesUp
PROPERTIES OwnDelegationSilent ChangeToldOnce StartKept
CHECK_DEADLOCK FALSE
