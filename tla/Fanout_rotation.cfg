SPECIFICATION SpecTurns
CONSTANTS
    dA = dA  dB = dB  r1 = r1
    Users = {1, 2, 3}
    Jobs = {1, 2}
    Dreps = {dA, dB}
    Subject <- MegaJob
    Runs = {r1}
    PageSize = 1
    InsertChunk = 1
    Allowance = 6
    MaxClock = 4
    MaxMoves = 3
    MaxFaults = 0
INVARIANTS RotationReachesAll WithinAllowance NotDeferredIsDrained
CHECK_DEADLOCK FALSE
