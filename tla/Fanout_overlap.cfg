SPECIFICATION FairSpecMet
CONSTANTS
    dA = dA  dB = dB  r1 = r1  r2 = r2
    Users = {1, 2}
    Jobs = {1}
    Dreps = {dA}
    Subject <- OneJob
    Runs = {r1, r2}
    PageSize = 1
    InsertChunk = 1
    Allowance = 4
    MaxClock = 2
    MaxMoves = 2
    MaxFaults = 1
INVARIANTS ToldOnce NoFollowerMissed NoFollowerPassed
PROPERTIES JobsComplete Promise
CHECK_DEADLOCK FALSE
