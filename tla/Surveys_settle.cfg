SPECIFICATION Spec
CONSTANTS
    s1 = s1
    s2 = s2
    g1 = g1
    g2 = g2
    Refs = {s1, s2}
    Runs = {g1}
    Cost <- MCCost
    Allowance = 4
    PageLimit = 1
    MaxPages = 2
    MaxClock = 5
    MaxGen = 2
    MaxFaults = 1
INVARIANTS MirrorReflects CatchesUp
CHECK_DEADLOCK FALSE
