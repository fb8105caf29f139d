SPECIFICATION Spec
CONSTANTS
    s1 = s1
    s2 = s2
    g1 = g1
    g2 = g2
    Refs = {s1}
    Runs = {g1, g2}
    Cost <- MCCheap
    Allowance = 4
    PageLimit = 1
    MaxPages = 2
    MaxClock = 2
    MaxGen = 2
    MaxFaults = 1
VIEW MCView
SYMMETRY MCSymmetry
INVARIANTS OneThread FinalCountNamed TallyOfItsArtifact WorkKept
CHECK_DEADLOCK FALSE
