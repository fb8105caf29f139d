SPECIFICATION Spec
CONSTANTS
    s1 = s1
    s2 = s2
    s3 = s3
    r1 = r1
    r2 = r2
    Ids = {s1, s2, s3}
    Nonces = {"n1"}
    Pairings = {"p1"}
    Requests = {r1, r2}
    Mortal = {r1, r2}
    Ops <- SplitOps
    Grants = {FALSE, TRUE}
    IdleTtl = 3
    AbsoluteTtl = 2
    SlidingWindow = 0
    MinTtl = 2
    NonceTtl = 0
    PairingTtl = 1
    MaxClock = 3
SYMMETRY MCSymmetry
INVARIANTS
    LifeBoundedBySignIn
    RolesWithinSignIn
    OneSessionPerProof
CHECK_DEADLOCK FALSE
