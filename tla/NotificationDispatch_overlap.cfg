SPECIFICATION Spec
CONSTANTS
    u1 = u1  u2 = u2  c1 = c1  c2 = c2  p1 = p1  p2 = p2
    Kinds = {"gov"}
    Users <- OneUser
    Channels = {c1}
    Owner <- OneOwner
    Passes = {p1, p2}
    Limit = 1
    Failing = {c1}
    MaxClock = 4
    MaxRows = 2
    MaxGen <- Once
    MaxFaults = 1
SYMMETRY PassSymmetry
INVARIANTS AtMostOnce NothingSkipped
PROPERTIES RewindReopensUnsent
CHECK_DEADLOCK FALSE
