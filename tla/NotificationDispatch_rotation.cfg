SPECIFICATION FairSpec
CONSTANTS
    u1 = u1  u2 = u2  c1 = c1  c2 = c2  p1 = p1  p2 = p2
    Kinds = {"device", "gated"}
    Users <- TwoUsers
    Channels = {c1, c2}
    Owner <- TwoOwner
    Passes = {p1}
    Limit = 1
    Failing = {c1}
    MaxClock = 3
    MaxRows = 2
    MaxGen <- C1Returns
    MaxFaults = 0
PROPERTIES NoticeDelivered Promise
CHECK_DEADLOCK FALSE
