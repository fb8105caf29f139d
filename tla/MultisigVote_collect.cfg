SPECIFICATION Spec
CONSTANTS
    t1 = t1  t2 = t2  k1 = k1  k2 = k2  r1 = r1  r2 = r2  b1 = b1  b2 = b2
    Txs = {t1, t2}
    Signers = {k1, k2}
    Satisfying <- MCSatisfying
    Requests = {r1, r2}
    Tabs = {b1, b2}
    MaxTries = 2
    Window = 0
    MaxClock = 1
INVARIANTS AckedKept NoSignerTurnedAway RecordedOnce FinalVoteShown
PROPERTY Promise
SYMMETRY Symmetry
CHECK_DEADLOCK FALSE
