SPECIFICATION FairSpec
CONSTANTS
    dead = dead
    doc = doc
    g1 = g1  g2 = g2  s1 = s1
    Docs = {dead, doc}
    Runs = {g1, g2}
    Submitters = {s1}
    Backlog = {dead}
    BacklogFile <- MCBacklogFile
    Poison = {dead}
    Limit = 1
    Grace = 1
    Lease = 0
    Life = 0
    MaxClock = 4
    MaxFiles = 2
    MaxAttempts = 2
    MaxFaults = 1
INVARIANTS AnchoredKept ClaimsExclusive
PROPERTIES ForeignKept CollectedInTheEnd
CHECK_DEADLOCK FALSE
