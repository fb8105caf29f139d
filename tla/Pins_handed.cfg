SPECIFICATION Spec
CONSTANTS
    dead = dead
    doc = doc
    g1 = g1  g2 = g2  s1 = s1
    Docs = {doc}
    Runs = {g1}
    Submitters = {s1}
    Backlog = {}
    BacklogFile <- MCBacklogFile
    Poison = {dead}
    Limit = 1
    Grace = 1
    Lease = 1
    Life = 1
    MaxClock = 4
    MaxFiles = 2
    MaxAttempts = 2
    MaxFaults = 1
INVARIANTS HandedPinStays
CHECK_DEADLOCK FALSE
