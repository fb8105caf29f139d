SPECIFICATION FairSpec
CONSTANTS
    yes = yes
    no = no
    doc = doc
    Choices = {yes, no}
    Anchors = {doc}
    Ballot <- MCBallot
    Requests = {"r1"}
    MaxVotes = 2
    MaxFaults = 1
INVARIANTS ConfirmedOnChain TellsLatest
PROPERTIES PendingResolved FinalVoteKept RationaleCatchesUp
CHECK_DEADLOCK FALSE
