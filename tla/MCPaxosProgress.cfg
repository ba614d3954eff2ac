SPECIFICATION FairSpec
CONSTANTS
    n1 = n1
    n2 = n2
    n3 = n3
    v1 = v1
    v2 = v2
    Empty = Empty
    Node <- Nodes
    Value <- Values
    Proposer <- OneNode
    MaxTry = 2
    MaxDup = 0
    Losses = FALSE
    SendAgain = FALSE
    MaxStop = 0
INVARIANT RoundsWereStarted
PROPERTY Progress
CHECK_DEADLOCK FALSE
