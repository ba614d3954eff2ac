SPECIFICATION Spec
CONSTANTS
    n1 = n1
    n2 = n2
    n3 = n3
    v1 = v1
    v2 = v2
    Empty = Empty
    Node <- Nodes
    Value <- Values
    Proposer <- Nodes
    MaxTry = 1
    MaxDup = 1
    Losses = TRUE
    SendAgain = TRUE
    MaxStop = 1
INVARIANTS TypeOK OneProposerPerRound FirstRoundAgreement OnlyEchoedValues
CONSTRAINT RaceOrFaults
SYMMETRY Sym
PROPERTY ImplementsConsensus
CHECK_DEADLOCK FALSE
