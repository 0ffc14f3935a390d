CONSTANTS
    Node = {0, 1, 2, 3}
    MaxEdges = 5
    MaxQueries = 1
SPECIFICATION FairSpec
INVARIANTS
    TypeOK
    Sound
    Witnessed
    NoReentry
    CompleteBeforeCycles
PROPERTIES
    VerdictsStable
    QueriesReturn
CHECK_DEADLOCK FALSE
