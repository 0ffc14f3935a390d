SPECIFICATION MainFairSpec
CONSTANTS
    Alphabet = {0, 3, 6, 50, 86, 87, 91, 96, 128, 160}
    LongAlphabet = {0, 86, 87, 91, 96}
    MaxLength = 5
    Codes <- MCCodes
    Queries <- MCQueries
    GasLimit = 20
    UsizeModulus = 100
    Bits = 8
INVARIANTS
    BlocksArePartition
    LookupsSucceedButInTail
    MovesAreEdges
    RefusedAreExplained
    StaticInputsHold
    ReportIsConnected
    QueriesFindInstances
PROPERTIES
    MainEnds
CHECK_DEADLOCK FALSE
