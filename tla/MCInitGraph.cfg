CONSTANTS
    Alphabet = {0, 1, 86, 87, 91, 97}
    MaxLength = 5
    Streams <- MCStreams
SPECIFICATION FairSpec
INVARIANTS
    TypeOK
    NodesDisjoint
    Covered
PROPERTIES
    OnlyEmptyReplaced
    ImplementsBasicBlocks
CHECK_DEADLOCK FALSE
