SPECIFICATION FairSpec
CONSTANTS
    Alphabet = {87, 91, 97, 176, 243, 253}
    LongAlphabet = {87, 91, 97, 253}
    MaxLength = 4
    Codes <- MCCodes
INVARIANTS
    TypeOK
    BlocksTile
PROPERTIES
    ImplementsBasicBlocks
CHECK_DEADLOCK FALSE
