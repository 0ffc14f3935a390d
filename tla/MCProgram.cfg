SPECIFICATION FairSpec
CONSTANTS
    Alphabet = {0, 6, 50, 86, 87, 91, 96, 128}
    MaxLength = 4
    JumpTargets = {0, 2, 3, 4, 5, 6}
    JumpTail = {0, 50, 86, 87, 91}
    BlockCount = 3
    Kinds = {87, 128}
    ReturnBlocks = {3}
    Sizes = {3, 40, 65536}
    Offsets = {0, 12, 256}
    Unreadable = 65536
    Codes <- MCCodes
    JunkIdx = {0}
    IntBytes = 1
    MaxSteps = 24
    WordBytes = 2
    EvmBytes = 3
INVARIANTS
    GraphMatchesCode
    NullsAreNeverMet
    AbortsAtTrailingJumpDest
    EntryAsserted
    LookupsFindNode
    StatesAriseOnPaths
    ExecutedIsReachedBeforeJoins
PROPERTIES
    ProgramEnds
    CreatedAsReturned
    OriginsReported
CHECK_DEADLOCK FALSE
