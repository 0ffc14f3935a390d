SPECIFICATION Spec
CONSTANTS
    Alphabet = {}
    MaxLength = 0
    JumpTargets = {}
    JumpTail = {}
    BlockCount = 1
    Kinds = {}
    ReturnBlocks = {}
    Sizes = {3, 40}
    Offsets = {0, 12}
    Unreadable = 65536
    Codes <- Constructors
    JunkIdx = {0}
    IntBytes = 2
    MaxSteps = 24
    WordBytes = 2
    EvmBytes = 3
PROPERTIES
    CreatedIsReturned
CHECK_DEADLOCK FALSE
