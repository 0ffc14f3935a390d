SPECIFICATION Spec
CONSTANTS
    Alphabet = {0, 50, 80}
    MaxLength = 4
    JumpTargets = {}
    JumpTail = {}
    BlockCount = 1
    Kinds = {}
    ReturnBlocks = {}
    Sizes = {}
    Offsets = {}
    Unreadable = 65536
    Codes <- MCShortCodes
    JunkIdx = {0}
    IntBytes = 1
    MaxSteps = 8
    WordBytes = 2
    EvmBytes = 3
INVARIANTS
    LookupsSucceed
CHECK_DEADLOCK FALSE
