SPECIFICATION Spec
CONSTANTS
    BlockCount = 5
    Kinds = {}
    ReturnBlocks = {3}
    Sizes = {}
    Offsets = {0, 12, 256}
    Unreadable = 65536
    Codes <- MCSubroutine
    JunkIdx = {0}
    IntBytes = 1
    MaxSteps = 24
    WordBytes = 2
    EvmBytes = 3
INVARIANTS
    ExecutedIsReached
CHECK_DEADLOCK FALSE
