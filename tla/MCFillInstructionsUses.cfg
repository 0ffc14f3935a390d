SPECIFICATION Spec
CONSTANTS
    Alphabet = {50, 80, 85, 91}
    MaxLength = 4
    Immediates = {}
    Operators = {}
    Unary = {}
    Codes <- MCByteStrings
    JunkIdx = {9}
    WordBytes = 1
    EvmBytes = 3
INVARIANTS
    UsedAtConsumers
CHECK_DEADLOCK FALSE
