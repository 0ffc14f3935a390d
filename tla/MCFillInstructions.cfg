SPECIFICATION Spec
CONSTANTS
    Alphabet = {21, 50, 85, 91, 96, 128, 129, 145}
    MaxLength = 5
    Immediates = {0, 3, 127, 128, 255}
    Operators = {1, 2, 3, 4, 5, 6, 17, 20, 22, 24}
    Unary = {21, 25}
    Codes <- MCCodes
    JunkIdx = {0, 1}
    WordBytes = 1
    EvmBytes = 3
INVARIANTS
    SymbolTableIsSound
    FoldedAsEVM
    ReadBack
PROPERTIES
    SimulatesStack
CHECK_DEADLOCK FALSE
