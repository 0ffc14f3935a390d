CONSTANTS
    Node = {0, 1, 2, 3}
    MaxEdges = 4
    MaxQueries = 0
SPECIFICATION Spec
INVARIANTS
    DeniedIsUnreachable
CHECK_DEADLOCK FALSE
