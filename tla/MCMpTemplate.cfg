CONSTANTS
    Texts = {1, 3}
    Values = {0, 1, 2}
    memblock = 2
    MaxDepth = 3
    MaxOut = 3
SPECIFICATION Spec
INVARIANTS
    TypeOK
    FlagMeansVisible
    IdleIsClean
    BufferFits
PROPERTY ImplementsScopes
CHECK_DEADLOCK FALSE
