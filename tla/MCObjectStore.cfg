CONSTANTS
    Types = {word}
    MAX_MONAD = 9
    MIN_GAP = 1
    MaxMonad = 2
    MaxObjectId = 2
    MaxTypeId = 1
    MaxFaults = 1
SPECIFICATION Spec
INVARIANTS
    TablesHaveTypes
    CacheCoherent
    LargestObjectLengthBounds
    DerivedValuesBound
    ExtremesExact
    IdsUniqueInType
    QueriesExact
