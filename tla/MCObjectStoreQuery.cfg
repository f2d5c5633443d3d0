CONSTANTS
    Types = {word}
    MAX_MONAD = 9
    MIN_GAP = 1
    MaxMonad = 5
    MaxObjectId = 2
    MaxTypeId = 1
    MaxFaults = 0
SPECIFICATION QuerySpec
INVARIANTS
    QueriesExact
    StretchesDisjoint
