CONSTANTS
    Procs = {p1, p2}
    Writers = {p1, p2}
    Strings = {a, b}
    MaxStatements = 4
    MaxFaults = 1
SPECIFICATION FairSpec
INVARIANTS
    LocksSound
    CachedPairsStored
    ValuesExact
    ReadsOwnWrites
    EqualityExact
    DuplicatesNeedNoTransaction
PROPERTY StatementsReturnOrBlock
CHECK_DEADLOCK FALSE
