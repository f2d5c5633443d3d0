CONSTANTS
    MAX_MONAD = 21
    MaxMonad = 6
    OffsetsEmptySets = FALSE
    Radix = 2
SPECIFICATION Spec
INVARIANTS
    RepresentationInv
    PairTestsCorrect
    SearchesCorrect
    GapsCorrect
    FillInsertKeepsMonads
    CompactStringsDecode
    FastSetsAgree
PROPERTY RefinesMonadSets
