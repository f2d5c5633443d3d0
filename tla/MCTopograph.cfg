SPECIFICATION Spec
CONSTANTS
    MaxMonad = 6
    MaxObjects = 4
    Candidates <- MCCandidates
    IsMultiple = {"Phrase"}
    Queries <- MCQueries
    Substrates <- MCSubstrates
INVARIANTS
    NothingInvented
    NothingMissed
    FailsForNoMatch
    DeliveredInOrder
    RangesInOrder
