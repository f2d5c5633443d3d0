CONSTANTS
    Enums = {psp_t}
    MaxName = 2
    MaxValue = 2
    MaxEnumId = 1
    MaxChanges = 2
    MaxFaults = 0
SPECIFICATION Spec
INVARIANTS
    CacheCoherent
    LookupsExact
    AssertionsHold
    EnumerationsSound
