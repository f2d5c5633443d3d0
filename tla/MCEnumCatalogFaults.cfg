CONSTANTS
    Enums = {psp_t}
    MaxName = 2
    MaxValue = 1
    MaxEnumId = 2
    MaxChanges = 1
    MaxFaults = 1
SPECIFICATION Spec
INVARIANTS
    CacheCoherent
    LookupsExact
    EnumerationsSound
