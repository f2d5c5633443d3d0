CONSTANTS
    MaxCommands = 3
    MaxDepth = 2
SPECIFICATION Spec
INVARIANTS
    ProtocolInv
    Durable
    NothingUndoneIsStored
    TransactionDiscipline
