CONSTANTS
    MaxCommands = 2
    MaxDepth = 2
SPECIFICATION Spec
PROPERTY OwnerEndsItsTransaction
