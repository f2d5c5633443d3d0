CONSTANTS
    Procs = {p1}
    Writers = {p1}
    Strings = {a, b}
    MaxStatements = 3
    MaxFaults = 0
SPECIFICATION Spec
INVARIANT AssociationThere
CHECK_DEADLOCK FALSE
