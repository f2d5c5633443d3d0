CONSTANTS
    Procs = {p1, p2}
    Writers = {p1, p2}
    Strings = {a}
    MaxStatements = 2
    MaxFaults = 0
SPECIFICATION FairSpec
PROPERTY StatementsReturn
CHECK_DEADLOCK FALSE
