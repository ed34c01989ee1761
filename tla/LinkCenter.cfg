SPECIFICATION Spec
CONSTANTS
    n1 = n1
    n2 = n2
    Node = {n1, n2}
    ServiceOf <- Services
    Time = {1, 2}
    LogLimit = 2
    Server = {s1}
    MaxRecords = 5
    MaxPairs = 3
INVARIANTS
    TimersMatch
    PairsAgree
    ReplayExact
    QueryExact
PROPERTIES
    ChecksSettle
CHECK_DEADLOCK FALSE
