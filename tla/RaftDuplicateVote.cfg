\* Four founders; the network may deliver a Vote twice.
CONSTANTS
    n1 = n1  n2 = n2  n3 = n3  n4 = n4
    Node = {n1, n2, n3, n4}
    Founders = {n1, n2, n3, n4}
    NoAddr = NoAddr
    Leavers = {}
    Stoppers = {}
    MAX = 7
    MaxVersion = 1
    MaxInFlight = 9
    DupTypes = {"Vote"}
    CanBeLeader = {TRUE}
    NeedSync = {FALSE}
SPECIFICATION Spec
SYMMETRY Perms
CHECK_DEADLOCK FALSE
INVARIANTS
    ElectionSafety
