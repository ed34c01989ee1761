\* Three founders over a network that loses and reorders; the application may
\* refuse a candidate, and owners may stop and restart any instance.
CONSTANTS
    n1 = n1  n2 = n2  n3 = n3
    Node = {n1, n2, n3}
    Founders = {n1, n2, n3}
    NoAddr = NoAddr
    Leavers = {}
    Stoppers = {n1, n2, n3}
    MAX = 7
    MaxVersion = 2
    MaxInFlight = 3
    DupTypes = {}
    CanBeLeader = {TRUE, FALSE}
    NeedSync = {TRUE}
SPECIFICATION Spec
SYMMETRY Perms
CHECK_DEADLOCK FALSE
INVARIANTS
    TypeOK ElectionSafety VoteOnce VotesAreGrants
PROPERTIES
    RoleSteps
