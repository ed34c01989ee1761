\* Liveness, so no symmetry; see MCRaftLive for the beginning.
CONSTANTS
    n1 = n1  n2 = n2  n3 = n3
    Node = {n1, n2, n3}
    Founders = {n1, n2}
    NoAddr = NoAddr
    First = n1
    Leavers = {n2}
    Stoppers = {}
    MAX = 7
    MaxVersion = 2
    MaxInFlight = 2
    DupTypes = {}
    CanBeLeader = {TRUE}
    NeedSync = {FALSE}
SPECIFICATION LiveSpec
CHECK_DEADLOCK FALSE
INVARIANTS
    JoinedIsKnown
PROPERTIES
    LoopsEnd
    OldLeaderYields
