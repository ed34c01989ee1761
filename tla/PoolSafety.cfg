SPECIFICATION PartSpec
CONSTANTS
    w1 = w1  w2 = w2  w3 = w3  c1 = c1  c2 = c2
    Worker = {w1, w2, w3}
    Client = {c1, c2}
    Owner = Owner
    None = None
    Threads = 2
    MaxTasks = 1
    Sizes = {0, 1, 2}
    Ops = {"stop", "start", "clear", "resize", "steal", "queue", "shutdown"}
    MaxOps = 3
    Patient = FALSE
    maker = maker  guest = guest
    Pooled = {w1, w2, w3}
    Caller = {maker, guest}
    Builder = maker
    Job = {c1, c2}
    FirstThreads = 1
    Resizes = {1, 2}
    MaxJobs = 1
    MaxQueues = {2}
    MaxCalls = 2
    ExitCap = 3
    Exit = Exit
    t1 = t1  t2 = t2
    Thread = {t1, t2}
    Event = {c1, c2}
    NoEvent = NoEvent
    Interval = {1, 2}
    Uses = {"reset", "cancel", "shutdown"}
    MaxRuns = 2
    User = {w1, w2, w3}
    Nobody = Nobody
    MaxDepth = 3
SYMMETRY Symmetric
INVARIANTS PoolExact LinkedPoolExact TimerExact OwnerAgrees
CHECK_DEADLOCK FALSE
