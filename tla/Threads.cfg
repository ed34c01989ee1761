SPECIFICATION PartSpec
CONSTANTS
    w1 = w1  w2 = w2  c1 = c1  c2 = c2
    Worker = {w1, w2}
    Client = {c1, c2}
    Owner = Owner
    None = None
    Threads = 1
    MaxTasks = 1
    Sizes = {1, 2}
    Ops = {"resize", "steal", "queue", "shutdown"}
    MaxOps = 2
    Patient = TRUE
    t1 = t1  t2 = t2  e1 = e1
    Thread = {t1, t2}
    Event = {e1}
    NoEvent = NoEvent
    Interval = {1, 2}
    Uses = {"reset", "cancel", "shutdown"}
    MaxRuns = 2
    d1 = d1  d2 = d2
    Conn = {d1, d2}
    NoConn = NoConn
    MaxCalls = 1
INVARIANTS QuietAtClose ReactorAgrees ClosedOnce
PROPERTIES PoolServes ThreadStops ReactorServes
CHECK_DEADLOCK FALSE
