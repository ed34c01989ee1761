SPECIFICATION FairSpec
CONSTANTS
    w1 = w1  w2 = w2  w3 = w3  c1 = c1  c2 = c2
    Worker = {w1, w2, w3}
    Client = {c1}
    Owner = Owner
    None = None
    Threads = 1
    MaxTasks = 1
    Sizes = {1, 2}
    Ops = {"shutdown"}
    MaxOps = 1
    Patient = TRUE
PROPERTY ShutdownReturns
CHECK_DEADLOCK FALSE
