\* Users of the nodes as the README has them: an ID names one node, and a logger
\* is kept until its children are created or timed out.
SPECIFICATION PartSpec
CONSTANTS
    id1 = id1  id2 = id2  id3 = id3  f1 = f1  f2 = f2  f3 = f3
    Id = {id1, id2, id3}
    Heads = {id1}
    Kinds = {"Fork", "Follow", "Decision", "RpcFork"}
    Flag = {f1, f2, f3}
    Buffers = 1
    None = None
    Dangling = Dangling
    Unique = TRUE
    Nested = TRUE
    s1 = s1
    Slot = {s1}
    MaxEvents = 5
    SlotRoom = 1
    Blocks = 2
    OutRoom = 3
    MaxLinks = 2
    MaxTimeouts = 1
    logA = logA  logB = logB
    Log = {logA, logB}
    MaxRecords = 2
    BufferRoom = 1
    PoolBuffers = 2
INVARIANTS NoFault RecordsKept StreamWhole RecordsFiled
PROPERTIES RegisteredSettles LogsReachFile RecordsReachFile
CHECK_DEADLOCK FALSE
