\* Small buffers, pools, caches and blocks, so that every limit is met: data
\* blocks of two pairs under index blocks of four, which have middle entries.
SPECIFICATION PartSpec
CONSTANTS
    Byte = {0, 1}
    MaxSize = 4
    h1 = h1  h2 = h2  h3 = h3
    Handle = {h1, h2, h3}
    TotalSize = 8
    Holder = {h1, h2}
    Content = {0, 1}
    Capacity = 2
    MaxBlocks = 3
    Key = {1, 2, 3, 4, 5, 6, 7}
    Value = {0, 1}
    Pair = 8
    DataRoom = 16
    IndexRoom = 32
    HeadRoom = 1
    RecordRoom = 2
    MaxTotal = 8
    Descriptor = {1, 2, 3}
    Interest = {{}, {"Read"}, {"Read", "Write"}}
    Datum = {0, 1}
    ListNode = {1, 2, 3, 4}
    NoNode = 0
VIEW View
CHECK_DEADLOCK FALSE
INVARIANTS
    PointersAgree PoolSound CacheSound TreeSound SearchesExact MonitorsAgree ListsAgree
PROPERTIES
    KeepsTape KeepsOtherKeys
