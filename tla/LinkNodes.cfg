\* Any user: IDs used twice, parents closed early.
SPECIFICATION Spec
CONSTANTS
    id1 = id1  id2 = id2  id3 = id3  f1 = f1  f2 = f2  f3 = f3
    Id = {id1, id2, id3}
    Heads = {id1, id2}
    Kinds = {"Follow", "Decision", "RpcFork"}
    Flag = {f1, f2, f3}
    Buffers = 2
    None = None
    Dangling = Dangling
    Unique = FALSE
    Nested = FALSE
SYMMETRY Symmetric
CHECK_DEADLOCK FALSE
INVARIANT TableAgrees
