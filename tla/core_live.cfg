SPECIFICATION LiveSpec
CONSTANTS
    t1 = t1
    t2 = t2
    Task = {t1, t2}
    Sink = {s1}
    Tag = {g1, g2}
    MaxSinks = 1
    SeqMod = 2
    ChunkMax = 2
    MaxParts = 0
    BufferLen = {0, 5}
    MaxTime = 0
    MaxOwed = 1
    MayCall <- MCLiveCall
    NoTask = NoTask
    NoSink = NoSink
    None = None
PROPERTIES LockIsReleased BufferChunksContiguous
