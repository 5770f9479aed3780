SPECIFICATION PipelineLiveSpec
CONSTANTS
    Task = {app, d1, d2}
    Drain = {d1, d2}
    Starter = {i1, i2}
    Isr = {h1}
    Sink = {s1}
    Tag = {g1}
    MaxSinks = 1
    SeqMod = 2
    ChunkMax = 1
    MaxParts = 0
    BufferLen = {0}
    MaxTime = 0
    MaxOwed = 1
    Capacity = 2
    MaxCalls = 3
    MayCall <- MCQuietCall
    NoTask = NoTask
    NoSink = NoSink
    None = None
INVARIANTS RingsAreDrained
PROPERTIES QueuedIsDispatched DrainedInOrder
