SPECIFICATION PipelineSpec
CONSTANTS
    Task = {app, d1}
    Drain = {d1}
    Starter = {i1}
    Isr = {h1}
    Sink = {s1}
    Tag = {g1}
    MaxSinks = 1
    SeqMod = 3
    ChunkMax = 1
    MaxParts = 1
    BufferLen = {0}
    MaxTime = 0
    MaxOwed = 2
    Capacity = 2
    MaxCalls = 3
    MayCall <- MCLogCall
    NoTask = NoTask
    NoSink = NoSink
    None = None
INVARIANTS TrueMeansQueued

