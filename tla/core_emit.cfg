SPECIFICATION Spec
CONSTANTS
    t1 = t1
    t2 = t2
    Task = {t1, t2}
    Sink = {s1, s2}
    Tag = {g1}
    MaxSinks = 2
    SeqMod = 3
    ChunkMax = 2
    MaxParts = 1
    BufferLen = {0}
    MaxTime = 1
    MaxOwed = 2
    MayCall <- MCAnyCall
    NoTask = NoTask
    NoSink = NoSink
    None = None
SYMMETRY MCSymmetry
INVARIANTS TypeOK EmissionInv NoSinkTwice DropsConserved
PROPERTIES WholePackets NoGapInSequence TimestampsInWireOrder DeliveryIsAtomic
