SPECIFICATION Spec
CONSTANTS
    Task = {t1, t2}
    File = {out}
    Shared = {out}
    MaxParts = 1
    FrameMax = 1
    MaxDropped = 1
    MaxOpens = 2
    NoTask = NoTask
    NoFile = NoFile
INVARIANTS MetadataLeads
