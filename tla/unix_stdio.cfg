SPECIFICATION LiveSpec
CONSTANTS
    Task = {t1, t2}
    File = {out, err}
    Shared = {out}
    MaxParts = 1
    FrameMax = 1
    MaxDropped = 1
    MaxOpens = 2
    NoTask = NoTask
    NoFile = NoFile
INVARIANTS TypeOK OkMeansInstalled NoStreamLeaks
PROPERTIES LinesAreWhole CallsReturn
