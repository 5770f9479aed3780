SPECIFICATION Spec
CONSTANTS
    Batch = 5
    MaskBits = 8
    Call <- MCCall
    MaxStr = 3
    StrLen = {1, 4}
    Content <- MCContent
    PayloadMax = 23
    TransportMax = 24
    MaxFrames = 3
    MaxFaults = 1
    Null = Null
    Word = 65536
    IdMax = 8
    UuidLen = 4
    ShaLen = 8
    IdMod = 16
    MaxRanges = 2
    IsrMax = 4
    NoteSize <- MCNoteSize
    TextChar <- MCTextChar
INVARIANTS LengthIsRight CopyIsBounded LossIsLocal CrcAgrees ScanIsRight ReadAsPassed HandlerSendsTheSame ScanStaysInside ImageIsIdentified LossIsCounted TextIsRight
