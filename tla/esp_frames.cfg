SPECIFICATION Spec
CONSTANTS
    Task = {t1, t2}
    uart = uart
    usb = usb
    Device = {uart, usb}
    Consoles <- MCOneConsole
    MaxOutputs = 2
    MaxPayload = 2
    MaxParts = 2
    MaxChunks = 2
    MaxBatches = 2
    MaxAdds = 1
    DriverMayPrint = TRUE
    NoTask = NoTask
SYMMETRY MCSymmetry
INVARIANTS TypeOK FrameHoldsOnePacket NoSelfDeadlock
PROPERTIES FramesAreWhole
CHECK_DEADLOCK FALSE
