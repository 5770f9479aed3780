SPECIFICATION Spec
CONSTANTS
    Task = {t1}
    uart = uart
    usb = usb
    Device = {uart, usb}
    Consoles <- MCOneConsole
    MaxOutputs = 2
    MaxPayload = 2
    MaxParts = 2
    MaxChunks = 2
    MaxBatches = 2
    MaxAdds = 1
    DriverMayPrint = TRUE
    NoTask = NoTask
INVARIANTS NoOutputTwice
