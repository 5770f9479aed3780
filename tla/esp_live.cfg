SPECIFICATION LiveSpec
CONSTANTS
    Task = {t1, t2}
    uart = uart
    usb = usb
    Device = {uart}
    Consoles <- MCOneConsole
    MaxOutputs = 2
    MaxPayload = 1
    MaxParts = 1
    MaxChunks = 2
    MaxBatches = 2
    MaxAdds = 1
    DriverMayPrint = TRUE
    NoTask = NoTask
PROPERTIES CallsReturn
CHECK_DEADLOCK FALSE
