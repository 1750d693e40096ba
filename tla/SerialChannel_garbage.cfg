CONSTANTS
    Cmds = {W, X}
    Stop = X
    Readings = {d1, ERR}
    ErrorReading = ERR
    NA = NA
    MaxWire = 3
    MaxLines = 3
    SendsGarbage = TRUE
SPECIFICATION SerialSpec
CHECK_DEADLOCK FALSE
PROPERTIES TelemetryKeepsFlowing
