CONSTANTS
    Clients = {c1, c2}
    Vectors = {Zero, Fwd}
    Zero = Zero
    Readings = {d1, ERR}
    ErrorReading = ERR
    NA = NA
    SendsGarbage = TRUE
    MaxRequests = 2
    MaxLines = 2
SPECIFICATION TankLinkSpec
CHECK_DEADLOCK FALSE
INVARIANT DrainStops
