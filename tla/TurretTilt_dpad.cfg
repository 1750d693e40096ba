CONSTANTS
    Ys <- MCYs
    MaxRequests = 3
SPECIFICATION TiltSpec
CHECK_DEADLOCK FALSE
INVARIANT DpadTiltPersists
