CONSTANTS
    Xs <- MCXs
    Malformed = Malformed
    GpioSupport = TRUE
    MaxRequests = 3
SPECIFICATION DispatchSpec
CHECK_DEADLOCK FALSE
INVARIANT PanFollowsDrag
