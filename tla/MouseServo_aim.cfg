CONSTANTS
    Xs <- MCXs
    Ys <- MCYs
    MaxRequests = 2
SPECIFICATION MouseSpec
CHECK_DEADLOCK FALSE
PROPERTIES PanImplementsAim TiltImplementsAim
