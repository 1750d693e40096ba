CONSTANTS
    Handlers = {h1}
    Counts = {1, 2}
    MaxBlinks = 3
SPECIFICATION BlinkSpec
INVARIANT OneBlinkSequence
CHECK_DEADLOCK FALSE
