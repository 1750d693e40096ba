CONSTANTS
    Handlers = {h1, h2}
    Counts = {1, 2}
    MaxBlinks = 3
SPECIFICATION BlinkSpec
INVARIANT LedOffWhenIdle
CHECK_DEADLOCK FALSE
