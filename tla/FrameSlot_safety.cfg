CONSTANTS
    Readers = {r1, r2}
    FrameIds = {f1, f2, f3, f4}
    None = None
SPECIFICATION Spec
PROPERTIES DeliversNewFrame ClientGoneThreadEnds
