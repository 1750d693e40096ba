CONSTANTS
    Readers = {r1}
    FrameIds = {f1, f2, f3}
    None = None
    Threshold = 10
SPECIFICATION CaptureSpec
PROPERTIES ReopenOnlyAfterFailureRun CaptureRecovers
