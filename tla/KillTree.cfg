SPECIFICATION Spec
CONSTANTS
    MaxPid = 5
    Root = 2
    MaxScans = 3
INVARIANTS
    QuietScanMissesNothing
    NobodyIsLeftSuspended
CHECK_DEADLOCK FALSE
