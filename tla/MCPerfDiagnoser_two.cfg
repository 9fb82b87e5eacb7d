SPECIFICATION Spec
CONSTANTS
    Targets <- MCTwoTargets
    Usage <- MCBusyOrIdle
    Threshold = 2
    ScanPeriod = 5
    OverflowDuration = 5
    LimitFileNum = 2
    MaxLaunches = 2
INVARIANT FinishedIsEmitted
CHECK_DEADLOCK FALSE
