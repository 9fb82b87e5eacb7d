SPECIFICATION FairSpec
CONSTANTS
    Targets <- MCOneTarget
    Usage <- MCUsage
    Threshold = 2
    ScanPeriod = 5
    OverflowDuration = 10
    LimitFileNum = 1
    MaxLaunches = 2
INVARIANTS TypeOK PerfStaysPolled FinishedIsEmitted CarriedOnce
           OverloadIsNoticed LossNeedsRace
PROPERTIES TriggerNeedsLoad TagsAreCleared StopReturns
\* The worker exits after Stop.
CHECK_DEADLOCK FALSE
