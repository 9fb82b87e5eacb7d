SPECIFICATION FairSpec
CONSTANTS
    Configs <- MCSameType
    LimitFileNum = 2
    MaxLaunches = 4
    MaxForkFails = 1
INVARIANTS TypeOK OneToolPerEntry ChildrenStayPolled ReportedOnce
           ReportedFileExists ReportedFilesBounded
PROPERTIES ZombiesAreReaped RoundsGoOn
\* The worker exits after Stop.
CHECK_DEADLOCK FALSE
