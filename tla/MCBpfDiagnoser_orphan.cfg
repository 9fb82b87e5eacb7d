SPECIFICATION Spec
CONSTANTS
    Configs <- MCOneEntry
    LimitFileNum = 1
    MaxLaunches = 4
    MaxForkFails = 0
INVARIANT ChildrenDieWithParent
CHECK_DEADLOCK FALSE
