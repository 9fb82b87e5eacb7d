SPECIFICATION Spec
CONSTANTS
    Configs <- MCTwoTypes
    LimitFileNum = 1
    MaxLaunches = 4
    MaxForkFails = 0
INVARIANT ToolsComplete
CHECK_DEADLOCK FALSE
