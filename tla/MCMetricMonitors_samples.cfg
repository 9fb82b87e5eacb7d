SPECIFICATION Spec
CONSTANTS
    Devices <- MCDevices
    Hidden = {"loop0", "lo"}
    Wide = 16
    Narrow = 4
    Starts = {15}
    MaxSteps = 4
INVARIANT TypeOK
PROPERTIES RateIsExact PctIsOfInterval
