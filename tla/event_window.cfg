SPECIFICATION FairSources
CONSTANTS
    Rules = {}
    Records = {d1}
    Workers = {w1}
    Requests = {}
    Offset = 1
    Interval = 1
    ScanInterval = 1
    Window = 1
    MaxTime = 0
    MaxItems = 2
    MaxVersion = 1
PROPERTIES
    ChangesBecomeEvents
CHECK_DEADLOCK FALSE
