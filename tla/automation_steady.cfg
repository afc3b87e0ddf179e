SPECIFICATION FairSpec
CONSTANTS
    Rules = {r1, r2}
    ManualRules = {}
    Toggled = {r2}
    Events = {e1}
    WorkerLoops = {w1, w2}
    Callers = {c1}
    NActions = 2
    MaxRetries = 1
    MaxVersion = 2
    MaxAttempts = 2
    MaxFaults = 0
    Slow = FALSE
    NoRule = NoRule
    NoEvent = NoEvent
    NoExec = NoExec

    
PROPERTIES
    
    ExecutionsFinish
CHECK_DEADLOCK FALSE
