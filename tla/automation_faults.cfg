SPECIFICATION FairSpec
CONSTANTS
    Rules = {r1}
    ManualRules = {}
    Toggled = {}
    Events = {e1}
    WorkerLoops = {w1, w2}
    Callers = {}
    NActions = 2
    MaxRetries = 1
    MaxVersion = 1
    MaxAttempts = 2
    MaxFaults = 1
    Slow = TRUE
    NoRule = NoRule
    NoEvent = NoEvent
    NoExec = NoExec
INVARIANTS
    TypeOKEngine
    SucceededMeansDone
    ProcessedEventsRan
PROPERTIES
    EventsDispatched
CHECK_DEADLOCK FALSE
