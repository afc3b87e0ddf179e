SPECIFICATION Spec
CONSTANTS
    Nil = Nil
INVARIANTS
    AnswerTypes
    ReadersGetTheirRows
    
    
    PlansComeOutAsMeant
PROPERTIES
    FreshDiagnosesHold
CHECK_DEADLOCK FALSE
