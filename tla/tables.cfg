SPECIFICATION Spec
CONSTANTS
    a1 = a1
    a2 = a2
    a3 = a3
    c1 = c1
    w1 = w1
    w2 = w2
    Nil = Nil
SYMMETRY Symmetry
INVARIANTS
    TableTypes
    
PROPERTIES
    ChangesLandWhereAsked
CHECK_DEADLOCK FALSE
