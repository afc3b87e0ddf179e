SPECIFICATION Spec
CONSTANTS
    a1 = a1
    a2 = a2
    a3 = a3
    b1 = b1
    b2 = b2
    c1 = c1
    c2 = c2
    w1 = w1
    w2 = w2
    Nil = Nil
SYMMETRY Symmetry
INVARIANTS
    TeamworkTypes
    OnceEach
    BatchesMissNothing
    
PROPERTIES
    NothingComesBack
CHECK_DEADLOCK FALSE
