SPECIFICATION Spec
CONSTANTS
    Keys = {k1}
    Tasks = {t1, t2, t3}
    N = 2
SYMMETRY Symmetry
INVARIANTS
    
    LockedSurvives
    
    ResultDue
PROPERTIES
    NeverGarbage
CHECK_DEADLOCK FALSE
