SPECIFICATION Spec
CONSTANTS
    Requests = {r1}
    Groups = 2
    Workers = {w1, w2}
INVARIANTS
    SuccessIsReal
    
PROPERTIES
    ReleaseReturns
