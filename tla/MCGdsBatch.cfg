SPECIFICATION BatchSpec
CONSTANTS
    Lookups = {l1, l2}
    Maps = {m1}
    Gathers = {g1}
    Workers = {w1, w2}
    Keys = 2
INVARIANT NoObjectLost
 
CHECK_DEADLOCK FALSE
