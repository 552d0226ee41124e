SPECIFICATION PoolSpec
CONSTANTS
    Requests = {r1, r2}
    Size = 2
    Workers = {w1, w2}
    Stall = 1
    MaxInflight = 6
PROPERTIES
    NoQueueBehindWedge
    
    
CHECK_DEADLOCK FALSE
