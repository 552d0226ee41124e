SPECIFICATION Spec
CONSTANTS
    a = a
    b = b
    c = c
    r1 = r1
    r2 = r2
    Keys = {a, b, c}
    Requests = {r1, r2}
    Wants <- MCWants
    Sub = 2
INVARIANTS
    ReadableIsLoaded
    RetrieveExact
    MarksSpent
CHECK_DEADLOCK FALSE
PROPERTIES
    ResultsPopped
