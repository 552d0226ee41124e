SPECIFICATION Spec
CONSTANTS
    Tasks = {t1, t2, t3}
    Width = 2
    Slots = 2
    TaskWorkers = 2
INVARIANT AllAnswered
INVARIANT OneByOne
INVARIANT NoUseAfterClose
PROPERTY TasksEnd
 
CHECK_DEADLOCK FALSE
