SPECIFICATION Spec
CONSTANTS
    Keys = {k1}
    Tasks = {t1, t2}
    N = 2
PROPERTY DeleteSparesLocked
CHECK_DEADLOCK FALSE
