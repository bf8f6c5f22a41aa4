SPECIFICATION Spec
CONSTANTS
    Threads = {t1, t2, t3, t4}
    Addresses = {1, 2}
    Priorities = {1, 2}
    Values = {0, 3}
    Counts = {0, 2}
    SignBit = 4
    MaxCalls = 4
    MaxChanges = 1
    NONE = NONE
SYMMETRY Symmetry
INVARIANT NoSleepPastSignal
PROPERTIES BestWaitersFirst ModifyTellsWaiters
CHECK_DEADLOCK FALSE
