SPECIFICATION Spec
CONSTANTS
    p1 = p1
    p2 = p2
    gpu = gpu
    NONE = NONE
    Producers = {p1, p2}
    Consumer = gpu
    Capacity = 1
    IndexSize = 4
    Budgets <- MCSyncBudgets
PROPERTY CallsReturn
CHECK_DEADLOCK FALSE
