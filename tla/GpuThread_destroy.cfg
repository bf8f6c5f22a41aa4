SPECIFICATION Spec
CONSTANTS
    p1 = p1
    p2 = p2
    gpu = gpu
    NONE = NONE
    Producers = {p1, p2}
    Consumer = gpu
    Capacity = 2
    IndexSize = 4
    Budgets <- MCDestroyBudgets
PROPERTY DestructorEnds
CHECK_DEADLOCK FALSE
