CONSTANTS
    NR_TASKS = 4
    MAX_SEM = 1
    DEFAULT_QUANTUM = 2
    INT_MAX = 1
    SemValues <- MCSemValues
SPECIFICATION Spec
PROPERTY YieldIsSafe
CHECK_DEADLOCK FALSE
