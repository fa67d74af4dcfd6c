CONSTANTS
    NR_TASKS = 4
    MAX_SEM = 1
    DEFAULT_QUANTUM = 1
    INT_MAX = 1
    SemValues <- MCSemValues
    TOTAL_PAGES = 9
    NUM_PAG_KERNEL = 2
    NUM_PAG_CODE = 1
    NUM_PAG_DATA = 1
    GuardPages <- MCGuardPages
    MAX_PID = 1001
    Calls <- CallsAll
SPECIFICATION KSpec
INVARIANTS NoFrameTwice MappedIsUsed CodeIsKept
CHECK_DEADLOCK FALSE
