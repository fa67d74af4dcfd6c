CONSTANTS
    NR_TASKS = 4
    MAX_SEM = 1
    DEFAULT_QUANTUM = 1
    INT_MAX = 1
    SemValues <- MCSemValues
    TOTAL_PAGES = 13
    NUM_PAG_KERNEL = 2
    NUM_PAG_CODE = 1
    NUM_PAG_DATA = 2
    GuardPages <- MCGuardPages
    MAX_PID = 1002
    Calls <- CallsDisciplined
SPECIFICATION KSpec
INVARIANTS NoLeak SpacesAreProcesses StacksDisjoint
PROPERTY FaultsOnlyWithoutFrames
CHECK_DEADLOCK FALSE
