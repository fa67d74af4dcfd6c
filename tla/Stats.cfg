CONSTANTS
    NR_TASKS = 4
    MAX_SEM = 1
    DEFAULT_QUANTUM = 2
    INT_MAX = 1
    SemValues <- MCSemValues
    MAX_TICKS = 2
SPECIFICATION StatsSpec
INVARIANTS CpuTimeIsCharged TicksAddUp BoundedWait
CHECK_DEADLOCK FALSE
