CONSTANTS
    NR_TASKS = 4
    MAX_SEM = 2
    DEFAULT_QUANTUM = 2
    INT_MAX = 1
    SemValues <- MCSemValues
SPECIFICATION FairSpec
INVARIANTS TypeOK OneQueue NoTaskLost CounterCountsWaiters DestroyedIsPending
    WaitersKeepTheirStack ListsSound IdleRunsLast
PROPERTIES NoOvertaking ImplementsSemaphores ReadyTaskRuns DestroyedWaitReturns
CHECK_DEADLOCK FALSE
