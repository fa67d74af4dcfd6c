------------------------------- MODULE Sched -------------------------------
(***************************************************************************)
(* The ZeOS scheduler and its semaphores (zeos/sched.c, the process part   *)
(* of zeos/sys.c, zeos/interrupt.c).                                       *)
(*                                                                         *)
(* There is one CPU and the kernel is not preemptive: sysenter and the     *)
(* interrupt gates clear IF, and only user code and cpu_idle run with      *)
(* interrupts enabled.  A system call or a clock interrupt is therefore    *)
(* one step, with a single exception: sys_sem_wait switches to another     *)
(* task half way through and resumes, much later, on its own kernel stack. *)
(* Its second half is a step of its own (SemWaitReturn), and "in_wait" is  *)
(* the set of tasks whose kernel stack is suspended inside sys_sem_wait.   *)
(*                                                                         *)
(* Frames and page tables are in module Kernel; here the result of an      *)
(* allocation is a nondeterministic choice.                                *)
(*                                                                         *)
(* A call that returns an error before changing anything (no free task     *)
(* struct, a semaphore number that valid_sem rejects, a stack page that    *)
(* dealloc_k refuses) is a stuttering step and has no action.              *)
(***************************************************************************)
EXTENDS Integers, Sequences, FiniteSets, Functions

CONSTANTS
    NR_TASKS,         \* size of the task array (sched.h)
    MAX_SEM,          \* size of list_sem (sys.c)
    DEFAULT_QUANTUM,  \* ticks of a quantum (sched.c)
    INT_MAX,          \* largest int, 2^31 - 1 in the program
    SemValues         \* the unsigned values that programs give to sem_init

ASSUME SizesAssumption ==
    /\ NR_TASKS \in Nat /\ NR_TASKS >= 2
    /\ MAX_SEM \in Nat \ {0}
    /\ DEFAULT_QUANTUM \in Nat \ {0}
    /\ INT_MAX \in Nat \ {0}

ASSUME SemValuesAssumption == SemValues \subseteq 0 .. (2 * INT_MAX + 1)

Tasks == 0 .. NR_TASKS - 1
idle_task == 0                  \* the slot init_idle takes
init_task == 1                  \* the slot init_task1 takes
Sems == 0 .. MAX_SEM - 1
SemArgs == -1 .. MAX_SEM        \* every valid semaphore number and both sides of it

ST_RUN == "run"
ST_READY == "ready"
States == {ST_RUN, ST_READY}    \* ST_BLOCKED is set by update_process_state_rr only, for a
                                \* destination queue that no caller passes
VARIABLES
    freequeue,          \* free task_structs
    readyqueue,         \* ready task_structs
    current,            \* the task whose kernel stack is in use
    remaining_quantum,  \* ticks left to current
    state,              \* task[t].state
    destroyed,          \* task[t].destroyed
    saved_esp,          \* tasks whose register_esp has been given a value
    in_wait,            \* tasks suspended inside sys_sem_wait
    isInit,             \* list_sem[s].isInit
    counter,            \* list_sem[s].counter
    blocked,            \* list_sem[s].blocked
    fault               \* why the kernel can no longer be followed, or "none"

tvars == <<state, destroyed, saved_esp>>
svars == <<isInit, counter, blocked>>
vars == <<freequeue, readyqueue, current, remaining_quantum, state, destroyed,
          saved_esp, in_wait, isInit, counter, blocked, fault>>

(***************************************************************************)
(* "list": list_del on a node that is on no list, whose pointers are NULL, *)
(* or on the head of an empty list.  "stack": switch_stack loaded an esp   *)
(* that names no saved frame.  "page": an access to an unmapped page.      *)
(* Nothing meaningful runs after any of them.                              *)
(***************************************************************************)
Faults == {"none", "list", "stack", "page"}

(***************************************************************************)
(* The state in which main() of system.c leaves for user mode: idle and    *)
(* init have taken the first two free slots.                               *)
(***************************************************************************)
Init ==
    /\ freequeue = [i \in 1 .. NR_TASKS - 2 |-> i + 1]
    /\ readyqueue = <<>>
    /\ current = init_task
    /\ remaining_quantum = DEFAULT_QUANTUM
    /\ state = [t \in Tasks |-> ST_RUN]
    /\ destroyed = [t \in Tasks |-> 0]
    /\ saved_esp = {idle_task}
    /\ in_wait = {}
    /\ isInit = [s \in Sems |-> FALSE]
    /\ counter = [s \in Sems |-> 0]
    /\ blocked = [s \in Sems |-> <<>>]
    /\ fault = "none"

Running == fault = "none"
InUserMode == Running /\ current \notin in_wait
CanCall == InUserMode /\ current # idle_task    \* cpu_idle makes no system calls

-----------------------------------------------------------------------------
(* Dispatching *)

(* The task sched_next_rr chooses from the ready queue rq, and what it leaves there. *)
Chosen(rq) == IF rq = <<>> THEN idle_task ELSE Head(rq)
Rest(rq) == IF rq = <<>> THEN <<>> ELSE Tail(rq)

(***************************************************************************)
(* task_switch to t.  inner_task_switch evaluates t's register_esp before  *)
(* switch_stack overwrites current's: a task that switches to itself       *)
(* resumes at the esp of its PREVIOUS switch.  If it has none the kernel   *)
(* pops from address 0; if it has one, whether the frame there is still    *)
(* good depends on how deep that switch was.                               *)
(***************************************************************************)
task_switch(t) ==
    \/ /\ t # current \/ current \in saved_esp
       /\ current' = t
       /\ saved_esp' = saved_esp \cup {current}
       /\ UNCHANGED fault
    \/ /\ t = current
       /\ fault' = "stack"
       /\ UNCHANGED <<current, saved_esp>>

(* Mutant of sched_next_rr: the new task is not marked ST_RUN. *)
sched_next_rr_NotRun(rq, st) ==
    /\ readyqueue' = Rest(rq)
    /\ state' = st
    /\ remaining_quantum' = DEFAULT_QUANTUM
    /\ task_switch(Chosen(rq))

(* Mutant: a queue of one entry is taken for an empty one. *)
sched_next_rr_LeavesLast(rq, st) ==
    LET next == IF Len(rq) > 1 THEN Head(rq) ELSE idle_task
    IN  /\ readyqueue' = IF Len(rq) > 1 THEN Tail(rq) ELSE rq
        /\ state' = [st EXCEPT ![next] = ST_RUN]
        /\ remaining_quantum' = DEFAULT_QUANTUM
        /\ task_switch(next)

(* sched_next_rr, called when the ready queue is rq and the states are st. *)
sched_next_rr(rq, st) ==
    /\ readyqueue' = Rest(rq)
    /\ state' = [st EXCEPT ![Chosen(rq)] = ST_RUN]
    /\ remaining_quantum' = DEFAULT_QUANTUM
    /\ task_switch(Chosen(rq))

(* update_process_state_rr(current(), &readyqueue) followed by sched_next_rr.  A task that
   is not ST_RUN is unlinked first, and current's own list node is on no list. *)
force_task_switch ==
    \/ /\ state[current] = ST_RUN
       /\ sched_next_rr(Append(readyqueue, current), [state EXCEPT ![current] = ST_READY])
    \/ /\ state[current] # ST_RUN
       /\ fault' = "list"
       /\ UNCHANGED <<readyqueue, current, remaining_quantum, state, saved_esp>>

(* Mutants of the tick: the quantum of a task that runs alone is not renewed; a task whose
   quantum is over gets another one even when others are ready. *)
ClockTick_NoRenewal ==
    /\ InUserMode
    /\ IF remaining_quantum = 1 /\ readyqueue # <<>>
       THEN force_task_switch
       ELSE /\ remaining_quantum' = remaining_quantum - 1
            /\ UNCHANGED <<readyqueue, current, state, saved_esp, fault>>
    /\ UNCHANGED <<freequeue, destroyed, in_wait, svars>>

ClockTick_NoPreemption ==
    /\ InUserMode
    /\ remaining_quantum' =
            IF remaining_quantum = 1 THEN DEFAULT_QUANTUM ELSE remaining_quantum - 1
    /\ UNCHANGED <<readyqueue, current, state, saved_esp, fault>>
    /\ UNCHANGED <<freequeue, destroyed, in_wait, svars>>

(* clock_routine: schedule() on every tick, in user mode or in cpu_idle. *)
ClockTick ==
    /\ InUserMode
    /\ IF remaining_quantum = 1 /\ readyqueue # <<>>
       THEN force_task_switch
       ELSE /\ remaining_quantum' =
                 IF remaining_quantum = 1 THEN DEFAULT_QUANTUM ELSE remaining_quantum - 1
            /\ UNCHANGED <<readyqueue, current, state, saved_esp, fault>>
    /\ UNCHANGED <<freequeue, destroyed, in_wait, svars>>

sys_yield ==
    /\ CanCall
    /\ force_task_switch
    /\ UNCHANGED <<freequeue, destroyed, in_wait, svars>>

-----------------------------------------------------------------------------
(* Processes and threads *)

(* copy_data(current(), uchild, sizeof(union task_union)) into slot u, whose state is
   then set to st. *)
CopyTaskStruct(u, st) ==
    /\ state' = [state EXCEPT ![u] = st]
    /\ destroyed' = [destroyed EXCEPT ![u] = destroyed[current]]

(* The first free slot becomes a copy of current and joins the ready queue, with a
   register_esp prepared by its creator. *)
StartChild ==
    /\ CanCall
    /\ freequeue # <<>>
    /\ freequeue' = Tail(freequeue)
    /\ CopyTaskStruct(Head(freequeue), ST_READY)
    /\ saved_esp' = saved_esp \cup {Head(freequeue)}
    /\ readyqueue' = Append(readyqueue, Head(freequeue))
    /\ UNCHANGED <<current, remaining_quantum, in_wait, svars, fault>>

(* Mutant of the -EAGAIN path: the slot is not put back. *)
ForkNoFrame_SlotLost ==
    /\ CanCall
    /\ freequeue # <<>>
    /\ freequeue' = Tail(freequeue)
    /\ CopyTaskStruct(Head(freequeue), state[current])
    /\ UNCHANGED <<readyqueue, current, remaining_quantum, saved_esp, in_wait, svars, fault>>

(* sys_fork runs out of frames: -EAGAIN.  The slot goes to the other end of the free
   queue, and it has been overwritten with a copy of the caller. *)
ForkNoFrame ==
    /\ CanCall
    /\ freequeue # <<>>
    /\ freequeue' = Append(Tail(freequeue), Head(freequeue))
    /\ CopyTaskStruct(Head(freequeue), state[current])
    /\ saved_esp' = IF current \in saved_esp THEN saved_esp \cup {Head(freequeue)}
                                             ELSE saved_esp \ {Head(freequeue)}
    /\ UNCHANGED <<readyqueue, current, remaining_quantum, in_wait, svars, fault>>

(* The kernel itself touches an unmapped page while it makes the new task: sys_createthread
   does not test the result of alloc_k and uses -ENOMEM as the address of the user stack, which
   reaches page 0, unmapped in init; sys_fork copies the DATA pages of its caller, which the
   exit of another thread has unmapped. *)
NewTaskFaults ==
    /\ CanCall
    /\ freequeue # <<>>
    /\ freequeue' = Tail(freequeue)
    /\ CopyTaskStruct(Head(freequeue), state[current])
    /\ fault' = "page"
    /\ UNCHANGED <<readyqueue, current, remaining_quantum, saved_esp, in_wait, svars>>

sys_fork == StartChild \/ ForkNoFrame \/ NewTaskFaults
sys_createthread == StartChild \/ NewTaskFaults

(* Mutant of exit: it yields, so the freed slot stays in the ready queue. *)
LeaveForGood_Yields ==
    /\ CanCall
    /\ freequeue' = Append(freequeue, current)
    /\ force_task_switch
    /\ UNCHANGED <<destroyed, in_wait, svars>>

(* sys_exit, and sys_terminatethread once dealloc_k has accepted the stack page. *)
LeaveForGood ==
    /\ CanCall
    /\ freequeue' = Append(freequeue, current)
    /\ sched_next_rr(readyqueue, state)
    /\ UNCHANGED <<destroyed, in_wait, svars>>

sys_exit == LeaveForGood
sys_terminatethread == LeaveForGood

-----------------------------------------------------------------------------
(* Semaphores *)

(* valid_sem *)
valid_sem(n, isNew) == n \in Sems /\ isInit[n] = ~isNew

(* The int that an unsigned value becomes. *)
AsInt(v) == IF v <= INT_MAX THEN v ELSE v - 2 * INT_MAX - 2

sys_sem_init(n, value) ==
    /\ valid_sem(n, TRUE)
    /\ counter' = [counter EXCEPT ![n] = AsInt(value)]
    /\ blocked' = [blocked EXCEPT ![n] = <<>>]
    /\ isInit' = [isInit EXCEPT ![n] = TRUE]
    /\ UNCHANGED <<freequeue, readyqueue, current, remaining_quantum, tvars, in_wait, fault>>

(* The first half of sys_sem_wait that does not block: the destroyed flag is read at once. *)
WaitPass(n) ==
    /\ counter[n] > 0
    /\ destroyed' = [destroyed EXCEPT ![current] = 0]
    /\ UNCHANGED <<readyqueue, current, remaining_quantum, state, saved_esp, in_wait, blocked,
                   fault>>

WaitBlock(n) ==
    /\ counter[n] <= 0
    /\ blocked' = [blocked EXCEPT ![n] = Append(@, current)]
    /\ in_wait' = in_wait \cup {current}
    /\ sched_next_rr(readyqueue, state)
    /\ UNCHANGED destroyed

sys_sem_wait(n) ==
    /\ valid_sem(n, FALSE)
    /\ counter' = [counter EXCEPT ![n] = @ - 1]
    /\ WaitPass(n) \/ WaitBlock(n)
    /\ UNCHANGED <<freequeue, isInit>>

(* Mutant of the second half: the flag is not lowered. *)
SemWaitReturn_FlagStays ==
    /\ Running
    /\ current \in in_wait
    /\ in_wait' = in_wait \ {current}
    /\ UNCHANGED <<freequeue, readyqueue, current, remaining_quantum, tvars, svars, fault>>

(* The second half: the task is dispatched again, and returns -1 if the semaphore was
   destroyed under it. *)
SemWaitReturn ==
    /\ Running
    /\ current \in in_wait
    /\ in_wait' = in_wait \ {current}
    /\ destroyed' = [destroyed EXCEPT ![current] = 0]
    /\ UNCHANGED <<freequeue, readyqueue, current, remaining_quantum, state, saved_esp, svars,
                   fault>>

(* sys_sem_signal.  The counter is bounded by INT_MAX, where the increment overflows. *)
SignalPost(n) ==
    /\ counter[n] >= 0
    /\ UNCHANGED <<readyqueue, blocked, fault>>

(* Mutants of the wake-up: the last waiter instead of the first; the first waiter, put at the
   head of the ready queue. *)
SignalWake_Last(n) ==
    /\ counter[n] < 0
    /\ IF blocked[n] = <<>>
       THEN fault' = "list" /\ UNCHANGED <<readyqueue, blocked>>
       ELSE /\ blocked' = [blocked EXCEPT ![n] = SubSeq(@, 1, Len(@) - 1)]
            /\ readyqueue' = Append(readyqueue, blocked[n][Len(blocked[n])])
            /\ UNCHANGED fault

SignalWake_AtHead(n) ==
    /\ counter[n] < 0
    /\ IF blocked[n] = <<>>
       THEN fault' = "list" /\ UNCHANGED <<readyqueue, blocked>>
       ELSE /\ blocked' = [blocked EXCEPT ![n] = Tail(@)]
            /\ readyqueue' = <<Head(blocked[n])>> \o readyqueue
            /\ UNCHANGED fault

SignalWake(n) ==
    /\ counter[n] < 0
    /\ IF blocked[n] = <<>>
       THEN fault' = "list" /\ UNCHANGED <<readyqueue, blocked>>
       ELSE /\ blocked' = [blocked EXCEPT ![n] = Tail(@)]
            /\ readyqueue' = Append(readyqueue, Head(blocked[n]))
            /\ UNCHANGED fault

sys_sem_signal(n) ==
    /\ valid_sem(n, FALSE)
    /\ counter[n] < INT_MAX
    /\ counter' = [counter EXCEPT ![n] = @ + 1]
    /\ SignalPost(n) \/ SignalWake(n)
    /\ UNCHANGED <<freequeue, current, remaining_quantum, tvars, in_wait, isInit>>

(* Mutants of destroy: only the first waiter is released ("if" for "while"); the waiters are
   flagged and dropped, but not made ready. *)
sys_sem_destroy_First(n) ==
    /\ valid_sem(n, FALSE)
    /\ blocked[n] # <<>>
    /\ destroyed' = [destroyed EXCEPT ![Head(blocked[n])] = 1]
    /\ readyqueue' = Append(readyqueue, Head(blocked[n]))
    /\ blocked' = [blocked EXCEPT ![n] = Tail(@)]
    /\ isInit' = [isInit EXCEPT ![n] = FALSE]
    /\ UNCHANGED <<freequeue, current, remaining_quantum, state, saved_esp, in_wait, counter,
                   fault>>

sys_sem_destroy_Drop(n) ==
    /\ valid_sem(n, FALSE)
    /\ destroyed' = [t \in Tasks |-> IF t \in Range(blocked[n]) THEN 1 ELSE destroyed[t]]
    /\ blocked' = [blocked EXCEPT ![n] = <<>>]
    /\ isInit' = [isInit EXCEPT ![n] = FALSE]
    /\ UNCHANGED <<freequeue, readyqueue, current, remaining_quantum, state, saved_esp, in_wait,
                   counter, fault>>

(* sys_sem_destroy: every blocked task is flagged and made ready, in queue order. *)
sys_sem_destroy(n) ==
    /\ valid_sem(n, FALSE)
    /\ destroyed' = [t \in Tasks |-> IF t \in Range(blocked[n]) THEN 1 ELSE destroyed[t]]
    /\ readyqueue' = readyqueue \o blocked[n]
    /\ blocked' = [blocked EXCEPT ![n] = <<>>]
    /\ isInit' = [isInit EXCEPT ![n] = FALSE]
    /\ UNCHANGED <<freequeue, current, remaining_quantum, state, saved_esp, in_wait, counter,
                   fault>>

SemCall ==
    /\ CanCall
    /\ \E n \in SemArgs :
          \/ \E v \in SemValues : sys_sem_init(n, v)
          \/ sys_sem_wait(n)
          \/ sys_sem_signal(n)
          \/ sys_sem_destroy(n)

-----------------------------------------------------------------------------
(* A program touches a page that is not mapped: page_fault_routine (libzeos) reports it and
   loops for ever, with interrupts disabled. *)
page_fault ==
    /\ CanCall
    /\ fault' = "page"
    /\ UNCHANGED <<freequeue, readyqueue, current, remaining_quantum, tvars, in_wait, svars>>

Next ==
    \/ ClockTick
    \/ sys_yield
    \/ sys_fork
    \/ sys_createthread
    \/ sys_exit
    \/ sys_terminatethread
    \/ SemCall
    \/ SemWaitReturn
    \/ page_fault

(* The timer keeps interrupting, and the CPU executes the kernel code it is in. *)
Fairness == WF_vars(ClockTick) /\ WF_vars(SemWaitReturn)

Spec == Init /\ [][Next]_vars
FairSpec == Spec /\ Fairness

-----------------------------------------------------------------------------
(* Properties *)

(* Programs initialise semaphores with values that an int can hold. *)
SemValuesFit == SemValues \subseteq 0 .. INT_MAX

(* The variables have the types of the C objects they stand for; between two ticks
   remaining_quantum, which the code lets reach 0, is 1 to DEFAULT_QUANTUM. *)
TypeOK ==
    /\ freequeue \in Seq(Tasks)
    /\ readyqueue \in Seq(Tasks)
    /\ current \in Tasks
    /\ remaining_quantum \in 1 .. DEFAULT_QUANTUM
    /\ state \in [Tasks -> States]
    /\ destroyed \in [Tasks -> {0, 1}]
    /\ saved_esp \subseteq Tasks
    /\ in_wait \subseteq Tasks
    /\ isInit \in [Sems -> BOOLEAN]
    /\ counter \in [Sems -> Int]
    /\ blocked \in [Sems -> Seq(Tasks)]
    /\ fault \in Faults

Ready(t) == t \in Range(readyqueue)
Free(t) == t \in Range(freequeue)
BlockedOn(t, s) == t \in Range(blocked[s])
Blocked(t) == \E s \in Sems : BlockedOn(t, s)

(* A task_struct has one list node: whatever was done to it, it is linked into at most one
   queue, once, and the running task into none. *)
OneQueue ==
    /\ IsInjective(freequeue) /\ IsInjective(readyqueue)
    /\ \A s \in Sems : IsInjective(blocked[s])
    /\ \A t \in Tasks :
          /\ ~(Free(t) /\ Ready(t))
          /\ ~((Free(t) \/ Ready(t)) /\ Blocked(t))
          /\ \A r, s \in Sems : BlockedOn(t, r) /\ BlockedOn(t, s) => r = s
    /\ Running => ~Free(current) /\ ~Ready(current) /\ ~Blocked(current)

(* No call loses a task_struct: each is running, or in a queue from which it can come back.
   Only idle, which is dispatched when there is nobody else, may be in none. *)
NoTaskLost ==
    Running => \A t \in Tasks \ {idle_task} : t = current \/ Free(t) \/ Ready(t) \/ Blocked(t)

(* idle has the CPU only when nobody can use it, and then for ever: it is never in the ready
   queue, and nothing joins that queue while it runs, because no interrupt wakes a task. *)
IdleRunsLast ==
    /\ ~Ready(idle_task)
    /\ current = idle_task => readyqueue = <<>>

(* idle must stay available to sched_next_rr: it never becomes a free slot, which a fork
   would overwrite, and never waits for a semaphore. *)
IdleAvailable == ~Free(idle_task) /\ ~Blocked(idle_task) /\ idle_task \notin in_wait

(* sys_sem_wait and sys_sem_signal decide by the sign of the counter, not by looking at the
   queue: while a semaphore exists a negative counter is the number of tasks blocked on it,
   and no task is blocked on a semaphore that does not exist. *)
CounterCountsWaiters ==
    /\ \A s \in Sems : ~isInit[s] => blocked[s] = <<>>
    /\ SemValuesFit =>
       \A s \in Sems : isInit[s] =>
          Len(blocked[s]) = IF counter[s] < 0 THEN -counter[s] ELSE 0

(* The destroyed flag crosses from sys_sem_destroy to the resumption of the waiter: it is up
   only in a task that was taken off a semaphore and has not resumed, so no later sem_wait,
   and no task created by copying this one, returns -1 for a destroy it did not meet. *)
DestroyedIsPending ==
    \A t \in Tasks : destroyed[t] = 1 => t \in in_wait /\ ~Blocked(t)

(* A task that blocked resumes inside sys_sem_wait and nowhere else; one that is suspended
   there was blocked and is now blocked, ready or resuming: never free, so its kernel stack
   is not reused under it. *)
WaitersKeepTheirStack ==
    /\ \A t \in Tasks : Blocked(t) => t \in in_wait
    /\ Running => \A t \in in_wait : Blocked(t) \/ Ready(t) \/ t = current

(* No list operation is applied to a node that is on no list or to the head of an empty
   list: sys_sem_signal unlinks the first waiter without testing that there is one, and
   update_process_state_rr unlinks a task on the word of its state field. *)
ListsSound == SemValuesFit => fault # "list"

(* The ready queue is served in order: a step adds only at its tail, and takes away only its
   head, which then has the CPU; so no ready task is overtaken or forgotten. *)
Served(q, p) == Len(q) <= Len(p) /\ SubSeq(p, 1, Len(q)) = q
NoOvertaking ==
    [][ \/ Served(readyqueue, readyqueue')
        \/ /\ readyqueue # <<>>
           /\ Served(Tail(readyqueue), readyqueue')
           /\ current' = Head(readyqueue) ]_vars

(* A ready task runs: every task ahead of it gives up the CPU when its quantum is over. *)
ReadyTaskRuns == \A t \in Tasks : Ready(t) ~> (current = t \/ ~Running)

(* A task whose semaphore is destroyed is not left behind: its sem_wait returns. *)
DestroyedWaitReturns ==
    \A t \in Tasks : (destroyed[t] = 1) ~> (t \notin in_wait \/ ~Running)

(* "System call to force a task switch" (sys.c): the caller of yield can always go on. *)
YieldIsSafe == [][sys_yield => fault' = "none"]_vars

=============================================================================
