------------------------------- MODULE Stats -------------------------------
(***************************************************************************)
(* The statistics of ZeOS composed with its scheduler: where the time of a *)
(* task goes (p_stats, zeos/p_stats.c and its callers in sys.c, sched.c    *)
(* and entry.S), and how long a ready task waits.                          *)
(*                                                                         *)
(* Every step is a step of Sched with what its handler does to p_stats, or *)
(* the passing of time in user mode, or a keyboard interrupt.  get_ticks() *)
(* is the variable now.  A handler may take time: it enters at now, and    *)
(* each of its later readings of the clock may be a tick after the one     *)
(* before.  A switch reads the clock for the task that leaves and again    *)
(* for the one that enters (sched.c:143, 144).  The task that leaves still *)
(* has the CPU in between, but no update charges it with that time.        *)
(*                                                                         *)
(* Only the interrupt handlers call user_to_system and system_to_user.     *)
(* The time of a system call that does not switch is charged as user time  *)
(* at the next interrupt; that of one that switches, and the user time     *)
(* before it, as system time.  A blocked task is charged ready ticks.      *)
(*                                                                         *)
(* total_trans and remaining_ticks, counters that nothing else reads, and  *)
(* blocked_ticks, which stays 0, are left out.  So are the page faults of  *)
(* Sched, after which no time is charged to anybody.                       *)
(***************************************************************************)
EXTENDS Sched

CONSTANT MAX_TICKS              \* bound: the last reading of the clock

ASSUME TicksAssumption == MAX_TICKS \in Nat

VARIABLES
    now,        \* what get_ticks() returns
    p_stats,    \* task[t].p_stats
    ran,        \* history: the ticks that t has had the CPU, up to the first reading of each
                \*   switch from it, of those its statistics cover: a thread's start as a
                \*   copy of its creator's
    birth,      \* history: when those statistics start
    waited      \* history: the clock interrupts since t joined the ready queue

hvars == <<ran, birth, waited>>
statvars == <<vars, now, p_stats, hvars>>

Ticks == {"user", "system", "ready"}    \* user_ticks, system_ticks, ready_ticks
StatFields == Ticks \cup {"elapsed"}    \* elapsed_total_ticks: when the others were last updated

(* Mutant of init_stats: the clock is zeroed with the counters. *)
init_stats_Zero(at) == [f \in StatFields |-> 0]

init_stats(at) == [f \in StatFields |-> IF f = "elapsed" THEN at ELSE 0]

StatsInit ==
    /\ Init
    /\ now = 0
    /\ p_stats = [t \in Tasks |-> init_stats(0)]
    /\ ran = [t \in Tasks |-> 0]
    /\ birth = [t \in Tasks |-> 0]
    /\ waited = [t \in Tasks |-> 0]

-----------------------------------------------------------------------------
(* The statistics *)

(* update_stats on counter f of task t, when the clock says at. *)
update_stats(ps, t, f, at) ==
    [ps EXCEPT ![t] = [ps[t] EXCEPT ![f] = @ + (at - ps[t]["elapsed"]), !["elapsed"] = at]]

(* user_to_system and system_to_user, of the running task. *)
user_to_system(ps, at) == update_stats(ps, current, "user", at)
system_to_user(ps, at) == update_stats(ps, current, "system", at)

(* Mutant of sched_next_rr: the ticks of the task that gets the CPU are not closed. *)
DispatchStats_NoReady(ps, next, closed, opened) == update_stats(ps, current, "system", closed)

(* What sched_next_rr does to the statistics when it dispatches next: two calls of
   update_stats, each of which reads the clock.  A task that goes to the ready queue has had
   its system ticks updated before, by update_process_state_rr: the update at "closed" adds
   the rest to the same counter. *)
DispatchStats(ps, next, closed, opened) ==
    update_stats(update_stats(ps, current, "system", closed), next, "ready", opened)

-----------------------------------------------------------------------------
(* The histories *)

(* The clock goes to at; up to last this is time of the running task. *)
Advance(last, at) ==
    /\ at \in now .. MAX_TICKS
    /\ now' = at
    /\ ran' = [ran EXCEPT ![current] = @ + (last - now)]
    /\ UNCHANGED birth

(* From one reading of the clock to the next, no time passes or one tick. *)
After(at) == {at, at + 1}

(* An interrupt handler that returns; it has made the statistics ps when it was entered. *)
Return(ps) ==
    \E at \in After(now) : Advance(at, at) /\ p_stats' = system_to_user(ps, at)

(* A handler that switches to next; its caller has made the statistics ps. *)
Switch(ps, next) ==
    \E closed \in After(now) : \E opened \in After(closed) :
        /\ Advance(closed, opened)
        /\ p_stats' = DispatchStats(ps, next, closed, opened)

(* Who joined the ready queue in this step starts to wait; a tick adds one to the others. *)
Joined(t) == t \in Range(readyqueue') /\ (t \notin Range(readyqueue) \/ t = current)
WaitOn(n) ==
    waited' = [t \in Tasks |->
                 IF t \in Range(readyqueue') /\ ~Joined(t) THEN waited[t] + n ELSE 0]

-----------------------------------------------------------------------------
(* The steps of Sched *)

(* clock_handler *)
S_tick ==
    /\ ClockTick
    /\ LET entered == user_to_system(p_stats, now)
       IN  IF remaining_quantum = 1 /\ readyqueue # <<>>
           THEN Switch(entered, Head(readyqueue))
           ELSE Return(entered)
    /\ WaitOn(1)

(* keyboard_handler: the buffer is in module Keyboard. *)
keyboard_handler ==
    /\ InUserMode
    /\ Return(user_to_system(p_stats, now))
    /\ UNCHANGED <<vars, waited>>

(* The calls that switch: yield, exit, terminatethread, and a sem_wait that blocks. *)
S_yield == sys_yield /\ Switch(p_stats, Chosen(Append(readyqueue, current))) /\ WaitOn(0)

S_leave == LeaveForGood /\ Switch(p_stats, Chosen(readyqueue)) /\ WaitOn(0)

S_sem ==
    /\ SemCall
    /\ IF current \in in_wait'
       THEN Switch(p_stats, Chosen(readyqueue))
       ELSE (\E at \in After(now) : Advance(at, at)) /\ UNCHANGED p_stats
    /\ WaitOn(0)

(* fork: the child's statistics start at zero. *)
S_fork ==
    /\ StartChild
    /\ \E at \in After(now) :
          /\ at <= MAX_TICKS
          /\ now' = at
          /\ ran' = [ran EXCEPT ![current] = @ + (at - now), ![Head(freequeue)] = 0]
          /\ birth' = [birth EXCEPT ![Head(freequeue)] = at]
          /\ p_stats' = [p_stats EXCEPT ![Head(freequeue)] = init_stats(at)]
    /\ WaitOn(0)

(* createthread, whose init_stats is commented out, and a fork that fails once the slot is a
   copy of the caller's. *)
CopyStats ==
    LET u == Head(freequeue)
    IN  /\ p_stats' = [p_stats EXCEPT ![u] = p_stats[current]]
        /\ ran' = [ran EXCEPT ![u] = p_stats[current]["user"] + p_stats[current]["system"]]
        /\ birth' = [birth EXCEPT ![u] = birth[current]]
        /\ UNCHANGED now
        /\ WaitOn(0)

S_createthread == StartChild /\ CopyStats
S_fork_fails == ForkNoFrame /\ CopyStats

(* The second half of sys_sem_wait touches no statistics. *)
S_wait_return == SemWaitReturn /\ UNCHANGED <<now, p_stats, hvars>>

(* Time passes in user mode, in cpu_idle too. *)
UserTime ==
    /\ InUserMode
    /\ Advance(now + 1, now + 1)
    /\ UNCHANGED <<vars, p_stats, waited>>

StatsNext ==
    \/ S_tick \/ keyboard_handler \/ S_yield \/ S_leave \/ S_sem \/ S_fork \/ S_createthread
    \/ S_fork_fails \/ S_wait_return \/ UserTime

StatsSpec == StatsInit /\ [][StatsNext]_statvars

-----------------------------------------------------------------------------
(* Properties *)

(* The counters are those of struct stats: unsigned, so none may go below zero, and no update
   lies in the future. *)
StatsTypeOK ==
    /\ now \in 0 .. MAX_TICKS
    /\ p_stats \in [Tasks -> [StatFields -> Nat]]
    /\ ran \in [Tasks -> Nat]
    /\ birth \in [Tasks -> Nat]
    /\ waited \in [Tasks -> Nat]
    /\ \A t \in Tasks : p_stats[t]["elapsed"] \in 0 .. now

(* user_ticks + system_ticks is the CPU time of a task but for what passed, each time it left
   the CPU, between the reading that closed its own ticks and the one that opened those of its
   successor (sched.c:143, 144), which will be ready ticks of it.  Whatever the order of
   interrupts, calls and switches, nothing else is missing, no time is charged twice, and
   none that the task waited; the time since the last update of the running task is pending. *)
CpuTimeIsCharged ==
    Running =>
    \A t \in Tasks \ Range(freequeue) :
        p_stats[t]["user"] + p_stats[t]["system"] =
            ran[t] - (IF t = current THEN now - p_stats[t]["elapsed"] ELSE 0)

(* The counters of a task add up to its age at the last update: no tick is charged twice, to
   two counters, or lost, on any path through interrupts, switches, fork and createthread. *)
TicksAddUp ==
    Running =>
    \A t \in Tasks \ Range(freequeue) :
        p_stats[t]["user"] + p_stats[t]["system"] + p_stats[t]["ready"] =
            p_stats[t]["elapsed"] - birth[t]

(* The promise of round robin: a ready task is dispatched before the clock has interrupted
   NR_TASKS - 2 whole quanta, whatever the others do. *)
MaxWait == (NR_TASKS - 2) * DEFAULT_QUANTUM
BoundedWait == Running => \A t \in Range(readyqueue) : waited[t] < MaxWait

(* What makes BoundedWait inductive: each place in the queue costs at most a quantum. *)
WaitBudget ==
    Running =>
    \A i \in DOMAIN readyqueue :
        waited[readyqueue[i]] + remaining_quantum + (i - 1) * DEFAULT_QUANTUM <= MaxWait
=============================================================================
