---------------------------- MODULE StatsProofs ----------------------------
(***************************************************************************)
(* What the statistics of a task count, and that a ready task waits at     *)
(* most NR_TASKS - 2 quanta, for every number of tasks and every quantum.  *)
(***************************************************************************)
EXTENDS Stats, SchedProofs, FiniteSetTheorems

(* A list without repetitions is no longer than the set its entries come from. *)
LEMMA ShortQueue ==
    ASSUME NEW S, NEW q \in Seq(S), IsInjective(q),
           NEW T, IsFiniteSet(T), Range(q) \subseteq T
    PROVE  Len(q) <= Cardinality(T)
<1>1. Len(q) \in Nat /\ DOMAIN q = 1 .. Len(q)
  BY LenProperties
<1>2. q \in Injection(1 .. Len(q), T)
  <2>1. q \in [1 .. Len(q) -> S]
    BY <1>1
  <2>2. \A i \in 1 .. Len(q) : q[i] \in T
    BY <1>1 DEF Range
  <2>3. q \in [1 .. Len(q) -> T]
    BY <2>1, <2>2
  <2> QED
    BY <2>3 DEF Injection
<1>3. Cardinality(1 .. Len(q)) <= Cardinality(T)
  BY <1>2, FS_Injection
<1>4. Cardinality(1 .. Len(q)) = Len(q)
  BY <1>1, Interval
<1> QED
  BY <1>3, <1>4

(* The running task and idle are not in the ready queue. *)
LEMMA ReadyIsShort ==
    ASSUME IInv, IdleRunsLast, Running
    PROVE  readyqueue = <<>> \/ Len(readyqueue) <= NR_TASKS - 2
<1>1. /\ readyqueue \in Seq(Tasks) /\ IsInjective(readyqueue) /\ current \in Tasks
      /\ current \notin Range(readyqueue) /\ idle_task \notin Range(readyqueue)
  BY DEF IInv, TypeOK, OneQueue, IdleRunsLast, Ready
<1>2. CASE current = idle_task
  BY <1>2 DEF IdleRunsLast
<1>3. CASE current # idle_task
  <2> DEFINE U == Tasks \ {idle_task}
             T == U \ {current}
  <2>1. IsFiniteSet(Tasks) /\ Cardinality(Tasks) = NR_TASKS
    BY SizesAssumption, FS_Interval DEF Tasks
  <2>2. IsFiniteSet(U) /\ Cardinality(U) = NR_TASKS - 1
    BY <2>1, Constants, FS_RemoveElement
  <2>3. current \in U
    BY <1>1, <1>3
  <2>4. IsFiniteSet(T) /\ Cardinality(T) = NR_TASKS - 2
    <3> HIDE DEF U
    <3>1. IsFiniteSet(T) /\ Cardinality(T) = Cardinality(U) - 1
      BY <2>2, <2>3, FS_RemoveElement
    <3> QED
      BY <2>2, <3>1, SizesAssumption
  <2>5. Range(readyqueue) \subseteq T
    <3>1. Range(readyqueue) \subseteq Tasks
      BY <1>1, LenProperties DEF Range
    <3> QED
      BY <1>1, <3>1
  <2> QED
    BY <1>1, <2>4, <2>5, ShortQueue
<1> QED
  BY <1>2, <1>3

-----------------------------------------------------------------------------
(* Accounting for time changes nothing of what the scheduler does: every step with its
   statistics is a step of Sched. *)
LEMMA StatsImplementSched == StatsSpec => Spec
<1>1. StatsInit => Init
  BY DEF StatsInit
<1>2. [StatsNext]_statvars => [Next]_vars
  <2>1. S_tick => Next
    BY DEF S_tick, Next
  <2>2. S_yield \/ S_leave => Next
    BY DEF S_yield, S_leave, sys_exit, Next
  <2>3. S_sem \/ S_wait_return => Next
    BY DEF S_sem, S_wait_return, Next
  <2>4. S_fork \/ S_createthread \/ S_fork_fails => Next
    BY DEF S_fork, S_createthread, S_fork_fails, sys_fork, sys_createthread, Next
  <2>5. keyboard_handler \/ UserTime \/ UNCHANGED statvars => UNCHANGED vars
    BY DEF keyboard_handler, UserTime, statvars
  <2> QED
    BY <2>1, <2>2, <2>3, <2>4, <2>5 DEF StatsNext
<1> QED
  BY <1>1, <1>2, PTL DEF StatsSpec, Spec

-----------------------------------------------------------------------------
(* The bounded wait *)

(* A place in the queue is worth a quantum. *)
LEMMA Places ==
    ASSUME NEW i \in Nat, NEW n \in Nat, i <= n
    PROVE  /\ i * DEFAULT_QUANTUM \in Nat
           /\ (i + 1) * DEFAULT_QUANTUM = i * DEFAULT_QUANTUM + DEFAULT_QUANTUM
           /\ i * DEFAULT_QUANTUM <= n * DEFAULT_QUANTUM
<1>1. DEFAULT_QUANTUM \in Nat
  BY SizesAssumption
<1>2. PICK d \in Nat : n = i + d
  BY Z3
<1>3. d * DEFAULT_QUANTUM \in Nat /\ i * DEFAULT_QUANTUM \in Nat
  BY <1>1
<1>4. n * DEFAULT_QUANTUM = i * DEFAULT_QUANTUM + d * DEFAULT_QUANTUM
  BY <1>1, <1>2
<1> QED
  BY <1>1, <1>3, <1>4

(* How a step of the scheduler may treat the ready queue and the quantum while the clock
   interrupts n times: it adds at the tail, and the quantum pays for the interrupts; or it
   dispatches the first task, with a fresh quantum. *)
QueueStep(n) ==
    \/ /\ Served(readyqueue, readyqueue')
       /\ remaining_quantum' + n <= remaining_quantum \/ readyqueue = <<>>
    \/ /\ readyqueue # <<>>
       /\ Served(Tail(readyqueue), readyqueue')
       /\ current' = Head(readyqueue)
       /\ remaining_quantum' = DEFAULT_QUANTUM
       /\ n <= remaining_quantum

(* Such a step keeps every ready task within its budget. *)
LEMMA BudgetKept ==
    ASSUME IInv, IInv', Running, Running', IdleRunsLast',
           waited \in [Tasks -> Nat], WaitBudget,
           NEW n \in 0 .. 1, WaitOn(n), QueueStep(n)
    PROVE  WaitBudget'
<1> DEFINE q == readyqueue  p == readyqueue'  Q == DEFAULT_QUANTUM
           r == remaining_quantum  s == remaining_quantum'
<1>1. /\ q \in Seq(Tasks) /\ p \in Seq(Tasks) /\ IsInjective(p) /\ current \notin Range(q)
      /\ r \in 1 .. Q /\ s \in 1 .. Q
  BY DEF IInv, TypeOK, OneQueue, Ready
<1>2. /\ Len(q) \in Nat /\ DOMAIN q = 1 .. Len(q) /\ Len(p) \in Nat /\ DOMAIN p = 1 .. Len(p)
  BY <1>1, LenProperties
<1>3. p = <<>> \/ Len(p) <= NR_TASKS - 2
  <2>1. (readyqueue = <<>> \/ Len(readyqueue) <= NR_TASKS - 2)'
    BY ReadyIsShort, PTL
  <2> QED
    BY <2>1
<1> SUFFICES ASSUME NEW j \in 1 .. Len(p)
             PROVE  waited'[p[j]] + s + (j - 1) * Q <= MaxWait
  BY <1>2 DEF WaitBudget
<1>4. /\ NR_TASKS - 2 \in Nat /\ j - 1 \in Nat /\ j \in Nat /\ j <= NR_TASKS - 2
      /\ Q \in Nat /\ r \in Nat /\ s \in Nat /\ s <= Q /\ p[j] \in Tasks
  BY <1>1, <1>2, <1>3, SizesAssumption
<1>5. /\ (j - 1) * Q \in Nat /\ j * Q \in Nat /\ j * Q = (j - 1) * Q + Q /\ MaxWait \in Nat
      /\ j * Q <= MaxWait
  <2>1. j - 1 + 1 = j
    BY <1>4
  <2>2. /\ (j - 1) * Q \in Nat /\ (j - 1 + 1) * Q = (j - 1) * Q + Q
    BY <1>4, Places
  <2>3. /\ j * Q \in Nat /\ j * Q <= (NR_TASKS - 2) * Q /\ (NR_TASKS - 2) * Q \in Nat
    BY <1>4, Places
  <2> QED
    BY <2>1, <2>2, <2>3 DEF MaxWait
<1>6. waited'[p[j]] = IF p[j] \in Range(q) /\ p[j] # current THEN waited[p[j]] + n ELSE 0
  <2>1. p[j] \in Range(p)
    BY <1>2 DEF Range
  <2> QED
    BY <1>1, <1>4, <2>1 DEF WaitOn, Joined
<1>7. CASE p[j] \notin Range(q)
  <2>1. waited'[p[j]] = 0
    BY <1>6, <1>7
  <2>2. /\ waited'[p[j]] + s + (j - 1) * Q = s + (j - 1) * Q
        /\ s + (j - 1) * Q <= Q + (j - 1) * Q
    <3> DEFINE w == waited'[p[j]]  a == (j - 1) * Q
    <3>1. w = 0 /\ a \in Nat /\ s \in Nat /\ Q \in Nat /\ s <= Q
      BY <1>4, <1>5, <2>1
    <3> HIDE DEF w, a, q, p, Q, r, s
    <3>2. w + s + a = s + a /\ s + a <= Q + a
      BY ONLY <3>1
    <3> QED
      BY <3>2 DEF w, a
  <2> HIDE DEF q, p, Q, r, s
  <2> QED
    BY ONLY <1>4, <1>5, <2>2
<1>8. CASE p[j] \in Range(q)
  <2>1. waited'[p[j]] = waited[p[j]] + n /\ waited[p[j]] \in Nat
    BY <1>1, <1>4, <1>6, <1>8
  <2>2. CASE Served(q, p) /\ (s + n <= r \/ q = <<>>)
    <3>1. Len(q) <= Len(p) /\ \A i \in 1 .. Len(q) : p[i] = q[i]
      BY <1>1, <1>2, <2>2, SubSeqProperties DEF Served
    <3>2. j \in 1 .. Len(q)
      <4>1. PICK i \in 1 .. Len(q) : q[i] = p[j]
        BY <1>2, <1>8 DEF Range
      <4>2. i \in 1 .. Len(p) /\ p[i] = p[j]
        BY <1>2, <3>1, <4>1
      <4>3. i = j
        BY <1>1, <1>2, <4>2 DEF IsInjective
      <4> QED
        BY <4>1, <4>3
    <3>3. waited[p[j]] + r + (j - 1) * Q <= MaxWait
      BY <1>2, <3>1, <3>2 DEF WaitBudget
    <3>4. s + n <= r
      <4>1. Len(q) # 0
        BY <1>2, <3>2
      <4>2. q # <<>>
        BY <1>1, <4>1, LenZero
      <4> QED
        BY <2>2, <4>2
    <3> HIDE DEF q, p, Q, r, s
    <3> QED
      BY <1>4, <1>5, <2>1, <3>3, <3>4
  <2>3. CASE /\ q # <<>> /\ Served(Tail(q), p) /\ current' = Head(q)
             /\ s = Q /\ n <= r
    <3>1. /\ Tail(q) \in Seq(Tasks) /\ Len(Tail(q)) = Len(q) - 1
          /\ Len(Tail(q)) \in Nat /\ \A i \in 1 .. Len(Tail(q)) : Tail(q)[i] = q[i + 1]
          /\ Head(q) = q[1]
      BY <1>1, <2>3, HeadTailProperties
    <3>2. /\ Len(Tail(q)) <= Len(p)
          /\ \A i \in 1 .. Len(Tail(q)) : p[i] = Tail(q)[i]
      <4> DEFINE u == Tail(q)
      <4>1. u \in Seq(Tasks) /\ Len(u) \in Nat /\ Len(u) <= Len(p) /\ SubSeq(p, 1, Len(u)) = u
        BY <2>3, <3>1 DEF Served
      <4> HIDE DEF u, p
      <4>2. \A i \in 1 .. Len(u) : SubSeq(p, 1, Len(u))[i] = p[i]
        BY <1>1, <1>2, <4>1, SubSeqProperties
      <4> QED
        BY <4>1, <4>2 DEF u
    <3>3. PICK i \in 1 .. Len(q) : q[i] = p[j]
      BY <1>2, <1>8 DEF Range
    <3>4. waited[p[j]] + r + (i - 1) * Q <= MaxWait
      BY <1>2, <3>3 DEF WaitBudget
    <3>5. i = j + 1 \/ i = 1
      <4>1. CASE i > 1
        <5>1. i - 1 \in 1 .. Len(Tail(q)) /\ i - 1 + 1 = i
          BY <1>2, <3>1, <4>1
        <5>2. p[i - 1] = q[i]
          BY <3>1, <3>2, <5>1
        <5>3. i - 1 \in 1 .. Len(p)
          BY <1>2, <3>1, <3>2, <5>1
        <5>4. i - 1 = j
          BY <1>1, <1>2, <3>3, <5>2, <5>3 DEF IsInjective
        <5> QED
          BY <1>2, <5>4
      <4> QED
        BY <1>2, <4>1
    <3>6. i # 1
      <4>1. p[j] \in Range(p) /\ current' \notin Range(p)
        BY <1>2 DEF IInv, OneQueue, Ready, Range
      <4> QED
        BY <2>3, <3>1, <3>3, <4>1
    <3>7. waited[p[j]] + r + j * Q <= MaxWait
      <4>1. i - 1 = j
        BY <1>2, <3>5, <3>6
      <4> QED
        BY <3>4, <4>1
    <3>8. s = Q /\ n <= r
      BY <2>3
    <3> DEFINE w == waited[p[j]]  v == waited'[p[j]]  a == j * Q  c == (j - 1) * Q
    <3>9. /\ v = w + n /\ w \in Nat /\ w + r + a <= MaxWait /\ a = c + Q
          /\ c \in Nat /\ a \in Nat /\ Q \in Nat /\ r \in Nat /\ MaxWait \in Nat /\ n \in Nat
      BY <1>4, <1>5, <2>1, <3>7
    <3> HIDE DEF w, v, a, c, q, p, Q, r, s
    <3>10. v + s + c <= MaxWait
      BY ONLY <3>8, <3>9
    <3> QED
      BY <3>10 DEF v, c
  <2> QED
    BY <2>2, <2>3 DEF QueueStep
<1> QED
  BY <1>7, <1>8

(* sched_next_rr is such a step, whether or not current has just joined at the tail. *)
LEMMA DispatchIsQueueStep ==
    ASSUME IInv, Running', NEW rq, NEW st, sched_next_rr(rq, st),
           rq = readyqueue \/ rq = Append(readyqueue, current),
           NEW n \in 0 .. 1
    PROVE  QueueStep(n)
<1>1. /\ readyqueue \in Seq(Tasks) /\ current \in Tasks
      /\ remaining_quantum \in 1 .. DEFAULT_QUANTUM
  BY DEF IInv, TypeOK
<1>2. /\ readyqueue' = Rest(rq) /\ current' = Chosen(rq)
      /\ remaining_quantum' = DEFAULT_QUANTUM
  BY DEF sched_next_rr, task_switch, Running
<1>3. CASE readyqueue = <<>>
  <2>1. rq = <<>> \/ rq = <<current>>
    BY <1>1, <1>3
  <2>2. readyqueue' = <<>>
    BY <1>1, <1>2, <2>1 DEF Rest
  <2> QED
    BY <1>1, <1>3, <2>2, TailServes DEF QueueStep
<1>4. CASE readyqueue # <<>>
  <2>1. Tail(readyqueue) \in Seq(Tasks)
    BY <1>1, <1>4
  <2>2. rq # <<>> /\ Head(rq) = Head(readyqueue)
    BY <1>1, <1>4
  <2>3. Tail(rq) = Tail(readyqueue) \/ Tail(rq) = Append(Tail(readyqueue), current)
    <3>1. CASE rq = readyqueue
      BY <3>1
    <3>2. CASE rq = Append(readyqueue, current)
      BY <1>1, <1>4, <3>2
    <3> QED
      BY <1>1, <3>1, <3>2
  <2>4. Served(Tail(readyqueue), Tail(rq))
    BY <1>1, <2>1, <2>3, TailServes
  <2>5. n <= remaining_quantum
    BY <1>1
  <2> QED
    BY <1>2, <1>4, <2>2, <2>4, <2>5 DEF QueueStep, Rest, Chosen
<1> QED
  BY <1>3, <1>4

(* The other calls add waiters or a child at the tail and leave the quantum alone. *)
LEMMA CallIsQueueStep ==
    ASSUME IInv, Running', SemCall \/ StartChild \/ sys_yield \/ LeaveForGood
    PROVE  QueueStep(0)
<1>1. /\ readyqueue \in Seq(Tasks) /\ freequeue \in Seq(Tasks) /\ current \in Tasks
      /\ \A s \in Sems : blocked[s] \in Seq(Tasks)
      /\ remaining_quantum \in 1 .. DEFAULT_QUANTUM
  BY DEF IInv, TypeOK
<1>2. ASSUME Served(readyqueue, readyqueue'), remaining_quantum' = remaining_quantum
      PROVE  QueueStep(0)
  BY <1>1, <1>2 DEF QueueStep
<1>3. CASE sys_yield
  <2>1. 0 \in 0 .. 1
    OBVIOUS
  <2>2. sched_next_rr(Append(readyqueue, current), [state EXCEPT ![current] = ST_READY])
    BY <1>3 DEF sys_yield, force_task_switch, Running
  <2> QED
    BY <2>1, <2>2, DispatchIsQueueStep
<1>4. CASE LeaveForGood
  BY <1>4, DispatchIsQueueStep DEF LeaveForGood
<1>5. CASE StartChild
  <2>1. Head(freequeue) \in Tasks
    BY <1>1, <1>5, DelFirst DEF StartChild
  <2> QED
    BY <1>1, <1>2, <1>5, <2>1, TailServes DEF StartChild
<1>6. CASE SemCall
  <2>1. PICK n \in SemArgs : \/ \E v \in SemValues : sys_sem_init(n, v)
                            \/ sys_sem_wait(n)
                            \/ sys_sem_signal(n)
                            \/ sys_sem_destroy(n)
    BY <1>6 DEF SemCall
  <2>2. CASE \E v \in SemValues : sys_sem_init(n, v)
    BY <1>1, <1>2, <2>2, TailServes DEF sys_sem_init
  <2>3. CASE sys_sem_wait(n)
    BY <1>1, <1>2, <2>3, TailServes, DispatchIsQueueStep
    DEF sys_sem_wait, WaitPass, WaitBlock
  <2>4. CASE sys_sem_signal(n)
    <3>1. n \in Sems /\ remaining_quantum' = remaining_quantum
      BY <2>4 DEF sys_sem_signal, valid_sem
    <3>2. CASE readyqueue' = readyqueue
      BY <1>1, <1>2, <3>1, <3>2, TailServes
    <3>3. CASE blocked[n] # <<>> /\ readyqueue' = Append(readyqueue, Head(blocked[n]))
      <4>1. Head(blocked[n]) \in Tasks
        BY <1>1, <3>1, <3>3, DelFirst
      <4> QED
        BY <1>1, <1>2, <3>1, <3>3, <4>1, TailServes
    <3> QED
      BY <2>4, <3>2, <3>3 DEF sys_sem_signal, SignalPost, SignalWake
  <2>5. CASE sys_sem_destroy(n)
    <3>1. /\ n \in Sems /\ readyqueue' = readyqueue \o blocked[n]
          /\ remaining_quantum' = remaining_quantum
      BY <2>5 DEF sys_sem_destroy, valid_sem
    <3> QED
      BY <1>1, <1>2, <3>1, TailServes
  <2> QED
    BY <2>1, <2>2, <2>3, <2>4, <2>5
<1> QED
  BY <1>3, <1>4, <1>5, <1>6

(* A tick either takes one from the quantum or dispatches; if there is nobody to dispatch,
   there is nobody whose wait counts. *)
LEMMA TickIsQueueStep ==
    ASSUME IInv, Running', ClockTick
    PROVE  QueueStep(1)
<1>1. /\ readyqueue \in Seq(Tasks) /\ current \in Tasks
      /\ remaining_quantum \in 1 .. DEFAULT_QUANTUM
  BY DEF IInv, TypeOK
<1>2. CASE remaining_quantum = 1 /\ readyqueue # <<>>
  <2>1. sched_next_rr(Append(readyqueue, current), [state EXCEPT ![current] = ST_READY])
    BY <1>2 DEF ClockTick, force_task_switch, Running
  <2>2. 1 \in 0 .. 1
    OBVIOUS
  <2> QED
    BY <2>1, <2>2, DispatchIsQueueStep
<1>3. CASE ~(remaining_quantum = 1 /\ readyqueue # <<>>)
  <2>1. /\ readyqueue' = readyqueue
        /\ remaining_quantum' =
              IF remaining_quantum = 1 THEN DEFAULT_QUANTUM ELSE remaining_quantum - 1
    BY <1>3 DEF ClockTick
  <2>2. Served(readyqueue, readyqueue)
    BY <1>1, EmptyQueue, TailServes
  <2> QED
    BY <1>1, <1>3, <2>1, <2>2 DEF QueueStep
<1> QED
  BY <1>2, <1>3

(* The waiting times stay natural numbers. *)
WaitedOK == waited \in [Tasks -> Nat]

(* No step of the kernel lets a ready task wait beyond its budget. *)
LEMMA BudgetStep ==
    ASSUME IInv, IInv', IdleRunsLast', WaitedOK, WaitBudget, [StatsNext]_statvars
    PROVE  WaitedOK' /\ WaitBudget'
<1>1. ASSUME NEW n \in 0 .. 1, WaitOn(n) PROVE WaitedOK'
  BY <1>1 DEF WaitOn, WaitedOK
<1>2. ASSUME NEW n \in 0 .. 1, WaitOn(n), Running, Running' => QueueStep(n) PROVE WaitBudget'
  <2>1. CASE Running'
    BY <1>2, <2>1, BudgetKept DEF WaitedOK
  <2>2. CASE ~Running'
    BY <2>2 DEF WaitBudget
  <2> QED
    BY <2>1, <2>2
<1>3. ASSUME UNCHANGED <<vars, waited>> PROVE WaitedOK' /\ WaitBudget'
  BY <1>3 DEF vars, WaitedOK, WaitBudget, Running
<1>4. CASE S_tick
  BY <1>1, <1>2, <1>4, TickIsQueueStep DEF S_tick, ClockTick, InUserMode
<1>5. CASE S_yield \/ S_leave \/ S_sem \/ S_fork
  <2>1. WaitOn(0) /\ (SemCall \/ StartChild \/ sys_yield \/ LeaveForGood)
    BY <1>5 DEF S_yield, S_leave, S_sem, S_fork
  <2>2. Running
    BY <2>1 DEF SemCall, StartChild, sys_yield, LeaveForGood, CanCall, InUserMode
  <2> QED
    BY <1>1, <1>2, <2>1, <2>2, CallIsQueueStep
<1>6. CASE S_createthread \/ S_fork_fails
  <2>1. WaitOn(0) /\ (StartChild \/ ForkNoFrame)
    BY <1>6 DEF S_createthread, S_fork_fails, CopyStats
  <2>2. Running
    BY <2>1 DEF StartChild, ForkNoFrame, CanCall, InUserMode
  <2>3. CASE StartChild
    BY <1>1, <1>2, <2>1, <2>2, <2>3, CallIsQueueStep
  <2>4. CASE ForkNoFrame
    <3>1. readyqueue' = readyqueue /\ remaining_quantum' = remaining_quantum
      BY <2>4 DEF ForkNoFrame
    <3>2. readyqueue \in Seq(Tasks) /\ remaining_quantum \in 1 .. DEFAULT_QUANTUM
      BY DEF IInv, TypeOK
    <3>3. Served(readyqueue, readyqueue)
      BY <3>2, EmptyQueue, TailServes DEF IInv, TypeOK
    <3>4. QueueStep(0)
      BY <3>1, <3>2, <3>3 DEF QueueStep
    <3> QED
      BY <1>1, <1>2, <2>1, <2>2, <3>4
  <2> QED
    BY <2>1, <2>3, <2>4
<1>7. CASE S_wait_return
  BY <1>7 DEF S_wait_return, SemWaitReturn, hvars, WaitedOK,
              WaitBudget, Running
<1>8. CASE keyboard_handler \/ UserTime \/ UNCHANGED statvars
  BY <1>3, <1>8 DEF keyboard_handler, UserTime, statvars, hvars
<1> QED
  BY <1>4, <1>5, <1>6, <1>7, <1>8 DEF StatsNext

(* Round robin keeps its promise: whatever the other tasks do, a ready task gets the CPU before
   the clock has interrupted NR_TASKS - 2 quanta. *)
THEOREM WaitIsBounded == StatsSpec => []BoundedWait
<1>1. StatsSpec => [](IInv /\ IdleRunsLast)
  BY StatsImplementSched, Invariant, IdleIsTheLast, PTL
<1>2. StatsInit => WaitedOK /\ WaitBudget
  <2> SUFFICES ASSUME StatsInit PROVE WaitedOK /\ WaitBudget
    OBVIOUS
  <2>1. readyqueue = <<>> /\ waited = [t \in Tasks |-> 0]
    BY DEF StatsInit, Init
  <2>2. DOMAIN readyqueue = {}
    BY <2>1
  <2> QED
    BY <2>1, <2>2 DEF WaitedOK, WaitBudget
<1>3. IInv /\ WaitedOK /\ WaitBudget => BoundedWait
  <2> SUFFICES ASSUME IInv, WaitedOK, WaitBudget, Running, NEW t \in Range(readyqueue)
               PROVE  waited[t] < MaxWait
    BY DEF BoundedWait
  <2>1. /\ readyqueue \in Seq(Tasks) /\ remaining_quantum \in 1 .. DEFAULT_QUANTUM
    BY DEF IInv, TypeOK
  <2>2. DOMAIN readyqueue = 1 .. Len(readyqueue) /\ Len(readyqueue) \in Nat
    BY <2>1, LenProperties
  <2>3. PICK i \in 1 .. Len(readyqueue) : t = readyqueue[i]
    BY <2>2 DEF Range
  <2>4. waited[t] + remaining_quantum + (i - 1) * DEFAULT_QUANTUM <= MaxWait
    BY <2>2, <2>3 DEF WaitBudget
  <2>5. (i - 1) * DEFAULT_QUANTUM \in Nat
    <3>1. i - 1 \in Nat /\ i - 1 <= i - 1
      BY <2>2, <2>3
    <3> QED
      BY <3>1, Places
  <2>6. waited[t] \in Nat /\ remaining_quantum \in Nat \ {0}
    BY <2>1, <2>3, SizesAssumption DEF WaitedOK
  <2>7. MaxWait \in Int
    BY SizesAssumption DEF MaxWait
  <2> QED
    BY <2>4, <2>5, <2>6, <2>7
<1>4. IInv /\ IdleRunsLast /\ (IInv /\ IdleRunsLast)' /\ WaitedOK /\ WaitBudget
      /\ [StatsNext]_statvars => (WaitedOK /\ WaitBudget)'
  BY BudgetStep
<1> QED
  BY <1>1, <1>2, <1>3, <1>4, PTL DEF StatsSpec

-----------------------------------------------------------------------------
(* The counters *)

CpuTime(ps, t) == ps[t]["user"] + ps[t]["system"]
AllTime(ps, t) == CpuTime(ps, t) + ps[t]["ready"]

PStats == [Tasks -> [StatFields -> Nat]]

(* One update moves the time since the last one into one counter, and nothing else. *)
LEMMA Update ==
    ASSUME NEW ps \in PStats, NEW t \in Tasks, NEW f \in Ticks, NEW at \in Nat,
           ps[t]["elapsed"] <= at
    PROVE  LET new == update_stats(ps, t, f, at)
           IN  /\ new \in PStats
               /\ new[t]["elapsed"] = at
               /\ AllTime(new, t) = AllTime(ps, t) + (at - ps[t]["elapsed"])
               /\ f \in {"user", "system"} =>
                     CpuTime(new, t) = CpuTime(ps, t) + (at - ps[t]["elapsed"])
               /\ f = "ready" => CpuTime(new, t) = CpuTime(ps, t)
               /\ \A u \in Tasks \ {t} : new[u] = ps[u]
<1> DEFINE new == update_stats(ps, t, f, at)
           old == ps[t]
           row == [old EXCEPT ![f] = @ + (at - old["elapsed"]), !["elapsed"] = at]
<1>1. new = [ps EXCEPT ![t] = row]
  BY DEF update_stats, PStats
<1>2. old \in [StatFields -> Nat] /\ f \in StatFields /\ f # "elapsed" /\ "elapsed" \in StatFields
      /\ Ticks \subseteq StatFields
  BY DEF PStats, StatFields, Ticks
<1>3. /\ row[f] = old[f] + (at - old["elapsed"])
      /\ row["elapsed"] = at
      /\ \A g \in StatFields \ {f, "elapsed"} : row[g] = old[g]
      /\ row \in [StatFields -> Nat]
  <2>1. old[f] + (at - old["elapsed"]) \in Nat
    BY <1>2
  <2> QED
    BY <1>2, <2>1
<1>4. new[t] = row /\ new \in PStats /\ \A u \in Tasks \ {t} : new[u] = ps[u]
  BY <1>1, <1>3 DEF PStats
<1> HIDE DEF new, row
<1>5. /\ "user" \in StatFields /\ "system" \in StatFields /\ "ready" \in StatFields
      /\ "user" # "elapsed" /\ "system" # "elapsed" /\ "ready" # "elapsed"
      /\ old["user"] \in Nat /\ old["system"] \in Nat /\ old["ready"] \in Nat
      /\ old["elapsed"] \in Nat
  BY <1>2 DEF StatFields, Ticks
<1>6. CASE f = "user"
  BY <1>3, <1>4, <1>5, <1>6 DEF CpuTime, AllTime, new
<1>7. CASE f = "system"
  BY <1>3, <1>4, <1>5, <1>7 DEF CpuTime, AllTime, new
<1>8. CASE f = "ready"
  BY <1>3, <1>4, <1>5, <1>8 DEF CpuTime, AllTime, new
<1> QED
  BY <1>6, <1>7, <1>8 DEF Ticks

(* sched_next_rr closes the CPU time of the running task and the waiting time of the next. *)
LEMMA DispatchUpdate ==
    ASSUME NEW ps \in PStats, NEW next \in Tasks, current \in Tasks,
           NEW closed \in Nat, NEW opened \in Nat, closed <= opened,
           \A t \in Tasks : ps[t]["elapsed"] <= closed
    PROVE  LET new == DispatchStats(ps, next, closed, opened)
           IN  /\ new \in PStats
               /\ new[next]["elapsed"] = opened
               /\ CpuTime(new, current) = CpuTime(ps, current) + (closed - ps[current]["elapsed"])
               /\ \A t \in Tasks :
                     /\ AllTime(new, t) - new[t]["elapsed"] = AllTime(ps, t) - ps[t]["elapsed"]
                     /\ t # current => CpuTime(new, t) = CpuTime(ps, t)
                     /\ new[t]["elapsed"] \in 0 .. opened
<1> DEFINE mid == update_stats(ps, current, "system", closed)
           new == update_stats(mid, next, "ready", opened)
<1> USE DEF Ticks
<1>0. \A qs \in PStats, t \in Tasks :
        /\ qs[t]["elapsed"] \in Nat /\ CpuTime(qs, t) \in Nat /\ AllTime(qs, t) \in Nat
  BY DEF PStats, StatFields, CpuTime, AllTime
<1>1. /\ mid \in PStats /\ mid[current]["elapsed"] = closed
      /\ AllTime(mid, current) = AllTime(ps, current) + (closed - ps[current]["elapsed"])
      /\ CpuTime(mid, current) = CpuTime(ps, current) + (closed - ps[current]["elapsed"])
      /\ \A u \in Tasks \ {current} : mid[u] = ps[u]
  BY Update
<1> HIDE DEF mid
<1>2. mid[next]["elapsed"] <= opened
  <2>1. mid[next]["elapsed"] <= closed
    BY <1>0, <1>1
  <2> QED
    BY <1>0, <1>1, <2>1
<1>3. /\ new \in PStats /\ new[next]["elapsed"] = opened
      /\ AllTime(new, next) = AllTime(mid, next) + (opened - mid[next]["elapsed"])
      /\ CpuTime(new, next) = CpuTime(mid, next)
      /\ \A u \in Tasks \ {next} : new[u] = mid[u]
  BY <1>1, <1>2, Update
<1> HIDE DEF new
<1>4. \A t \in Tasks :
        /\ t # current => AllTime(mid, t) = AllTime(ps, t) /\ CpuTime(mid, t) = CpuTime(ps, t)
        /\ t # next => AllTime(new, t) = AllTime(mid, t) /\ CpuTime(new, t) = CpuTime(mid, t)
  BY <1>1, <1>3 DEF AllTime, CpuTime
<1>5. CpuTime(new, current) = CpuTime(ps, current) + (closed - ps[current]["elapsed"])
  BY <1>1, <1>3, <1>4
<1>6. ASSUME NEW t \in Tasks
      PROVE  /\ AllTime(new, t) - new[t]["elapsed"] = AllTime(ps, t) - ps[t]["elapsed"]
             /\ t # current => CpuTime(new, t) = CpuTime(ps, t)
             /\ new[t]["elapsed"] \in 0 .. opened
  <2>1. CASE t = next
    BY <1>0, <1>1, <1>3, <1>4, <2>1
  <2>2. CASE t # next
    BY <1>0, <1>1, <1>3, <1>4, <2>2
  <2> QED
    BY <2>1, <2>2
<1> QED
  BY <1>3, <1>5, <1>6 DEF DispatchStats, new, mid

(* From ps to qs, with the clock at at, time was charged: to the running task as CPU time, to
   others as waiting time, and no more than passed. *)
Charged(ps, qs, at) ==
    /\ qs \in PStats
    /\ CpuTime(qs, current) - qs[current]["elapsed"] = CpuTime(ps, current) - ps[current]["elapsed"]
    /\ \A t \in Tasks :
          /\ AllTime(qs, t) - qs[t]["elapsed"] = AllTime(ps, t) - ps[t]["elapsed"]
          /\ t # current => CpuTime(qs, t) = CpuTime(ps, t)
          /\ qs[t]["elapsed"] \in 0 .. at

(* user_to_system and system_to_user charge the running task. *)
LEMMA ModeChange ==
    ASSUME NEW ps \in PStats, current \in Tasks, NEW f \in {"user", "system"}, NEW at \in Nat,
           \A t \in Tasks : ps[t]["elapsed"] <= at
    PROVE  Charged(ps, update_stats(ps, current, f, at), at)
<1> DEFINE new == update_stats(ps, current, f, at)
<1>1. f \in Ticks
  BY DEF Ticks
<1>2. /\ new \in PStats
      /\ new[current]["elapsed"] = at
      /\ AllTime(new, current) = AllTime(ps, current) + (at - ps[current]["elapsed"])
      /\ CpuTime(new, current) = CpuTime(ps, current) + (at - ps[current]["elapsed"])
      /\ \A u \in Tasks \ {current} : new[u] = ps[u]
  BY <1>1, Update
<1> HIDE DEF new
<1>3. \A qs \in PStats, t \in Tasks :
        /\ qs[t]["elapsed"] \in Nat /\ CpuTime(qs, t) \in Nat /\ AllTime(qs, t) \in Nat
  BY DEF PStats, StatFields, Ticks, CpuTime, AllTime
<1>4. \A t \in Tasks \ {current} :
        CpuTime(new, t) = CpuTime(ps, t) /\ AllTime(new, t) = AllTime(ps, t)
  BY <1>2 DEF CpuTime, AllTime
<1>5. ASSUME NEW t \in Tasks
      PROVE  /\ AllTime(new, t) - new[t]["elapsed"] = AllTime(ps, t) - ps[t]["elapsed"]
             /\ t # current => CpuTime(new, t) = CpuTime(ps, t)
             /\ new[t]["elapsed"] \in 0 .. at
  BY <1>2, <1>3, <1>4
<1>6. CpuTime(new, current) - new[current]["elapsed"] = CpuTime(ps, current) - ps[current]["elapsed"]
  BY <1>2, <1>3
<1> QED
  BY <1>2, <1>5, <1>6 DEF Charged, new

(* What a switch to next makes of the statistics ps: the running task is charged up to the
   first reading of the clock, and nothing is pending for next at the second. *)
Dispatched(ps, qs, next, closed, opened) ==
    /\ qs \in PStats
    /\ qs[next]["elapsed"] = opened
    /\ CpuTime(qs, current) - closed = CpuTime(ps, current) - ps[current]["elapsed"]
    /\ \A t \in Tasks :
          /\ AllTime(qs, t) - qs[t]["elapsed"] = AllTime(ps, t) - ps[t]["elapsed"]
          /\ t # current => CpuTime(qs, t) = CpuTime(ps, t)
          /\ qs[t]["elapsed"] \in 0 .. opened

LEMMA DispatchCharges ==
    ASSUME NEW ps \in PStats, NEW mid, NEW next \in Tasks, current \in Tasks, NEW at \in Nat,
           NEW closed \in Nat, NEW opened \in Nat, at <= closed, closed <= opened,
           Charged(ps, mid, at)
    PROVE  Dispatched(ps, DispatchStats(mid, next, closed, opened), next, closed, opened)
<1> DEFINE new == DispatchStats(mid, next, closed, opened)
<1>0. \A qs \in PStats, t \in Tasks :
        /\ qs[t]["elapsed"] \in Nat /\ CpuTime(qs, t) \in Nat /\ AllTime(qs, t) \in Nat
  BY DEF PStats, StatFields, Ticks, CpuTime, AllTime
<1>1. mid \in PStats /\ \A t \in Tasks : mid[t]["elapsed"] \in 0 .. at
  BY DEF Charged
<1>2. \A t \in Tasks : mid[t]["elapsed"] <= closed
  BY <1>1
<1>3. /\ new \in PStats
      /\ new[next]["elapsed"] = opened
      /\ CpuTime(new, current) = CpuTime(mid, current) + (closed - mid[current]["elapsed"])
      /\ \A t \in Tasks :
            /\ AllTime(new, t) - new[t]["elapsed"] = AllTime(mid, t) - mid[t]["elapsed"]
            /\ t # current => CpuTime(new, t) = CpuTime(mid, t)
            /\ new[t]["elapsed"] \in 0 .. opened
  BY <1>1, <1>2, DispatchUpdate
<1> HIDE DEF new
<1>4. /\ CpuTime(mid, current) - mid[current]["elapsed"] = CpuTime(ps, current) - ps[current]["elapsed"]
      /\ \A t \in Tasks :
            /\ AllTime(mid, t) - mid[t]["elapsed"] = AllTime(ps, t) - ps[t]["elapsed"]
            /\ t # current => CpuTime(mid, t) = CpuTime(ps, t)
  BY DEF Charged
<1>5. CpuTime(new, current) - closed = CpuTime(ps, current) - ps[current]["elapsed"]
  <2>1. /\ CpuTime(mid, current) \in Nat /\ mid[current]["elapsed"] \in Nat
        /\ CpuTime(new, current) \in Nat
    BY <1>0, <1>1, <1>3
  <2>2. CpuTime(new, current) - closed = CpuTime(mid, current) - mid[current]["elapsed"]
    BY <1>3, <2>1
  <2> QED
    BY <1>4, <2>2
<1> QED
  BY <1>3, <1>4, <1>5 DEF Dispatched, new

LEMMA ChargedTwice ==
    ASSUME NEW ps, NEW qs, NEW rs, NEW a, NEW b, Charged(ps, qs, a), Charged(qs, rs, b)
    PROVE  Charged(ps, rs, b)
BY DEF Charged

AccInv == StatsTypeOK /\ CpuTimeIsCharged /\ TicksAddUp

LEMMA AccTypes ==
    ASSUME StatsTypeOK
    PROVE  /\ p_stats \in PStats /\ now \in Nat
           /\ \A t \in Tasks : /\ p_stats[t]["elapsed"] \in Nat /\ p_stats[t]["elapsed"] <= now
                              /\ CpuTime(p_stats, t) \in Nat /\ AllTime(p_stats, t) \in Nat
                              /\ ran[t] \in Nat /\ birth[t] \in Nat
BY TicksAssumption DEF StatsTypeOK, PStats, StatFields, Ticks, CpuTime, AllTime

(* A step that stays with the running task and charges it the time it takes keeps the counters
   right, if no free slot comes into use. *)
LEMMA ChargedStep ==
    ASSUME AccInv, IInv, IInv', Running, WaitedOK', NEW at, Advance(at, at),
           Charged(p_stats, p_stats', at),
           Range(freequeue) \subseteq Range(freequeue'), current' = current
    PROVE  AccInv'
<1>1. /\ current \in Tasks /\ current' \in Tasks /\ current \notin Range(freequeue)
  BY DEF IInv, TypeOK, OneQueue, Free
<1>2. /\ p_stats \in PStats /\ now \in Nat
      /\ \A t \in Tasks : /\ p_stats[t]["elapsed"] \in Nat /\ p_stats[t]["elapsed"] <= now
                         /\ CpuTime(p_stats, t) \in Nat /\ AllTime(p_stats, t) \in Nat
                         /\ ran[t] \in Nat /\ birth[t] \in Nat
  BY AccTypes DEF AccInv
<1>3. /\ at \in now .. MAX_TICKS /\ now' = at /\ birth' = birth
      /\ ran' = [ran EXCEPT ![current] = @ + (at - now)]
      /\ ran \in [Tasks -> Nat] /\ birth \in [Tasks -> Nat]
  BY DEF Advance, AccInv, StatsTypeOK
<1>4. at \in Nat /\ now <= at /\ at <= MAX_TICKS
  BY <1>2, <1>3, TicksAssumption
<1>5. /\ p_stats' \in PStats
      /\ CpuTime(p_stats', current) - p_stats'[current]["elapsed"] =
            CpuTime(p_stats, current) - p_stats[current]["elapsed"]
      /\ \A t \in Tasks :
            /\ AllTime(p_stats', t) - p_stats'[t]["elapsed"] = AllTime(p_stats, t) - p_stats[t]["elapsed"]
            /\ t # current => CpuTime(p_stats', t) = CpuTime(p_stats, t)
            /\ p_stats'[t]["elapsed"] \in 0 .. at
            /\ CpuTime(p_stats', t) \in Nat /\ AllTime(p_stats', t) \in Nat
            /\ p_stats'[t]["elapsed"] \in Nat
  BY DEF Charged, PStats, StatFields, Ticks, CpuTime, AllTime
<1>6. StatsTypeOK'
  <2>1. ran' \in [Tasks -> Nat]
    BY <1>1, <1>2, <1>3, <1>4
  <2> QED
    BY <1>3, <1>4, <1>5, <2>1 DEF StatsTypeOK, PStats, WaitedOK
<1>7. ASSUME Running', NEW t \in Tasks, t \notin Range(freequeue')
      PROVE  /\ CpuTime(p_stats', t) =
                    ran'[t] - (IF t = current THEN at - p_stats'[t]["elapsed"] ELSE 0)
             /\ AllTime(p_stats', t) = p_stats'[t]["elapsed"] - birth'[t]
  <2>1. t \notin Range(freequeue)
    BY <1>7
  <2>2. /\ CpuTime(p_stats, t) =
              ran[t] - (IF t = current THEN now - p_stats[t]["elapsed"] ELSE 0)
        /\ AllTime(p_stats, t) = p_stats[t]["elapsed"] - birth[t]
    BY <2>1 DEF AccInv, CpuTimeIsCharged, TicksAddUp, CpuTime, AllTime
  <2>3. AllTime(p_stats', t) = p_stats'[t]["elapsed"] - birth'[t]
    <3>1. AllTime(p_stats', t) - p_stats'[t]["elapsed"] = AllTime(p_stats, t) - p_stats[t]["elapsed"]
      BY <1>5
    <3>2. /\ p_stats'[t]["elapsed"] \in Nat /\ p_stats[t]["elapsed"] \in Nat
          /\ AllTime(p_stats', t) \in Nat /\ AllTime(p_stats, t) \in Nat
          /\ birth[t] \in Nat /\ birth'[t] = birth[t]
      BY <1>2, <1>3, <1>5
    <3> QED
      BY <2>2, <3>1, <3>2
  <2>4. ran'[t] = IF t = current THEN ran[t] + (at - now) ELSE ran[t]
    BY <1>1, <1>3
  <2>5. CASE t = current
    <3>1. CpuTime(p_stats', t) = ran'[t] - (at - p_stats'[t]["elapsed"])
      <4>1. CpuTime(p_stats', t) - p_stats'[t]["elapsed"] = CpuTime(p_stats, t) - p_stats[t]["elapsed"]
        BY <1>5, <2>5
      <4>2. CpuTime(p_stats, t) = ran[t] - (now - p_stats[t]["elapsed"])
        BY <2>2, <2>5
      <4>3. ran'[t] = ran[t] + (at - now)
        BY <1>3, <2>4, <2>5
      <4>4. /\ p_stats'[t]["elapsed"] \in Nat /\ p_stats[t]["elapsed"] \in Nat
            /\ CpuTime(p_stats', t) \in Nat /\ CpuTime(p_stats, t) \in Nat
            /\ ran[t] \in Nat /\ now \in Nat /\ at \in Nat
        BY <1>2, <1>4, <1>5
      <4> QED
        BY <4>1, <4>2, <4>3, <4>4
    <3> QED
      BY <2>3, <2>5, <3>1
  <2>6. CASE t # current
    BY <1>2, <1>5, <2>2, <2>3, <2>4, <2>6
  <2> QED
    BY <2>5, <2>6
<1> QED
  BY <1>3, <1>6, <1>7 DEF AccInv, CpuTimeIsCharged, TicksAddUp, CpuTime, AllTime

(* A switch keeps the counters right: the task that leaves is charged up to the first reading. *)
LEMMA SwitchCharges ==
    ASSUME AccInv, IInv, IInv', Running, WaitedOK', NEW next \in Tasks,
           NEW closed \in Nat, NEW opened \in Nat, now <= closed, closed <= opened,
           Advance(closed, opened),
           Dispatched(p_stats, p_stats', next, closed, opened),
           Range(freequeue) \subseteq Range(freequeue'), Running' => current' = next
    PROVE  AccInv'
<1>1. current \in Tasks /\ current \notin Range(freequeue)
  BY DEF IInv, TypeOK, OneQueue, Free
<1>2. /\ p_stats \in PStats /\ now \in Nat
      /\ \A t \in Tasks : /\ p_stats[t]["elapsed"] \in Nat /\ p_stats[t]["elapsed"] <= now
                         /\ CpuTime(p_stats, t) \in Nat /\ AllTime(p_stats, t) \in Nat
                         /\ ran[t] \in Nat /\ birth[t] \in Nat
  BY AccTypes DEF AccInv
<1>3. /\ opened \in now .. MAX_TICKS /\ now' = opened /\ birth' = birth
      /\ ran' = [ran EXCEPT ![current] = @ + (closed - now)]
      /\ ran \in [Tasks -> Nat] /\ birth \in [Tasks -> Nat]
  BY DEF Advance, AccInv, StatsTypeOK
<1>4. closed - now \in Nat
  BY <1>2
<1>5. /\ p_stats' \in PStats
      /\ p_stats'[next]["elapsed"] = opened
      /\ CpuTime(p_stats', current) - closed = CpuTime(p_stats, current) - p_stats[current]["elapsed"]
      /\ \A t \in Tasks :
            /\ AllTime(p_stats', t) - p_stats'[t]["elapsed"] = AllTime(p_stats, t) - p_stats[t]["elapsed"]
            /\ t # current => CpuTime(p_stats', t) = CpuTime(p_stats, t)
            /\ p_stats'[t]["elapsed"] \in 0 .. opened
            /\ CpuTime(p_stats', t) \in Nat /\ AllTime(p_stats', t) \in Nat
            /\ p_stats'[t]["elapsed"] \in Nat
  BY DEF Dispatched, PStats, StatFields, Ticks, CpuTime, AllTime
<1>6. StatsTypeOK'
  <2>1. ran' \in [Tasks -> Nat]
    BY <1>1, <1>2, <1>3, <1>4
  <2> QED
    BY <1>3, <1>5, <2>1, TicksAssumption DEF StatsTypeOK, PStats, WaitedOK
<1>7. ASSUME Running', NEW t \in Tasks, t \notin Range(freequeue')
      PROVE  /\ CpuTime(p_stats', t) =
                    ran'[t] - (IF t = current' THEN now' - p_stats'[t]["elapsed"] ELSE 0)
             /\ AllTime(p_stats', t) = p_stats'[t]["elapsed"] - birth'[t]
  <2>1. t \notin Range(freequeue)
    BY <1>7
  <2>2. /\ CpuTime(p_stats, t) =
              ran[t] - (IF t = current THEN now - p_stats[t]["elapsed"] ELSE 0)
        /\ AllTime(p_stats, t) = p_stats[t]["elapsed"] - birth[t]
    BY <2>1 DEF AccInv, CpuTimeIsCharged, TicksAddUp, CpuTime, AllTime
  <2>3. AllTime(p_stats', t) = p_stats'[t]["elapsed"] - birth'[t]
    <3>1. AllTime(p_stats', t) - p_stats'[t]["elapsed"] = AllTime(p_stats, t) - p_stats[t]["elapsed"]
      BY <1>5
    <3>2. /\ p_stats'[t]["elapsed"] \in Nat /\ p_stats[t]["elapsed"] \in Nat
          /\ AllTime(p_stats', t) \in Nat /\ AllTime(p_stats, t) \in Nat
          /\ birth[t] \in Nat /\ birth'[t] = birth[t]
      BY <1>2, <1>3, <1>5
    <3> QED
      BY <2>2, <3>1, <3>2
  <2>4. CpuTime(p_stats', t) = ran'[t]
    <3>1. CASE t = current
      <4>1. CpuTime(p_stats', t) - closed = CpuTime(p_stats, t) - p_stats[t]["elapsed"]
        BY <1>5, <3>1
      <4>2. CpuTime(p_stats, t) = ran[t] - (now - p_stats[t]["elapsed"])
        BY <2>2, <3>1
      <4>3. ran'[t] = ran[t] + (closed - now)
        BY <1>1, <1>3, <3>1
      <4>4. /\ p_stats[t]["elapsed"] \in Nat /\ now \in Nat
            /\ CpuTime(p_stats', t) \in Nat /\ CpuTime(p_stats, t) \in Nat
            /\ ran[t] \in Nat
        BY <1>2, <1>5
      <4> QED
        BY <4>1, <4>2, <4>3, <4>4
    <3>2. CASE t # current
      <4>1. ran'[t] = ran[t] /\ CpuTime(p_stats', t) = CpuTime(p_stats, t)
        BY <1>3, <1>5, <3>2
      <4>2. CpuTime(p_stats, t) = ran[t] - 0 /\ ran[t] \in Nat
        BY <1>2, <2>2, <3>2
      <4> QED
        BY <4>1, <4>2
    <3> QED
      BY <3>1, <3>2
  <2>5. ran'[t] \in Int /\ p_stats'[t]["elapsed"] \in Nat
    <3>1. CpuTime(p_stats', t) \in Nat
      BY <1>5
    <3> QED
      BY <1>5, <2>4, <3>1
  <2>6. t = current' => now' = p_stats'[t]["elapsed"]
    BY <1>3, <1>5, <1>7
  <2> QED
    BY <2>3, <2>4, <2>5, <2>6
<1> QED
  BY <1>3, <1>6, <1>7 DEF AccInv, CpuTimeIsCharged, TicksAddUp, CpuTime, AllTime

(* A step that starts the statistics of the first free slot. *)
LEMMA SlotStep ==
    ASSUME AccInv, IInv, IInv', Running, WaitedOK', freequeue # <<>>,
           NEW u, u = Head(freequeue), NEW at \in now .. MAX_TICKS, now' = at,
           NEW row \in [StatFields -> Nat], NEW b \in Nat, row["elapsed"] <= at,
           row["user"] + row["system"] + row["ready"] = row["elapsed"] - b,
           p_stats' = [p_stats EXCEPT ![u] = row],
           birth' = [birth EXCEPT ![u] = b],
           ran' = [ran EXCEPT ![current] = @ + (at - now), ![u] = row["user"] + row["system"]],
           current' = current,
           Range(freequeue) \subseteq Range(freequeue') \cup {u}
    PROVE  AccInv'
<1>1. /\ current \in Tasks /\ current \notin Range(freequeue) /\ u \in Tasks /\ u \in Range(freequeue)
  BY DelFirst DEF IInv, TypeOK, OneQueue, Free
<1>2. u # current
  BY <1>1
<1>3. /\ p_stats \in PStats /\ now \in Nat
      /\ \A t \in Tasks : /\ p_stats[t]["elapsed"] \in Nat /\ p_stats[t]["elapsed"] <= now
                         /\ CpuTime(p_stats, t) \in Nat /\ AllTime(p_stats, t) \in Nat
                         /\ ran[t] \in Nat /\ birth[t] \in Nat
      /\ ran \in [Tasks -> Nat] /\ birth \in [Tasks -> Nat]
  BY AccTypes DEF AccInv, StatsTypeOK
<1>4. at \in Nat /\ now <= at /\ at <= MAX_TICKS
  BY <1>3, TicksAssumption
<1>5. /\ row["user"] \in Nat /\ row["system"] \in Nat /\ row["ready"] \in Nat
      /\ row["elapsed"] \in Nat
  BY DEF StatFields, Ticks
<1>6. /\ p_stats'[u] = row /\ birth'[u] = b /\ ran'[u] = row["user"] + row["system"]
      /\ \A t \in Tasks \ {u} :
            /\ p_stats'[t] = p_stats[t] /\ birth'[t] = birth[t]
            /\ ran'[t] = IF t = current THEN ran[t] + (at - now) ELSE ran[t]
  BY <1>1, <1>2, <1>3 DEF PStats
<1>7. StatsTypeOK'
  <2>1. p_stats' \in PStats /\ birth' \in [Tasks -> Nat]
    BY <1>1, <1>3 DEF PStats
  <2>2. ran[current] + (at - now) \in Nat /\ row["user"] + row["system"] \in Nat
    <3>1. at - now \in Nat /\ ran[current] \in Nat
      BY <1>1, <1>3, <1>4
    <3>2. row["user"] + row["system"] \in Nat
      BY <1>5
    <3> QED
      BY <3>1, <3>2
  <2>3. ran' \in [Tasks -> Nat]
    BY <1>3, <2>2
  <2>4. ASSUME NEW t \in Tasks PROVE p_stats'[t]["elapsed"] \in 0 .. at
    <3>1. CASE t = u
      <4>1. p_stats'[t]["elapsed"] = row["elapsed"]
        BY <1>6, <3>1
      <4> QED
        BY <1>4, <1>5, <4>1
    <3>2. CASE t # u
      <4>1. p_stats'[t] = p_stats[t]
        BY <1>6, <3>2
      <4>2. p_stats[t]["elapsed"] \in Nat /\ p_stats[t]["elapsed"] <= now
        BY <1>3
      <4> QED
        BY <1>3, <1>4, <4>1, <4>2
    <3> QED
      BY <3>1, <3>2
  <2>5. now' \in 0 .. MAX_TICKS
    BY <1>4, TicksAssumption
  <2>6. waited' \in [Tasks -> Nat]
    BY DEF WaitedOK
  <2>7. \A t \in Tasks : p_stats'[t]["elapsed"] \in 0 .. now'
    BY <2>4
  <2>8. p_stats' \in [Tasks -> [StatFields -> Nat]]
    BY <2>1 DEF PStats
  <2> QED
    BY <2>1, <2>3, <2>5, <2>6, <2>7, <2>8 DEF StatsTypeOK
<1>8. ASSUME NEW t \in Tasks, t \notin Range(freequeue')
      PROVE  /\ CpuTime(p_stats', t) =
                    ran'[t] - (IF t = current' THEN now' - p_stats'[t]["elapsed"] ELSE 0)
             /\ AllTime(p_stats', t) = p_stats'[t]["elapsed"] - birth'[t]
  <2>1. CASE t = u
    BY <1>2, <1>5, <1>6, <2>1 DEF CpuTime, AllTime
  <2>2. CASE t # u
    <3>1. t \notin Range(freequeue)
      BY <1>8, <2>2
    <3>2. /\ CpuTime(p_stats, t) =
                ran[t] - (IF t = current THEN now - p_stats[t]["elapsed"] ELSE 0)
          /\ AllTime(p_stats, t) = p_stats[t]["elapsed"] - birth[t]
      BY <3>1 DEF AccInv, CpuTimeIsCharged, TicksAddUp, CpuTime, AllTime
    <3>3. CpuTime(p_stats', t) = CpuTime(p_stats, t) /\ AllTime(p_stats', t) = AllTime(p_stats, t)
      BY <1>6, <2>2 DEF CpuTime, AllTime
    <3>4. /\ p_stats'[t] = p_stats[t] /\ birth'[t] = birth[t]
          /\ ran'[t] = IF t = current THEN ran[t] + (at - now) ELSE ran[t]
      BY <1>6, <2>2
    <3>5. AllTime(p_stats', t) = p_stats'[t]["elapsed"] - birth'[t]
      BY <3>2, <3>3, <3>4
    <3>6. CASE t = current
      <4>1. CpuTime(p_stats', t) = ran[t] - (now - p_stats[t]["elapsed"])
        BY <3>2, <3>3, <3>6
      <4>2. ran'[t] = ran[t] + (at - now) /\ t = current' /\ now' = at
        BY <3>4, <3>6
      <4>3. /\ ran[t] \in Nat /\ p_stats[t]["elapsed"] \in Nat
            /\ now \in Nat /\ at \in Nat
        BY <1>3, <1>4
      <4>4. p_stats'[t]["elapsed"] = p_stats[t]["elapsed"]
        BY <3>4
      <4>5. CpuTime(p_stats', t) = ran'[t] - (now' - p_stats'[t]["elapsed"])
        BY ONLY <4>1, <4>2, <4>3, <4>4
      <4>6. t = current'
        BY <4>2
      <4> QED
        BY ONLY <3>5, <4>5, <4>6
    <3>7. CASE t # current
      <4>1. CpuTime(p_stats', t) = ran[t] - 0 /\ ran'[t] = ran[t] /\ t # current'
        BY <3>2, <3>3, <3>4, <3>7
      <4> QED
        BY <3>5, <4>1
    <3> QED
      BY <3>6, <3>7
  <2> QED
    BY <2>1, <2>2
<1>9. CpuTimeIsCharged'
  BY <1>8 DEF CpuTimeIsCharged, CpuTime
<1>10. TicksAddUp'
  BY <1>8 DEF TicksAddUp, CpuTime, AllTime
<1> QED
  BY <1>7, <1>9, <1>10 DEF AccInv

(* Every step of the kernel, every interrupt and the passing of time keep the counters right. *)
LEMMA AccStep ==
    ASSUME AccInv, IInv, IInv', WaitedOK', [StatsNext]_statvars
    PROVE  AccInv'
<1>1. /\ current \in Tasks /\ freequeue \in Seq(Tasks) /\ readyqueue \in Seq(Tasks)
  BY DEF IInv, TypeOK
<1>2. /\ p_stats \in PStats /\ now \in Nat
      /\ \A t \in Tasks : p_stats[t]["elapsed"] \in Nat /\ p_stats[t]["elapsed"] <= now
  BY AccTypes DEF AccInv
<1>3. ASSUME NEW at, Advance(at, at)
      PROVE  at \in Nat /\ now <= at /\ \A t \in Tasks : p_stats[t]["elapsed"] \in 0 .. at
  <2>1. at \in now .. MAX_TICKS
    BY <1>3 DEF Advance
  <2>2. at \in Nat /\ now <= at
    BY <1>2, <2>1, TicksAssumption
  <2> QED
    BY <1>2, <2>2
<1>4. Charged(p_stats, p_stats, now) /\ Charged(p_stats, user_to_system(p_stats, now), now)
  <2>1. Charged(p_stats, p_stats, now)
    BY <1>2 DEF Charged
  <2>2. \A t \in Tasks : p_stats[t]["elapsed"] <= now
    BY <1>2
  <2>3. Charged(p_stats, user_to_system(p_stats, now), now)
    BY <1>1, <1>2, <2>2, ModeChange DEF user_to_system
  <2> QED
    BY <2>1, <2>3
<1>5. ASSUME NEW ps, Charged(p_stats, ps, now), NEW next \in Tasks, Switch(ps, next),
             Running, Running' => current' = next, Range(freequeue) \subseteq Range(freequeue')
      PROVE  AccInv'
  <2>0. PICK closed \in After(now) : \E opened \in After(closed) :
          /\ Advance(closed, opened)
          /\ p_stats' = DispatchStats(ps, next, closed, opened)
    BY <1>5 DEF Switch
  <2>1. PICK opened \in After(closed) :
          /\ Advance(closed, opened)
          /\ p_stats' = DispatchStats(ps, next, closed, opened)
    BY <2>0
  <2>2. closed \in Nat /\ opened \in Nat /\ now <= closed /\ closed <= opened
    <3>1. closed = now \/ closed = now + 1
      BY DEF After
    <3>2. opened = closed \/ opened = closed + 1
      BY DEF After
    <3> QED
      BY <1>2, <3>1, <3>2
  <2>3. Dispatched(p_stats, p_stats', next, closed, opened)
    BY <1>1, <1>2, <1>5, <2>1, <2>2, DispatchCharges
  <2> QED
    BY <1>5, <2>1, <2>2, <2>3, SwitchCharges
<1>6. ASSUME NEW at, Advance(at, at), Running, current' = current,
             Charged(p_stats, p_stats', at), freequeue' = freequeue
      PROVE  AccInv'
  BY <1>6, ChargedStep
<1>7. ASSUME Return(user_to_system(p_stats, now)), Running, current' = current,
             freequeue' = freequeue
      PROVE  AccInv'
  <2> DEFINE entered == user_to_system(p_stats, now)
  <2>1. Charged(p_stats, entered, now)
    BY <1>4
  <2>2. PICK at : Advance(at, at) /\ p_stats' = system_to_user(entered, at)
    BY <1>7 DEF Return
  <2> HIDE DEF entered
  <2>3. at \in Nat /\ now <= at
    BY <1>3, <2>2
  <2>4. entered \in PStats /\ \A t \in Tasks : entered[t]["elapsed"] <= at
    <3>1. entered \in PStats /\ \A t \in Tasks : entered[t]["elapsed"] \in 0 .. now
      BY <2>1 DEF Charged
    <3> QED
      BY <1>2, <2>3, <3>1
  <2>5. Charged(entered, p_stats', at)
    <3>1. Charged(entered, update_stats(entered, current, "system", at), at)
      BY <1>1, <2>3, <2>4, ModeChange
    <3> QED
      BY <2>2, <3>1 DEF system_to_user
  <2>6. Charged(p_stats, p_stats', at)
    BY <2>1, <2>5, ChargedTwice
  <2> QED
    BY <1>6, <1>7, <2>2, <2>6
<1>8. idle_task \in Tasks
  BY Constants
<1>9. CASE S_tick
  <2>1. ClockTick /\ Running /\ freequeue' = freequeue
    BY <1>9 DEF S_tick, ClockTick, InUserMode
  <2>2. CASE remaining_quantum = 1 /\ readyqueue # <<>>
    <3>1. Switch(user_to_system(p_stats, now), Head(readyqueue))
      BY <1>9, <2>2 DEF S_tick
    <3>2. Head(readyqueue) \in Tasks
      BY <1>1, <2>2, DelFirst
    <3>3. Running' => current' = Head(readyqueue)
      <4> SUFFICES ASSUME Running' PROVE current' = Head(readyqueue)
        OBVIOUS
      <4>1. sched_next_rr(Append(readyqueue, current), [state EXCEPT ![current] = ST_READY])
        BY <2>1, <2>2 DEF ClockTick, force_task_switch, Running
      <4>2. Head(Append(readyqueue, current)) = Head(readyqueue)
            /\ Append(readyqueue, current) # <<>>
        BY <1>1, <2>2
      <4> QED
        BY <4>1, <4>2 DEF sched_next_rr, task_switch, Chosen, Running
    <3> QED
      BY <1>4, <1>5, <2>1, <3>1, <3>2, <3>3
  <2>3. CASE ~(remaining_quantum = 1 /\ readyqueue # <<>>)
    <3>1. current' = current
      BY <2>1, <2>3 DEF ClockTick
    <3>2. Return(user_to_system(p_stats, now))
      BY <1>9, <2>3 DEF S_tick
    <3> QED
      BY <1>7, <2>1, <3>1, <3>2
  <2> QED
    BY <2>2, <2>3
<1>10. CASE keyboard_handler
  <2>1. Running /\ current' = current /\ freequeue' = freequeue
    BY <1>10 DEF keyboard_handler, InUserMode, vars
  <2> QED
    BY <1>7, <1>10, <2>1 DEF keyboard_handler
<1>11. CASE S_yield
  <2>1. Switch(p_stats, Chosen(Append(readyqueue, current)))
    BY <1>11 DEF S_yield
  <2>2. sys_yield /\ Running /\ freequeue' = freequeue
    BY <1>11 DEF S_yield, sys_yield, CanCall, InUserMode
  <2>3. Chosen(Append(readyqueue, current)) \in Tasks
    BY <1>1, <1>8, AddTail, DelFirst DEF Chosen
  <2>4. Running' => current' = Chosen(Append(readyqueue, current))
    BY <2>2 DEF sys_yield, force_task_switch, sched_next_rr, task_switch, Running
  <2> QED
    BY <1>4, <1>5, <2>1, <2>2, <2>3, <2>4
<1>12. Chosen(readyqueue) \in Tasks
  BY <1>1, <1>8, DelFirst DEF Chosen
<1>13. CASE S_leave
  <2>1. Switch(p_stats, Chosen(readyqueue))
    BY <1>13 DEF S_leave
  <2>2. LeaveForGood /\ Running
    BY <1>13 DEF S_leave, LeaveForGood, CanCall, InUserMode
  <2>3. Range(freequeue) \subseteq Range(freequeue')
    BY <1>1, <2>2, AddTail DEF LeaveForGood
  <2>4. Running' => current' = Chosen(readyqueue)
    BY <2>2 DEF LeaveForGood, sched_next_rr, task_switch, Running
  <2> QED
    BY <1>4, <1>5, <1>12, <2>1, <2>2, <2>3, <2>4
<1>14. CASE S_sem
  <2>1. /\ Running /\ current \notin in_wait
        /\ \E n \in SemArgs : \/ \E v \in SemValues : sys_sem_init(n, v)
                              \/ sys_sem_wait(n)
                              \/ sys_sem_signal(n)
                              \/ sys_sem_destroy(n)
    BY <1>14 DEF S_sem, SemCall, CanCall, InUserMode
  <2>2. freequeue' = freequeue
    BY <2>1 DEF sys_sem_init, sys_sem_wait, sys_sem_signal, sys_sem_destroy
  <2>3. \/ in_wait' = in_wait /\ current' = current
        \/ current \in in_wait' /\ (Running' => current' = Chosen(readyqueue))
    BY <2>1 DEF sys_sem_init, sys_sem_wait, WaitPass, WaitBlock, sched_next_rr, task_switch,
                sys_sem_signal, sys_sem_destroy, Running
  <2>4. CASE current \in in_wait'
    <3>1. Switch(p_stats, Chosen(readyqueue))
      BY <1>14, <2>4 DEF S_sem
    <3> QED
      BY <1>4, <1>5, <1>12, <2>1, <2>2, <2>3, <2>4, <3>1
  <2>5. CASE current \notin in_wait'
    <3>1. PICK at : Advance(at, at) /\ p_stats' = p_stats
      BY <1>14, <2>5 DEF S_sem
    <3>2. Charged(p_stats, p_stats', at)
      BY <1>2, <1>3, <3>1 DEF Charged
    <3> QED
      BY <1>6, <2>1, <2>2, <2>3, <2>5, <3>1, <3>2
  <2> QED
    BY <2>4, <2>5
<1>15. CASE S_fork
  <2>1. PICK at \in After(now) :
          /\ at <= MAX_TICKS /\ now' = at
          /\ ran' = [ran EXCEPT ![current] = @ + (at - now), ![Head(freequeue)] = 0]
          /\ birth' = [birth EXCEPT ![Head(freequeue)] = at]
          /\ p_stats' = [p_stats EXCEPT ![Head(freequeue)] = init_stats(at)]
    BY <1>15 DEF S_fork
  <2>2. /\ Running /\ freequeue # <<>> /\ current' = current
        /\ freequeue' = Tail(freequeue)
    BY <1>15 DEF S_fork, StartChild, CanCall, InUserMode
  <2>3. Range(freequeue) \subseteq Range(freequeue') \cup {Head(freequeue)}
    BY <1>1, <2>2, DelFirst
  <2>4. at \in Nat /\ at \in now .. MAX_TICKS
    BY <1>2, <2>1, TicksAssumption DEF After
  <2>5. /\ init_stats(at) \in [StatFields -> Nat]
        /\ init_stats(at)["elapsed"] = at
        /\ init_stats(at)["user"] = 0 /\ init_stats(at)["system"] = 0 /\ init_stats(at)["ready"] = 0
    BY <2>4 DEF init_stats, StatFields, Ticks
  <2>6. \A u : u = Head(freequeue) =>
          /\ init_stats(at)["elapsed"] <= at
          /\ init_stats(at)["user"] + init_stats(at)["system"] + init_stats(at)["ready"] =
                init_stats(at)["elapsed"] - at
          /\ init_stats(at)["user"] + init_stats(at)["system"] = 0
    BY <2>4, <2>5
  <2> HIDE DEF init_stats
  <2>7. ran' = [ran EXCEPT ![current] = @ + (at - now),
                           ![Head(freequeue)] = init_stats(at)["user"] + init_stats(at)["system"]]
    BY <2>1, <2>6
  <2> QED
    BY <2>1, <2>2, <2>3, <2>4, <2>5, <2>6, <2>7, SlotStep
<1>16. CASE S_createthread \/ S_fork_fails
  <2> DEFINE row == p_stats[current]
             u == Head(freequeue)
  <2>1. /\ now' = now
        /\ p_stats' = [p_stats EXCEPT ![u] = row]
        /\ ran' = [ran EXCEPT ![u] = row["user"] + row["system"]]
        /\ birth' = [birth EXCEPT ![u] = birth[current]]
    BY <1>16 DEF S_createthread, S_fork_fails, CopyStats
  <2>2. /\ Running /\ freequeue # <<>> /\ current' = current
        /\ freequeue' = Tail(freequeue) \/ freequeue' = Append(Tail(freequeue), Head(freequeue))
    BY <1>16 DEF S_createthread, S_fork_fails, StartChild, ForkNoFrame, CanCall, InUserMode
  <2>3. Range(freequeue) \subseteq Range(freequeue') \cup {u}
    <3>1. /\ u \in Tasks /\ Tail(freequeue) \in Seq(Tasks)
          /\ Range(freequeue) \subseteq Range(Tail(freequeue)) \cup {u}
      BY <1>1, <2>2, DelFirst
    <3>2. \A q \in Seq(Tasks), e \in Tasks : Range(Append(q, e)) = Range(q) \cup {e}
      BY AddTail
    <3> QED
      BY <2>2, <3>1, <3>2
  <2>4. now \in now .. MAX_TICKS
    BY <1>2, TicksAssumption DEF AccInv, StatsTypeOK
  <2>5. /\ row \in [StatFields -> Nat] /\ birth[current] \in Nat
        /\ row["elapsed"] <= now
        /\ row["user"] + row["system"] + row["ready"] = row["elapsed"] - birth[current]
    <3>1. current \notin Range(freequeue)
      BY <2>2 DEF IInv, TypeOK, OneQueue, Free
    <3> QED
      BY <1>1, <1>2, <2>2, <3>1 DEF AccInv, StatsTypeOK, TicksAddUp, PStats
  <2>6. ran' = [ran EXCEPT ![current] = @ + (now - now), ![u] = row["user"] + row["system"]]
    <3>1. ran \in [Tasks -> Nat]
      BY DEF AccInv, StatsTypeOK
    <3>2. ran[current] \in Nat /\ ran[current] + (now - now) = ran[current]
      BY <1>1, <1>2, <3>1
    <3>3. [ran EXCEPT ![current] = @ + (now - now)] = ran
      BY <3>1, <3>2
    <3> QED
      BY <2>1, <3>3
  <2> HIDE DEF row, u
  <2> QED
    BY <2>1, <2>2, <2>3, <2>4, <2>5, <2>6, SlotStep DEF u
<1>17. CASE S_wait_return
  <2>1. UNCHANGED <<now, p_stats, ran, birth, waited, current, freequeue>>
    BY <1>17 DEF S_wait_return, SemWaitReturn, hvars
  <2>2. Running' => Running
    BY <1>17 DEF S_wait_return, SemWaitReturn, Running
  <2> QED
    BY <2>1, <2>2 DEF AccInv, StatsTypeOK, CpuTimeIsCharged, TicksAddUp
<1>18. CASE UserTime
  <2>1. /\ Advance(now + 1, now + 1) /\ Running /\ current' = current /\ freequeue' = freequeue
        /\ p_stats' = p_stats
    BY <1>18 DEF UserTime, InUserMode, vars
  <2>2. Charged(p_stats, p_stats', now + 1)
    BY <1>2, <1>3, <2>1 DEF Charged
  <2> QED
    BY <1>6, <2>1, <2>2
<1>19. CASE UNCHANGED statvars
  BY <1>19 DEF statvars, vars, hvars, AccInv, StatsTypeOK, CpuTimeIsCharged, TicksAddUp, Running
<1> QED
  BY <1>9, <1>10, <1>11, <1>13, <1>14, <1>15, <1>16, <1>17, <1>18, <1>19 DEF StatsNext

(* The statistics of every task are true to the clock: whatever the order of interrupts, calls
   and switches, the counters are natural numbers; user and system ticks are the time the task
   ran, but for what passes between the two readings of sched_next_rr when it leaves; and the
   counters together make its age. *)
THEOREM CountersAreTrueToTheClock == StatsSpec => [](StatsTypeOK /\ CpuTimeIsCharged /\ TicksAddUp)
<1>1. StatsSpec => [](IInv /\ IdleRunsLast)
  BY StatsImplementSched, Invariant, IdleIsTheLast, PTL
<1>2. StatsInit => AccInv /\ WaitedOK /\ WaitBudget
  <2> SUFFICES ASSUME StatsInit PROVE AccInv /\ WaitedOK /\ WaitBudget
    OBVIOUS
  <2>1. /\ now = 0 /\ p_stats = [t \in Tasks |-> init_stats(0)] /\ readyqueue = <<>>
        /\ ran = [t \in Tasks |-> 0]
        /\ birth = [t \in Tasks |-> 0] /\ waited = [t \in Tasks |-> 0]
    BY DEF StatsInit, Init
  <2>2. \A t \in Tasks : /\ p_stats[t] \in [StatFields -> Nat]
                        /\ \A f \in StatFields : p_stats[t][f] = 0
    BY <2>1 DEF init_stats
  <2>3. StatsTypeOK
    <3>1. p_stats \in [Tasks -> [StatFields -> Nat]]
      BY <2>1, <2>2
    <3>2. \A t \in Tasks : p_stats[t]["elapsed"] \in 0 .. now
      BY <2>1, <2>2 DEF StatFields
    <3> QED
      BY <2>1, <3>1, <3>2, TicksAssumption DEF StatsTypeOK
  <2>4. CpuTimeIsCharged /\ TicksAddUp
    BY <2>1, <2>2 DEF CpuTimeIsCharged, TicksAddUp, StatFields, Ticks
  <2>5. WaitedOK /\ WaitBudget
    <3>1. DOMAIN readyqueue = {}
      BY <2>1
    <3> QED
      BY <2>1, <3>1 DEF WaitedOK, WaitBudget
  <2> QED
    BY <2>3, <2>4, <2>5 DEF AccInv
<1>3. IInv /\ IdleRunsLast /\ (IInv /\ IdleRunsLast)' /\ AccInv /\ WaitedOK /\ WaitBudget
      /\ [StatsNext]_statvars => (AccInv /\ WaitedOK /\ WaitBudget)'
  BY BudgetStep, AccStep
<1>4. AccInv => StatsTypeOK /\ CpuTimeIsCharged /\ TicksAddUp
  BY DEF AccInv
<1> QED
  BY <1>1, <1>2, <1>3, <1>4, PTL DEF StatsSpec

(* No tick is lost or charged to two counters. *)
THEOREM TicksAreCharged == StatsSpec => []TicksAddUp
BY CountersAreTrueToTheClock, PTL
=============================================================================
