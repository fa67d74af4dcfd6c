---------------------------- MODULE SchedProofs ----------------------------
(***************************************************************************)
(* The safety invariants of Sched hold for every number of tasks and       *)
(* semaphores, every quantum and every set of initial values.  They are    *)
(* proved together: each one's preservation needs several of the others.   *)
(* With them, the kernel's calls are those of the abstract semaphores.     *)
(***************************************************************************)
EXTENDS SchedRefinement, QueueLemmas

(* What the clock and yield rely on to unlink nothing: the running task is ST_RUN. *)
CurrentIsRun == Running => state[current] = ST_RUN

IInv ==
    /\ TypeOK
    /\ OneQueue
    /\ NoTaskLost
    /\ IdleAvailable
    /\ CounterCountsWaiters
    /\ DestroyedIsPending
    /\ WaitersKeepTheirStack
    /\ ListsSound
    /\ CurrentIsRun

(* The slots that init_idle and init_task1 take exist, and are not the same. *)
LEMMA Constants ==
    /\ idle_task \in Tasks /\ init_task \in Tasks /\ idle_task # init_task
    /\ DEFAULT_QUANTUM \in 1 .. DEFAULT_QUANTUM
    /\ INT_MAX \in Nat
    /\ ST_RUN \in States /\ ST_READY \in States
    /\ ST_RUN # ST_READY
BY SizesAssumption DEF Tasks, idle_task, init_task, States, ST_RUN, ST_READY

-----------------------------------------------------------------------------
(* Dispatching *)

(* sched_next_rr takes exactly one task, the first ready one or else idle, off the queue it
   is given, and unless the switch goes wrong that task is now the current one. *)
LEMMA Dispatch ==
    ASSUME TypeOK,
           NEW rq \in Seq(Tasks), IsInjective(rq),
           NEW st \in [Tasks -> States],
           sched_next_rr(rq, st)
    PROVE  /\ readyqueue' \in Seq(Tasks) /\ IsInjective(readyqueue')
           /\ Chosen(rq) \in Tasks
           /\ rq = <<>> => Chosen(rq) = idle_task
           /\ rq # <<>> => Chosen(rq) \in Range(rq)
           /\ \A t : t \in Range(readyqueue') <=> t \in Range(rq) /\ t # Chosen(rq)
           /\ remaining_quantum' \in 1 .. DEFAULT_QUANTUM
           /\ state' \in [Tasks -> States] /\ state'[Chosen(rq)] = ST_RUN
           /\ current' \in Tasks /\ saved_esp' \subseteq Tasks
           /\ fault' \in {fault, "stack"}
           /\ Running' => current' = Chosen(rq) /\ Running
<1>1. /\ readyqueue' = Rest(rq)
      /\ state' = [st EXCEPT ![Chosen(rq)] = ST_RUN]
      /\ remaining_quantum' = DEFAULT_QUANTUM
      /\ task_switch(Chosen(rq))
  BY DEF sched_next_rr
<1>2. /\ Chosen(rq) \in Tasks
      /\ readyqueue' \in Seq(Tasks) /\ IsInjective(readyqueue')
      /\ rq = <<>> => Chosen(rq) = idle_task
      /\ rq # <<>> => Chosen(rq) \in Range(rq)
      /\ \A t : t \in Range(readyqueue') <=> t \in Range(rq) /\ t # Chosen(rq)
  <2>1. CASE rq = <<>>
    BY <1>1, <2>1, EmptyQueue, Constants DEF Chosen, Rest
  <2>2. CASE rq # <<>>
    BY <1>1, <2>2, DelFirst DEF Chosen, Rest
  <2> QED
    BY <2>1, <2>2
<1>3. state' \in [Tasks -> States] /\ state'[Chosen(rq)] = ST_RUN
  BY <1>1, <1>2, Constants
<1>4. /\ current' \in Tasks /\ saved_esp' \subseteq Tasks
      /\ fault' \in {fault, "stack"}
      /\ Running' => current' = Chosen(rq) /\ Running
  BY <1>1, <1>2 DEF task_switch, TypeOK, Running
<1> QED
  BY <1>1, <1>2, <1>3, <1>4, Constants

(* force_task_switch: current goes to the tail of the ready queue, and the head runs. *)
LEMMA Requeue ==
    ASSUME IInv, Running, ~Ready(current), force_task_switch
    PROVE  /\ readyqueue' \in Seq(Tasks) /\ IsInjective(readyqueue')
           /\ \A t : t \in Range(readyqueue') => t = current \/ Ready(t)
           /\ remaining_quantum' \in 1 .. DEFAULT_QUANTUM
           /\ state' \in [Tasks -> States]
           /\ current' \in Tasks /\ saved_esp' \subseteq Tasks
           /\ fault' \in {fault, "stack"}
           /\ Running' => /\ \A t : t = current \/ Ready(t) <=> t = current' \/ Ready(t)'
                          /\ ~Ready(current)'
                          /\ state'[current'] = ST_RUN
<1>1. state[current] = ST_RUN /\ TypeOK /\ IsInjective(readyqueue)
  BY DEF IInv, CurrentIsRun, OneQueue
<1> DEFINE rq == Append(readyqueue, current)
           st == [state EXCEPT ![current] = ST_READY]
<1>2. sched_next_rr(rq, st)
  BY <1>1 DEF force_task_switch
<1>3. /\ rq \in Seq(Tasks) /\ IsInjective(rq) /\ rq # <<>>
      /\ Range(rq) = Range(readyqueue) \cup {current}
  <2>1. readyqueue \in Seq(Tasks) /\ current \in Tasks /\ current \notin Range(readyqueue)
    BY <1>1 DEF TypeOK, Ready
  <2> QED
    BY <1>1, <2>1, AddTail
<1>4. st \in [Tasks -> States]
  <2>1. state \in [Tasks -> States] /\ ST_READY \in States
    BY <1>1, Constants DEF TypeOK
  <2> QED
    BY ONLY <2>1
<1> HIDE DEF rq, st
<1>5. /\ readyqueue' \in Seq(Tasks) /\ IsInjective(readyqueue')
      /\ Chosen(rq) \in Range(rq)
      /\ \A t : t \in Range(readyqueue') <=> t \in Range(rq) /\ t # Chosen(rq)
      /\ remaining_quantum' \in 1 .. DEFAULT_QUANTUM
      /\ state' \in [Tasks -> States] /\ state'[Chosen(rq)] = ST_RUN
      /\ current' \in Tasks /\ saved_esp' \subseteq Tasks
      /\ fault' \in {fault, "stack"}
      /\ Running' => current' = Chosen(rq) /\ Running
  BY <1>1, <1>2, <1>3, <1>4, Dispatch
<1>6. \A t : Ready(t)' => t = current \/ Ready(t)
  BY <1>3, <1>5 DEF Ready
<1>7. ASSUME Running'
      PROVE  /\ \A t : (t = current \/ Ready(t)) <=> (t = current' \/ Ready(t)')
             /\ ~Ready(current)'
             /\ state'[current'] = ST_RUN
  BY <1>3, <1>5, <1>7 DEF Ready
<1> QED
  BY <1>5, <1>6, <1>7 DEF Ready

(* A step of the scheduler alone: the clock, yield, or neither. *)
LEMMA SwitchStep ==
    ASSUME IInv, CanCall \/ InUserMode,
           UNCHANGED <<freequeue, destroyed, in_wait, svars>>,
           \/ force_task_switch
           \/ /\ remaining_quantum' \in 1 .. DEFAULT_QUANTUM
              /\ UNCHANGED <<readyqueue, current, state, saved_esp, fault>>
    PROVE  IInv'
<1>1. /\ Running /\ current \notin in_wait
      /\ TypeOK /\ OneQueue /\ NoTaskLost /\ IdleAvailable /\ CounterCountsWaiters
      /\ DestroyedIsPending /\ WaitersKeepTheirStack /\ ListsSound /\ CurrentIsRun
  BY DEF IInv, CanCall, InUserMode
<1>2. ~Free(current) /\ ~Ready(current) /\ ~Blocked(current)
  BY <1>1 DEF OneQueue
<1>3. /\ readyqueue' \in Seq(Tasks) /\ IsInjective(readyqueue')
      /\ \A t : Ready(t)' => t = current \/ Ready(t)
      /\ remaining_quantum' \in 1 .. DEFAULT_QUANTUM
      /\ state' \in [Tasks -> States]
      /\ current' \in Tasks /\ saved_esp' \subseteq Tasks
      /\ fault' \in {fault, "stack"}
      /\ Running' => /\ \A t : t = current \/ Ready(t) <=> t = current' \/ Ready(t)'
                     /\ ~Ready(current)'
                     /\ state'[current'] = ST_RUN
  <2>1. CASE force_task_switch
    BY <1>1, <1>2, <2>1, Requeue DEF Ready
  <2>2. CASE /\ remaining_quantum' \in 1 .. DEFAULT_QUANTUM
             /\ UNCHANGED <<readyqueue, current, state, saved_esp, fault>>
    BY <1>1, <1>2, <2>2 DEF TypeOK, Ready, OneQueue, CurrentIsRun
  <2> QED
    BY <2>1, <2>2
<1>4. /\ \A t : Free(t)' <=> Free(t)
      /\ \A t, s : BlockedOn(t, s)' <=> BlockedOn(t, s)
      /\ \A t : Blocked(t)' <=> Blocked(t)
  BY DEF Free, BlockedOn, Blocked, svars
<1>5. TypeOK'
  BY <1>1, <1>3 DEF TypeOK, svars, Faults, Running
<1>6. OneQueue'
  BY <1>1, <1>2, <1>3, <1>4 DEF OneQueue, svars
<1>7. NoTaskLost'
  BY <1>1, <1>3, <1>4 DEF NoTaskLost
<1>8. IdleAvailable' /\ CounterCountsWaiters' /\ DestroyedIsPending'
  BY <1>1, <1>4 DEF IdleAvailable, CounterCountsWaiters, DestroyedIsPending, svars
<1>9. WaitersKeepTheirStack'
  BY <1>1, <1>3, <1>4 DEF WaitersKeepTheirStack
<1>10. ListsSound' /\ CurrentIsRun'
  BY <1>1, <1>3 DEF ListsSound, CurrentIsRun
<1> QED
  BY <1>5, <1>6, <1>7, <1>8, <1>9, <1>10 DEF IInv

-----------------------------------------------------------------------------
(* Processes and threads *)

(* fork and createthread, whatever becomes of the new task: the first free slot is overwritten
   with a copy of its creator and goes to the ready queue, back to the free queue, or nowhere
   because the kernel stops. *)
LEMMA CopyStep ==
    ASSUME IInv, CanCall, freequeue # <<>>,
           NEW st \in States, CopyTaskStruct(Head(freequeue), st),
           saved_esp' \subseteq Tasks,
           UNCHANGED <<current, remaining_quantum, in_wait, svars>>,
           \/ /\ freequeue' = Tail(freequeue)
              /\ readyqueue' = Append(readyqueue, Head(freequeue))
              /\ UNCHANGED fault
           \/ /\ freequeue' = Append(Tail(freequeue), Head(freequeue))
              /\ UNCHANGED <<readyqueue, fault>>
           \/ /\ freequeue' = Tail(freequeue)
              /\ fault' = "page"
              /\ UNCHANGED readyqueue
    PROVE  IInv'
<1> DEFINE u == Head(freequeue)
<1>1. /\ Running /\ current \notin in_wait /\ current # idle_task
      /\ TypeOK /\ OneQueue /\ NoTaskLost /\ IdleAvailable /\ CounterCountsWaiters
      /\ DestroyedIsPending /\ WaitersKeepTheirStack /\ ListsSound /\ CurrentIsRun
  BY DEF IInv, CanCall, InUserMode
<1>2. ~Free(current) /\ ~Ready(current) /\ ~Blocked(current)
  BY <1>1 DEF OneQueue
<1>3. /\ freequeue \in Seq(Tasks) /\ readyqueue \in Seq(Tasks)
      /\ IsInjective(freequeue) /\ IsInjective(readyqueue)
  BY <1>1 DEF TypeOK, OneQueue
<1>4. /\ u \in Tasks /\ Free(u)
      /\ Tail(freequeue) \in Seq(Tasks) /\ IsInjective(Tail(freequeue))
      /\ \A t : t \in Range(Tail(freequeue)) <=> Free(t) /\ t # u
  BY <1>3, DelFirst DEF Free
<1>5. /\ u # current /\ ~Ready(u) /\ ~Blocked(u) /\ u \notin in_wait /\ u # idle_task
  BY <1>1, <1>2, <1>4 DEF OneQueue, WaitersKeepTheirStack, IdleAvailable
<1>6. \A t, s : BlockedOn(t, s)' <=> BlockedOn(t, s)
  BY DEF BlockedOn, svars
<1>7. \A t : Blocked(t)' <=> Blocked(t)
  BY <1>6 DEF Blocked
<1>8. /\ state' = [state EXCEPT ![u] = st]
      /\ destroyed' = [destroyed EXCEPT ![u] = destroyed[current]]
  BY DEF CopyTaskStruct
<1>9. destroyed[current] = 0 /\ current \in Tasks
  BY <1>1 DEF TypeOK, DestroyedIsPending
<1>10. \A t \in Tasks : destroyed'[t] = 1 => destroyed[t] = 1
  BY <1>1, <1>4, <1>8, <1>9 DEF TypeOK
<1>11. /\ freequeue' \in Seq(Tasks) /\ readyqueue' \in Seq(Tasks)
       /\ IsInjective(freequeue') /\ IsInjective(readyqueue')
       /\ \A t : Free(t)' \/ Ready(t)' => Free(t) \/ Ready(t)
       /\ \A t : ~(Free(t)' /\ Ready(t)')
       /\ Running' => \A t : Free(t) \/ Ready(t) => Free(t)' \/ Ready(t)'
       /\ \A t : t # u => (Free(t)' <=> Free(t)) /\ (Ready(t)' <=> Ready(t))
       /\ fault' \in {fault, "page"}
  <2>1. CASE /\ freequeue' = Tail(freequeue)
             /\ readyqueue' = Append(readyqueue, u)
             /\ UNCHANGED fault
    <3>1. /\ readyqueue' \in Seq(Tasks) /\ IsInjective(readyqueue')
          /\ Range(readyqueue') = Range(readyqueue) \cup {u}
      BY <1>3, <1>4, <1>5, <2>1, AddTail DEF Ready
    <3>2. /\ \A t : Ready(t)' <=> Ready(t) \/ t = u
          /\ \A t : Free(t)' <=> Free(t) /\ t # u
      BY <1>4, <2>1, <3>1 DEF Ready, Free
    <3>3. \A t : Free(t) => t \in Tasks
      BY <1>3, RangeOfSeq DEF Free
    <3>4. \A t : ~(Free(t) /\ Ready(t))
      BY <1>1, <3>3 DEF OneQueue
    <3> QED
      BY <1>4, <2>1, <3>1, <3>2, <3>4
  <2>2. CASE /\ freequeue' = Append(Tail(freequeue), u)
             /\ UNCHANGED <<readyqueue, fault>>
    <3>1. /\ freequeue' \in Seq(Tasks) /\ IsInjective(freequeue')
          /\ Range(freequeue') = Range(Tail(freequeue)) \cup {u}
      <4> DEFINE rest == Tail(freequeue)
      <4>1. /\ u \notin Range(rest) /\ rest \in Seq(Tasks) /\ IsInjective(rest)
            /\ freequeue' = Append(rest, u) /\ u \in Tasks
        BY <1>4, <2>2
      <4> HIDE DEF u, rest
      <4>2. freequeue' \in Seq(Tasks) /\ IsInjective(freequeue') /\ Range(freequeue') = Range(rest) \cup {u}
        BY <4>1, AddTail
      <4> QED
        BY <4>2 DEF rest
    <3>2. \A t : (Free(t)' <=> Free(t)) /\ (Ready(t)' <=> Ready(t))
      BY <1>4, <2>2, <3>1 DEF Ready, Free
    <3>3. \A t : Free(t) => t \in Tasks
      BY <1>3, RangeOfSeq DEF Free
    <3>4. \A t : ~(Free(t) /\ Ready(t))
      BY <1>1, <3>3 DEF OneQueue
    <3> QED
      BY <1>3, <2>2, <3>1, <3>2, <3>4
  <2>3. CASE /\ freequeue' = Tail(freequeue)
             /\ fault' = "page"
             /\ UNCHANGED readyqueue
    <3>1. \A t : (Free(t)' <=> Free(t) /\ t # u) /\ (Ready(t)' <=> Ready(t))
      BY <1>4, <2>3 DEF Ready, Free
    <3>2. \A t : Free(t) => t \in Tasks
      BY <1>3, RangeOfSeq DEF Free
    <3>3. \A t : ~(Free(t) /\ Ready(t))
      BY <1>1, <3>2 DEF OneQueue
    <3>4. ~Running'
      BY <2>3 DEF Running
    <3> QED
      BY <1>3, <1>4, <2>3, <3>1, <3>3, <3>4
  <2> QED
    BY <2>1, <2>2, <2>3
<1> HIDE DEF u
<1>12. TypeOK'
  BY <1>1, <1>4, <1>8, <1>9, <1>11 DEF TypeOK, svars, Faults
<1>13. OneQueue'
  BY <1>1, <1>2, <1>5, <1>6, <1>7, <1>11 DEF OneQueue, svars
<1>14. NoTaskLost'
  BY <1>1, <1>7, <1>11 DEF NoTaskLost
<1>15. IdleAvailable' /\ CounterCountsWaiters' /\ DestroyedIsPending'
  BY <1>1, <1>5, <1>7, <1>10, <1>11 DEF IdleAvailable, CounterCountsWaiters, DestroyedIsPending, svars
<1>16. WaitersKeepTheirStack'
  BY <1>1, <1>5, <1>7, <1>11 DEF WaitersKeepTheirStack
<1>17. ListsSound' /\ CurrentIsRun'
  BY <1>1, <1>4, <1>5, <1>8, <1>9, <1>11 DEF ListsSound, CurrentIsRun, TypeOK, Running
<1> QED
  BY <1>12, <1>13, <1>14, <1>15, <1>16, <1>17 DEF IInv

(* When current leaves the CPU without going back to the ready queue, the task that gets it
   is another one, and it was in no other queue. *)
LEMMA SwitchAway ==
    ASSUME IInv, CanCall, sched_next_rr(readyqueue, state)
    PROVE  \E c \in Tasks :
              /\ c # current /\ ~Free(c) /\ ~Blocked(c)
              /\ readyqueue' \in Seq(Tasks) /\ IsInjective(readyqueue')
              /\ \A t : Ready(t)' <=> Ready(t) /\ t # c
              /\ remaining_quantum' \in 1 .. DEFAULT_QUANTUM
              /\ state' \in [Tasks -> States]
              /\ current' \in Tasks /\ saved_esp' \subseteq Tasks
              /\ fault' \in {fault, "stack"}
              /\ Running' => current' = c /\ state'[c] = ST_RUN
<1>1. /\ TypeOK /\ OneQueue /\ IdleAvailable /\ current # idle_task
      /\ Running /\ ~Ready(current)
  BY DEF IInv, CanCall, InUserMode, OneQueue
<1>2. readyqueue \in Seq(Tasks) /\ IsInjective(readyqueue) /\ state \in [Tasks -> States]
  BY <1>1 DEF TypeOK, OneQueue
<1> DEFINE c == Chosen(readyqueue)
<1>3. /\ readyqueue' \in Seq(Tasks) /\ IsInjective(readyqueue')
      /\ c \in Tasks
      /\ readyqueue = <<>> => c = idle_task
      /\ readyqueue # <<>> => c \in Range(readyqueue)
      /\ \A t : t \in Range(readyqueue') <=> t \in Range(readyqueue) /\ t # c
      /\ remaining_quantum' \in 1 .. DEFAULT_QUANTUM
      /\ state' \in [Tasks -> States] /\ state'[c] = ST_RUN
      /\ current' \in Tasks /\ saved_esp' \subseteq Tasks
      /\ fault' \in {fault, "stack"}
      /\ Running' => current' = c
  BY <1>1, <1>2, Dispatch
<1> HIDE DEF c
<1>4. c # current /\ ~Free(c) /\ ~Blocked(c)
  <2>1. CASE readyqueue = <<>>
    BY <1>1, <1>3, <2>1 DEF IdleAvailable
  <2>2. CASE readyqueue # <<>>
    BY <1>1, <1>3, <2>2 DEF OneQueue, Ready
  <2> QED
    BY <2>1, <2>2
<1>5. \A t : Ready(t)' <=> Ready(t) /\ t # c
  BY <1>3 DEF Ready
<1> QED
  BY <1>3, <1>4, <1>5

(* exit and terminatethread: the slot of the running task becomes free. *)
LEMMA LeaveStep ==
    ASSUME IInv, LeaveForGood
    PROVE  IInv'
<1>1. /\ Running /\ current \notin in_wait /\ current # idle_task /\ CanCall
      /\ TypeOK /\ OneQueue /\ NoTaskLost /\ IdleAvailable /\ CounterCountsWaiters
      /\ DestroyedIsPending /\ WaitersKeepTheirStack /\ ListsSound /\ CurrentIsRun
      /\ sched_next_rr(readyqueue, state)
      /\ freequeue' = Append(freequeue, current)
      /\ UNCHANGED <<destroyed, in_wait, svars>>
  BY DEF IInv, CanCall, InUserMode, LeaveForGood
<1>2. ~Free(current) /\ ~Ready(current) /\ ~Blocked(current) /\ current \in Tasks
  BY <1>1 DEF OneQueue, TypeOK
<1>3. PICK c \in Tasks :
              /\ c # current /\ ~Free(c) /\ ~Blocked(c)
              /\ readyqueue' \in Seq(Tasks) /\ IsInjective(readyqueue')
              /\ \A t : Ready(t)' <=> Ready(t) /\ t # c
              /\ remaining_quantum' \in 1 .. DEFAULT_QUANTUM
              /\ state' \in [Tasks -> States]
              /\ current' \in Tasks /\ saved_esp' \subseteq Tasks
              /\ fault' \in {fault, "stack"}
              /\ Running' => current' = c /\ state'[c] = ST_RUN
  BY <1>1, SwitchAway
<1>4. /\ freequeue' \in Seq(Tasks) /\ IsInjective(freequeue')
      /\ \A t : Free(t)' <=> Free(t) \/ t = current
  BY <1>1, <1>2, AddTail DEF TypeOK, OneQueue, Free
<1>5. /\ \A t, s : BlockedOn(t, s)' <=> BlockedOn(t, s)
      /\ \A t : Blocked(t)' <=> Blocked(t)
  BY <1>1 DEF BlockedOn, Blocked, svars
<1>6. TypeOK'
  BY <1>1, <1>3, <1>4 DEF TypeOK, svars, Faults
<1>7. OneQueue'
  BY <1>1, <1>2, <1>3, <1>4, <1>5 DEF OneQueue, svars
<1>8. NoTaskLost'
  BY <1>1, <1>3, <1>4, <1>5 DEF NoTaskLost
<1>9. IdleAvailable' /\ CounterCountsWaiters' /\ DestroyedIsPending'
  BY <1>1, <1>4, <1>5 DEF IdleAvailable, CounterCountsWaiters, DestroyedIsPending, svars
<1>10. WaitersKeepTheirStack'
  BY <1>1, <1>3, <1>5 DEF WaitersKeepTheirStack
<1>11. ListsSound' /\ CurrentIsRun'
  BY <1>1, <1>3 DEF ListsSound, CurrentIsRun
<1> QED
  BY <1>6, <1>7, <1>8, <1>9, <1>10, <1>11 DEF IInv

-----------------------------------------------------------------------------
(* Semaphores *)

(* sem_init: the counter and the queue of a semaphore that does not exist are set. *)
LEMMA InitStep ==
    ASSUME IInv, CanCall, NEW n \in SemArgs, NEW v \in SemValues, sys_sem_init(n, v)
    PROVE  IInv'
<1>1. /\ TypeOK /\ OneQueue /\ NoTaskLost /\ IdleAvailable /\ CounterCountsWaiters
      /\ DestroyedIsPending /\ WaitersKeepTheirStack /\ ListsSound /\ CurrentIsRun
      /\ n \in Sems /\ isInit[n] = FALSE
      /\ counter' = [counter EXCEPT ![n] = AsInt(v)]
      /\ blocked' = [blocked EXCEPT ![n] = <<>>]
      /\ isInit' = [isInit EXCEPT ![n] = TRUE]
      /\ UNCHANGED <<freequeue, readyqueue, current, remaining_quantum, tvars, in_wait, fault>>
  BY DEF IInv, sys_sem_init, valid_sem
<1>2. AsInt(v) \in Int /\ (SemValuesFit => AsInt(v) >= 0)
  BY SizesAssumption, SemValuesAssumption DEF AsInt, SemValuesFit
<1>3. \A s \in Sems : /\ blocked'[s] \in Seq(Tasks) /\ IsInjective(blocked'[s])
                      /\ Range(blocked'[s]) \subseteq Range(blocked[s])
                      /\ s # n => blocked'[s] = blocked[s]
  BY <1>1, EmptyQueue DEF TypeOK, OneQueue
<1>4. /\ blocked' = blocked
      /\ \A t, s : BlockedOn(t, s)' <=> BlockedOn(t, s)
      /\ \A t : (Blocked(t)' <=> Blocked(t)) /\ (Ready(t)' <=> Ready(t)) /\ (Free(t)' <=> Free(t))
  <2>1. blocked' = blocked
    BY <1>1 DEF CounterCountsWaiters, TypeOK
  <2> QED
    BY <1>1, <2>1 DEF BlockedOn, Blocked, Ready, Free
<1>5. TypeOK'
  BY <1>1, <1>2, <1>4 DEF TypeOK, tvars
<1>6. OneQueue' /\ NoTaskLost' /\ IdleAvailable'
  BY <1>1, <1>4 DEF OneQueue, NoTaskLost, IdleAvailable, tvars, Running
<1>7. CounterCountsWaiters'
  <2>1. \A s \in Sems : ~isInit'[s] => blocked'[s] = <<>>
    BY <1>1, <1>4 DEF CounterCountsWaiters, TypeOK
  <2>2. ASSUME SemValuesFit, NEW s \in Sems, isInit'[s]
        PROVE  Len(blocked'[s]) = IF counter'[s] < 0 THEN -counter'[s] ELSE 0
    <3>1. CASE s = n
      BY <1>1, <1>2, <1>4, <2>2, <3>1, EmptyQueue DEF CounterCountsWaiters, TypeOK
    <3>2. CASE s # n
      BY <1>1, <1>4, <2>2, <3>2 DEF CounterCountsWaiters, TypeOK
    <3> QED
      BY <3>1, <3>2
  <2> QED
    BY <2>1, <2>2 DEF CounterCountsWaiters, SemValuesFit
<1>8. DestroyedIsPending' /\ WaitersKeepTheirStack' /\ ListsSound' /\ CurrentIsRun'
  BY <1>1, <1>4 DEF DestroyedIsPending, WaitersKeepTheirStack, ListsSound, CurrentIsRun, tvars, Running
<1> QED
  BY <1>5, <1>6, <1>7, <1>8 DEF IInv

(* A wait that finds a unit. *)
LEMMA PassStep ==
    ASSUME IInv, CanCall, NEW n \in SemArgs, sys_sem_wait(n), WaitPass(n)
    PROVE  IInv'
<1>1. /\ TypeOK /\ OneQueue /\ NoTaskLost /\ IdleAvailable /\ CounterCountsWaiters
      /\ DestroyedIsPending /\ WaitersKeepTheirStack /\ ListsSound /\ CurrentIsRun
      /\ n \in Sems /\ counter[n] > 0
      /\ counter' = [counter EXCEPT ![n] = @ - 1]
      /\ destroyed' = [destroyed EXCEPT ![current] = 0]
      /\ UNCHANGED <<freequeue, readyqueue, current, remaining_quantum, state, saved_esp,
                     in_wait, isInit, blocked, fault>>
  BY DEF IInv, sys_sem_wait, valid_sem, WaitPass
<1>2. /\ \A t, s : BlockedOn(t, s)' <=> BlockedOn(t, s)
      /\ \A t : (Blocked(t)' <=> Blocked(t)) /\ (Ready(t)' <=> Ready(t)) /\ (Free(t)' <=> Free(t))
  BY <1>1 DEF BlockedOn, Blocked, Ready, Free
<1>3. TypeOK'
  BY <1>1 DEF TypeOK
<1>4. OneQueue' /\ NoTaskLost' /\ IdleAvailable'
  BY <1>1, <1>2 DEF OneQueue, NoTaskLost, IdleAvailable, Running
<1>5. CounterCountsWaiters'
  BY <1>1 DEF CounterCountsWaiters, TypeOK, SemValuesFit
<1>6. DestroyedIsPending' /\ WaitersKeepTheirStack' /\ ListsSound' /\ CurrentIsRun'
  BY <1>1, <1>2 DEF DestroyedIsPending, WaitersKeepTheirStack, ListsSound, CurrentIsRun, Running, TypeOK
<1> QED
  BY <1>3, <1>4, <1>5, <1>6 DEF IInv

(* A wait that blocks. *)
LEMMA BlockStep ==
    ASSUME IInv, CanCall, NEW n \in SemArgs, sys_sem_wait(n), WaitBlock(n)
    PROVE  IInv'
<1>1. /\ Running /\ current \notin in_wait /\ current # idle_task
      /\ TypeOK /\ OneQueue /\ NoTaskLost /\ IdleAvailable /\ CounterCountsWaiters
      /\ DestroyedIsPending /\ WaitersKeepTheirStack /\ ListsSound /\ CurrentIsRun
      /\ n \in Sems /\ isInit[n] /\ counter[n] <= 0
      /\ counter' = [counter EXCEPT ![n] = @ - 1]
      /\ blocked' = [blocked EXCEPT ![n] = Append(@, current)]
      /\ in_wait' = in_wait \cup {current}
      /\ sched_next_rr(readyqueue, state)
      /\ UNCHANGED <<freequeue, destroyed, isInit>>
  BY DEF IInv, CanCall, InUserMode, sys_sem_wait, valid_sem, WaitBlock, TypeOK
<1>2. ~Free(current) /\ ~Ready(current) /\ ~Blocked(current) /\ current \in Tasks
  BY <1>1 DEF OneQueue, TypeOK
<1>3. PICK c \in Tasks :
              /\ c # current /\ ~Free(c) /\ ~Blocked(c)
              /\ readyqueue' \in Seq(Tasks) /\ IsInjective(readyqueue')
              /\ \A t : Ready(t)' <=> Ready(t) /\ t # c
              /\ remaining_quantum' \in 1 .. DEFAULT_QUANTUM
              /\ state' \in [Tasks -> States]
              /\ current' \in Tasks /\ saved_esp' \subseteq Tasks
              /\ fault' \in {fault, "stack"}
              /\ Running' => current' = c /\ state'[c] = ST_RUN
  BY <1>1, SwitchAway
<1> DEFINE q == blocked[n]
<1>4. q \in Seq(Tasks) /\ IsInjective(q) /\ current \notin Range(q) /\ Len(q) \in Nat
  BY <1>1, <1>2, LenZero DEF TypeOK, OneQueue, Blocked, BlockedOn
<1>5. /\ Append(q, current) \in Seq(Tasks) /\ IsInjective(Append(q, current))
      /\ Range(Append(q, current)) = Range(q) \cup {current}
      /\ Len(Append(q, current)) = Len(q) + 1
  BY <1>2, <1>4, AddTail
<1>6. /\ blocked'[n] = Append(q, current)
      /\ \A s \in Sems : s # n => blocked'[s] = blocked[s]
  BY <1>1 DEF TypeOK
<1>7. \A t : \A s \in Sems : BlockedOn(t, s)' <=> BlockedOn(t, s) \/ (t = current /\ s = n)
  BY <1>5, <1>6 DEF BlockedOn
<1>8. \A t : (Blocked(t)' <=> Blocked(t) \/ t = current) /\ (Free(t)' <=> Free(t))
  BY <1>1, <1>7 DEF Blocked, Free
<1>9. TypeOK'
  BY <1>1, <1>2, <1>3, <1>5 DEF TypeOK, Faults
<1>10. \A s \in Sems : IsInjective(blocked'[s])
  BY <1>1, <1>5, <1>6 DEF OneQueue
<1>11. OneQueue'
  <2>1. \A t \in Tasks : \A r, s \in Sems : BlockedOn(t, r)' /\ BlockedOn(t, s)' => r = s
    BY <1>1, <1>2, <1>7 DEF OneQueue, Blocked
  <2> QED
    BY <1>1, <1>2, <1>3, <1>8, <1>10, <2>1 DEF OneQueue
<1>12. NoTaskLost' /\ IdleAvailable'
  BY <1>1, <1>3, <1>8 DEF NoTaskLost, IdleAvailable
<1>13. CounterCountsWaiters'
  <2>1. \A s \in Sems : ~isInit'[s] => blocked'[s] = <<>>
    BY <1>1, <1>6 DEF CounterCountsWaiters
  <2>2. ASSUME SemValuesFit, NEW s \in Sems, isInit'[s]
        PROVE  Len(blocked'[s]) = IF counter'[s] < 0 THEN -counter'[s] ELSE 0
    <3>1. CASE s = n
      BY <1>1, <1>4, <1>5, <1>6, <2>2, <3>1 DEF CounterCountsWaiters, TypeOK
    <3>2. CASE s # n
      BY <1>1, <1>6, <2>2, <3>2 DEF CounterCountsWaiters, TypeOK
    <3> QED
      BY <3>1, <3>2
  <2> QED
    BY <2>1, <2>2 DEF CounterCountsWaiters, SemValuesFit
<1>14. DestroyedIsPending'
  BY <1>1, <1>8 DEF DestroyedIsPending
<1>15. WaitersKeepTheirStack'
  BY <1>1, <1>3, <1>8 DEF WaitersKeepTheirStack
<1>16. ListsSound' /\ CurrentIsRun'
  BY <1>1, <1>3 DEF ListsSound, CurrentIsRun, SemValuesFit
<1> QED
  BY <1>9, <1>11, <1>12, <1>13, <1>14, <1>15, <1>16 DEF IInv

(* The second half of sys_sem_wait. *)
LEMMA ReturnStep ==
    ASSUME IInv, SemWaitReturn
    PROVE  IInv'
<1>1. /\ TypeOK /\ OneQueue /\ NoTaskLost /\ IdleAvailable /\ CounterCountsWaiters
      /\ DestroyedIsPending /\ WaitersKeepTheirStack /\ ListsSound /\ CurrentIsRun
      /\ Running
      /\ in_wait' = in_wait \ {current}
      /\ destroyed' = [destroyed EXCEPT ![current] = 0]
      /\ UNCHANGED <<freequeue, readyqueue, current, remaining_quantum, state, saved_esp, svars,
                     fault>>
  BY DEF IInv, SemWaitReturn
<1>2. ~Blocked(current) /\ current \in Tasks
  BY <1>1 DEF OneQueue, TypeOK
<1>3. /\ \A t, s : BlockedOn(t, s)' <=> BlockedOn(t, s)
      /\ \A t : (Blocked(t)' <=> Blocked(t)) /\ (Ready(t)' <=> Ready(t)) /\ (Free(t)' <=> Free(t))
  BY <1>1 DEF BlockedOn, Blocked, Ready, Free, svars
<1>4. TypeOK'
  BY <1>1 DEF TypeOK, svars
<1>5. OneQueue' /\ NoTaskLost' /\ IdleAvailable' /\ CounterCountsWaiters'
  BY <1>1, <1>3 DEF OneQueue, NoTaskLost, IdleAvailable, CounterCountsWaiters, svars, Running
<1>6. DestroyedIsPending' /\ WaitersKeepTheirStack' /\ ListsSound' /\ CurrentIsRun'
  BY <1>1, <1>2, <1>3 DEF DestroyedIsPending, WaitersKeepTheirStack, ListsSound, CurrentIsRun,
                          Running, TypeOK
<1> QED
  BY <1>4, <1>5, <1>6 DEF IInv

(* sem_signal: a unit is kept, or the first waiter becomes ready. *)
LEMMA SignalStep ==
    ASSUME IInv, CanCall, NEW n \in SemArgs, sys_sem_signal(n)
    PROVE  IInv'
<1>1. /\ TypeOK /\ OneQueue /\ NoTaskLost /\ IdleAvailable /\ CounterCountsWaiters
      /\ DestroyedIsPending /\ WaitersKeepTheirStack /\ ListsSound /\ CurrentIsRun
      /\ n \in Sems /\ isInit[n] /\ Running
      /\ counter' = [counter EXCEPT ![n] = @ + 1]
      /\ SignalPost(n) \/ SignalWake(n)
      /\ UNCHANGED <<freequeue, current, remaining_quantum, tvars, in_wait, isInit>>
  BY DEF IInv, CanCall, InUserMode, sys_sem_signal, valid_sem, TypeOK
<1>2. CASE SignalPost(n) \/ (counter[n] < 0 /\ blocked[n] = <<>>)
  <2>1. UNCHANGED <<readyqueue, blocked>>
    BY <1>1, <1>2 DEF SignalPost, SignalWake, TypeOK
  <2>2. /\ counter[n] >= 0 /\ UNCHANGED fault
        \/ /\ counter[n] < 0 /\ blocked[n] = <<>>
           /\ fault' = "list"
    BY <1>1, <1>2 DEF SignalPost, SignalWake, TypeOK
  <2>3. SemValuesFit => counter[n] >= 0 /\ UNCHANGED fault
    BY <1>1, <2>2, EmptyQueue DEF CounterCountsWaiters, TypeOK
  <2>4. /\ \A t, s : BlockedOn(t, s)' <=> BlockedOn(t, s)
        /\ \A t : (Blocked(t)' <=> Blocked(t)) /\ (Ready(t)' <=> Ready(t)) /\ (Free(t)' <=> Free(t))
    BY <1>1, <2>1 DEF BlockedOn, Blocked, Ready, Free
  <2>5. TypeOK'
    BY <1>1, <2>1, <2>2 DEF TypeOK, tvars, Faults
  <2>6. Running' => Running
    BY <2>2 DEF Running
  <2>7. OneQueue' /\ NoTaskLost' /\ IdleAvailable'
    BY <1>1, <2>1, <2>4, <2>6 DEF OneQueue, NoTaskLost, IdleAvailable
  <2>8. CounterCountsWaiters'
    <3>1. \A s \in Sems : ~isInit'[s] => blocked'[s] = <<>>
      BY <1>1, <2>1 DEF CounterCountsWaiters
    <3>2. ASSUME SemValuesFit, NEW s \in Sems, isInit'[s]
          PROVE  Len(blocked'[s]) = IF counter'[s] < 0 THEN -counter'[s] ELSE 0
      <4>1. CASE s = n
        BY <1>1, <2>1, <2>3, <3>2, <4>1 DEF CounterCountsWaiters, TypeOK
      <4>2. CASE s # n
        BY <1>1, <2>1, <3>2, <4>2 DEF CounterCountsWaiters, TypeOK
      <4> QED
        BY <4>1, <4>2
    <3> QED
      BY <3>1, <3>2 DEF CounterCountsWaiters, SemValuesFit
  <2>9. DestroyedIsPending' /\ WaitersKeepTheirStack' /\ ListsSound' /\ CurrentIsRun'
    BY <1>1, <2>3, <2>4, <2>6 DEF DestroyedIsPending, WaitersKeepTheirStack, ListsSound,
                                  CurrentIsRun, SemValuesFit, tvars
  <2> QED
    BY <2>5, <2>7, <2>8, <2>9 DEF IInv
<1>3. CASE SignalWake(n) /\ blocked[n] # <<>>
  <2> DEFINE q == blocked[n]
             w == Head(blocked[n])
  <2>1. /\ counter[n] < 0
        /\ blocked' = [blocked EXCEPT ![n] = Tail(q)]
        /\ readyqueue' = Append(readyqueue, w)
        /\ UNCHANGED fault
    BY <1>1, <1>3 DEF SignalWake, TypeOK
  <2>2. q \in Seq(Tasks) /\ q # <<>> /\ IsInjective(q)
    BY <1>1, <1>3 DEF TypeOK, OneQueue
  <2>3. /\ w \in Tasks /\ w \in Range(q)
        /\ Tail(q) \in Seq(Tasks) /\ IsInjective(Tail(q)) /\ Len(Tail(q)) = Len(q) - 1
        /\ \A t : t \in Range(Tail(q)) <=> t \in Range(q) /\ t # w
    BY <2>2, DelFirst
  <2>4. /\ blocked'[n] = Tail(q)
        /\ \A s \in Sems : s # n => blocked'[s] = blocked[s]
    BY <1>1, <2>1 DEF TypeOK
  <2>5. Blocked(w) /\ ~Ready(w) /\ ~Free(w) /\ w # current /\ w # idle_task
    BY <1>1, <2>3 DEF Blocked, BlockedOn, OneQueue, IdleAvailable
  <2> HIDE DEF w
  <2>6. /\ readyqueue' \in Seq(Tasks) /\ IsInjective(readyqueue')
        /\ \A t : Ready(t)' <=> Ready(t) \/ t = w
    BY <1>1, <2>1, <2>3, <2>5, AddTail DEF TypeOK, OneQueue, Ready
  <2>7. \A t : \A s \in Sems : BlockedOn(t, s)' <=> BlockedOn(t, s) /\ ~(t = w /\ s = n)
    BY <2>3, <2>4 DEF BlockedOn
  <2>8. \A t : Blocked(t)' <=> Blocked(t) /\ t # w
    <3>1. \A r \in Sems : BlockedOn(w, r) => r = n
      BY <1>1, <2>3 DEF OneQueue, BlockedOn
    <3> QED
      BY <2>7, <3>1 DEF Blocked
  <2>9. \A t : Free(t)' <=> Free(t)
    BY <1>1 DEF Free
  <2>10. TypeOK'
    BY <1>1, <2>1, <2>3, <2>6 DEF TypeOK, tvars
  <2>11. OneQueue'
    <3>1. \A s \in Sems : IsInjective(blocked'[s])
      BY <1>1, <2>3, <2>4 DEF OneQueue
    <3>2. \A t \in Tasks : \A r, s \in Sems : BlockedOn(t, r)' /\ BlockedOn(t, s)' => r = s
      BY <1>1, <2>7 DEF OneQueue
    <3> QED
      BY <1>1, <2>1, <2>5, <2>6, <2>8, <2>9, <3>1, <3>2 DEF OneQueue, Running
  <2>12. NoTaskLost' /\ IdleAvailable'
    BY <1>1, <2>1, <2>6, <2>8, <2>9 DEF NoTaskLost, IdleAvailable, Running
  <2>13. CounterCountsWaiters'
    <3>1. \A s \in Sems : ~isInit'[s] => blocked'[s] = <<>>
      BY <1>1, <2>4 DEF CounterCountsWaiters
    <3>2. ASSUME SemValuesFit, NEW s \in Sems, isInit'[s]
          PROVE  Len(blocked'[s]) = IF counter'[s] < 0 THEN -counter'[s] ELSE 0
      <4>1. CASE s = n
        BY <1>1, <2>1, <2>3, <2>4, <3>2, <4>1 DEF CounterCountsWaiters, TypeOK
      <4>2. CASE s # n
        BY <1>1, <2>4, <3>2, <4>2 DEF CounterCountsWaiters, TypeOK
      <4> QED
        BY <4>1, <4>2
    <3> QED
      BY <3>1, <3>2 DEF CounterCountsWaiters, SemValuesFit
  <2>14. DestroyedIsPending' /\ WaitersKeepTheirStack' /\ ListsSound' /\ CurrentIsRun'
    BY <1>1, <2>1, <2>5, <2>6, <2>8 DEF DestroyedIsPending, WaitersKeepTheirStack, ListsSound,
                                        CurrentIsRun, SemValuesFit, tvars, Running
  <2> QED
    BY <2>10, <2>11, <2>12, <2>13, <2>14 DEF IInv
<1> QED
  BY <1>1, <1>2, <1>3 DEF SignalWake

(* sem_destroy: all waiters are flagged and become ready in queue order. *)
LEMMA DestroyStep ==
    ASSUME IInv, CanCall, NEW n \in SemArgs, sys_sem_destroy(n)
    PROVE  IInv'
<1> DEFINE q == blocked[n]
<1>1. /\ TypeOK /\ OneQueue /\ NoTaskLost /\ IdleAvailable /\ CounterCountsWaiters
      /\ DestroyedIsPending /\ WaitersKeepTheirStack /\ ListsSound /\ CurrentIsRun
      /\ n \in Sems /\ Running
      /\ destroyed' = [t \in Tasks |-> IF t \in Range(q) THEN 1 ELSE destroyed[t]]
      /\ readyqueue' = readyqueue \o q
      /\ blocked' = [blocked EXCEPT ![n] = <<>>]
      /\ isInit' = [isInit EXCEPT ![n] = FALSE]
      /\ UNCHANGED <<freequeue, current, remaining_quantum, state, saved_esp, in_wait, counter,
                     fault>>
  BY DEF IInv, CanCall, InUserMode, sys_sem_destroy, valid_sem
<1>2. /\ q \in Seq(Tasks) /\ IsInjective(q) /\ Range(q) \subseteq Tasks
      /\ \A t : t \in Range(q) <=> BlockedOn(t, n)
      /\ \A t : BlockedOn(t, n) => Blocked(t)
  BY <1>1, RangeOfSeq DEF TypeOK, OneQueue, BlockedOn, Blocked
<1> HIDE DEF q
<1>3. \A t : BlockedOn(t, n) => ~Ready(t) /\ ~Free(t) /\ t # current /\ t # idle_task /\ t \in in_wait
  BY <1>1, <1>2 DEF OneQueue, IdleAvailable, WaitersKeepTheirStack
<1>4. /\ readyqueue' \in Seq(Tasks) /\ IsInjective(readyqueue')
      /\ \A t : Ready(t)' <=> Ready(t) \/ BlockedOn(t, n)
  <2>1. Range(readyqueue) \cap Range(q) = {}
    BY <1>2, <1>3 DEF Ready
  <2> QED
    BY <1>1, <1>2, <2>1, MoveAll DEF TypeOK, OneQueue, Ready
<1>5. /\ blocked'[n] = <<>>
      /\ \A s \in Sems : s # n => blocked'[s] = blocked[s]
  BY <1>1 DEF TypeOK
<1>6. \A t : \A s \in Sems : BlockedOn(t, s)' <=> BlockedOn(t, s) /\ s # n
  BY <1>5, EmptyQueue DEF BlockedOn
<1>7. /\ \A t \in Tasks : Blocked(t)' <=> Blocked(t) /\ ~BlockedOn(t, n)
      /\ \A t : Blocked(t)' => Blocked(t)
      /\ \A t : Free(t)' <=> Free(t)
  BY <1>1, <1>2, <1>6 DEF Blocked, OneQueue, Free
<1>8. TypeOK'
  BY <1>1, <1>4, EmptyQueue DEF TypeOK
<1>9. OneQueue'
  <2>1. \A s \in Sems : IsInjective(blocked'[s])
    BY <1>1, <1>5, EmptyQueue DEF OneQueue
  <2>2. \A t \in Tasks : \A r, s \in Sems : BlockedOn(t, r)' /\ BlockedOn(t, s)' => r = s
    BY <1>1, <1>6 DEF OneQueue
  <2> QED
    BY <1>1, <1>2, <1>3, <1>4, <1>7, <2>1, <2>2 DEF OneQueue, Running
<1>10. NoTaskLost' /\ IdleAvailable'
  BY <1>1, <1>4, <1>7, Constants DEF NoTaskLost, IdleAvailable, Running
<1>11. CounterCountsWaiters'
  BY <1>1, <1>5 DEF CounterCountsWaiters, TypeOK, SemValuesFit
<1>12. DestroyedIsPending'
  BY <1>1, <1>2, <1>3, <1>7 DEF DestroyedIsPending
<1>13. WaitersKeepTheirStack'
  BY <1>1, <1>4, <1>7 DEF WaitersKeepTheirStack, TypeOK, Running
<1>14. ListsSound' /\ CurrentIsRun'
  BY <1>1 DEF ListsSound, CurrentIsRun, SemValuesFit, Running
<1> QED
  BY <1>8, <1>9, <1>10, <1>11, <1>12, <1>13, <1>14 DEF IInv

(* A page fault stops the kernel and changes nothing else. *)
LEMMA FaultStep ==
    ASSUME IInv, page_fault
    PROVE  IInv'
<1>1. UNCHANGED <<freequeue, readyqueue, current, remaining_quantum, tvars, in_wait, svars>>
  BY DEF page_fault
<1>2. fault' = "page" /\ ~Running'
  BY DEF page_fault, Running
<1>3. /\ \A t, s : BlockedOn(t, s)' <=> BlockedOn(t, s)
      /\ \A t : (Blocked(t)' <=> Blocked(t)) /\ (Ready(t)' <=> Ready(t)) /\ (Free(t)' <=> Free(t))
  BY <1>1 DEF BlockedOn, Blocked, Ready, Free, svars
<1>4. TypeOK'
  BY <1>1, <1>2 DEF IInv, TypeOK, svars, tvars, Faults
<1>5. OneQueue' /\ NoTaskLost' /\ IdleAvailable' /\ CounterCountsWaiters'
  BY <1>1, <1>2, <1>3 DEF IInv, OneQueue, NoTaskLost, IdleAvailable, CounterCountsWaiters, svars
<1>6. DestroyedIsPending' /\ WaitersKeepTheirStack' /\ ListsSound' /\ CurrentIsRun'
  BY <1>1, <1>2, <1>3 DEF IInv, DestroyedIsPending, WaitersKeepTheirStack, ListsSound,
                          CurrentIsRun, tvars
<1> QED
  BY <1>4, <1>5, <1>6 DEF IInv

-----------------------------------------------------------------------------
(* The invariant *)

(* The state in which main() leaves for user mode satisfies the invariant. *)
LEMMA InitInv == Init => IInv
<1> SUFFICES ASSUME Init PROVE IInv
  OBVIOUS
<1>1. /\ freequeue = [i \in 1 .. NR_TASKS - 2 |-> i + 1]
      /\ readyqueue = <<>> /\ current = init_task /\ remaining_quantum = DEFAULT_QUANTUM
      /\ state = [t \in Tasks |-> ST_RUN] /\ destroyed = [t \in Tasks |-> 0]
      /\ saved_esp = {idle_task} /\ in_wait = {}
      /\ isInit = [s \in Sems |-> FALSE] /\ counter = [s \in Sems |-> 0]
      /\ blocked = [s \in Sems |-> <<>>] /\ fault = "none"
  BY DEF Init
<1>2. freequeue \in Seq(Tasks) /\ DOMAIN freequeue = 1 .. NR_TASKS - 2
  <2>1. NR_TASKS - 2 \in Nat
    BY SizesAssumption
  <2>2. freequeue \in [1 .. NR_TASKS - 2 -> Tasks]
    BY <1>1, SizesAssumption DEF Tasks
  <2>3. freequeue \in UNION {[1 .. n -> Tasks] : n \in Nat}
    BY <2>1, <2>2
  <2>4. Seq(Tasks) = UNION {[1 .. n -> Tasks] : n \in Nat}
    BY SeqDef, Zenon
  <2>5. freequeue \in Seq(Tasks)
    BY <2>3, <2>4, Zenon
  <2> QED
    BY <1>1, <2>5
<1>3. IsInjective(freequeue)
  BY <1>1, <1>2, SizesAssumption DEF IsInjective
<1>4. \A t \in Tasks : Free(t) <=> t \notin {idle_task, init_task}
  <2> SUFFICES ASSUME NEW t \in Tasks PROVE Free(t) <=> t \notin {0, 1}
    BY DEF idle_task, init_task
  <2>1. ASSUME t \notin {0, 1} PROVE Free(t)
    <3>1. t - 1 \in 1 .. NR_TASKS - 2
      BY <2>1, SizesAssumption DEF Tasks
    <3>2. freequeue[t - 1] = (t - 1) + 1
      BY <1>1, <3>1
    <3>3. freequeue[t - 1] = t
      BY <3>2 DEF Tasks
    <3> QED
      BY <1>2, <3>1, <3>3 DEF Free, Range
  <2>2. ASSUME Free(t) PROVE t \notin {0, 1}
    <3>1. PICK i \in 1 .. NR_TASKS - 2 : freequeue[i] = t
      BY <1>2, <2>2 DEF Free, Range
    <3>2. t = i + 1
      BY <1>1, <3>1
    <3> QED
      BY <3>2, SizesAssumption
  <2> QED
    BY <2>1, <2>2
<1>5. \A t : ~Ready(t) /\ ~Blocked(t) /\ \A s \in Sems : ~BlockedOn(t, s)
  BY <1>1, EmptyQueue DEF Ready, Blocked, BlockedOn
<1>6. TypeOK
  BY <1>1, <1>2, Constants, EmptyQueue DEF TypeOK, Faults
<1>7. OneQueue
  BY <1>1, <1>3, <1>4, <1>5, Constants, EmptyQueue DEF OneQueue
<1>8. NoTaskLost /\ IdleAvailable
  BY <1>1, <1>4, <1>5, Constants DEF NoTaskLost, IdleAvailable
<1>9. CounterCountsWaiters
  BY <1>1 DEF CounterCountsWaiters
<1>10. DestroyedIsPending /\ WaitersKeepTheirStack /\ ListsSound /\ CurrentIsRun
  BY <1>1, <1>5, Constants DEF DestroyedIsPending, WaitersKeepTheirStack, ListsSound, CurrentIsRun
<1> QED
  BY <1>6, <1>7, <1>8, <1>9, <1>10 DEF IInv

(* No call, interrupt or resumption of a wait breaks the invariant. *)
LEMMA NextInv == IInv /\ [Next]_vars => IInv'
<1> SUFFICES ASSUME IInv, [Next]_vars PROVE IInv'
  OBVIOUS
<1>1. CASE ClockTick
  <2>1. /\ InUserMode /\ UNCHANGED <<freequeue, destroyed, in_wait, svars>>
        /\ \/ force_task_switch
           \/ /\ remaining_quantum' =
                    IF remaining_quantum = 1 THEN DEFAULT_QUANTUM ELSE remaining_quantum - 1
              /\ UNCHANGED <<readyqueue, current, state, saved_esp, fault>>
    BY <1>1 DEF ClockTick
  <2>2. remaining_quantum \in 1 .. DEFAULT_QUANTUM /\ DEFAULT_QUANTUM \in Nat \ {0}
    BY SizesAssumption DEF IInv, TypeOK
  <2>3. \/ force_task_switch
        \/ /\ remaining_quantum' \in 1 .. DEFAULT_QUANTUM
           /\ UNCHANGED <<readyqueue, current, state, saved_esp, fault>>
    BY <2>1, <2>2
  <2> QED
    BY <2>1, <2>3, SwitchStep
<1>2. CASE sys_yield
  BY <1>2, SwitchStep DEF sys_yield
<1>3. CASE StartChild
  BY <1>3, CopyStep, Constants, DelFirst DEF StartChild, IInv, TypeOK
<1>4. CASE ForkNoFrame
  BY <1>4, CopyStep, DelFirst DEF ForkNoFrame, IInv, TypeOK
<1>5. CASE NewTaskFaults
  BY <1>5, CopyStep DEF NewTaskFaults, IInv, TypeOK
<1>6. CASE LeaveForGood
  BY <1>6, LeaveStep
<1>7. CASE SemCall
  <2>1. PICK n \in SemArgs : CanCall /\ ( \/ \E v \in SemValues : sys_sem_init(n, v)
                                          \/ sys_sem_wait(n)
                                          \/ sys_sem_signal(n)
                                          \/ sys_sem_destroy(n) )
    BY <1>7 DEF SemCall
  <2>2. CASE \E v \in SemValues : sys_sem_init(n, v)
    BY <2>1, <2>2, InitStep
  <2>3. CASE sys_sem_wait(n)
    BY <2>1, <2>3, PassStep, BlockStep DEF sys_sem_wait
  <2>4. CASE sys_sem_signal(n)
    BY <2>1, <2>4, SignalStep
  <2>5. CASE sys_sem_destroy(n)
    BY <2>1, <2>5, DestroyStep
  <2> QED
    BY <2>1, <2>2, <2>3, <2>4, <2>5
<1>8. CASE SemWaitReturn
  BY <1>8, ReturnStep
<1>9. CASE page_fault
  BY <1>9, FaultStep
<1>10. CASE UNCHANGED vars
  BY <1>10 DEF vars, IInv, TypeOK, OneQueue, NoTaskLost, IdleAvailable, CounterCountsWaiters,
               DestroyedIsPending, WaitersKeepTheirStack, ListsSound, CurrentIsRun, Running,
               Free, Ready, Blocked, BlockedOn
<1> QED
  BY <1>1, <1>2, <1>3, <1>4, <1>5, <1>6, <1>7, <1>8, <1>9, <1>10
     DEF Next, sys_fork, sys_createthread, sys_exit, sys_terminatethread

(* The inductive invariant of the scheduler and its semaphores holds in every state. *)
LEMMA Invariant == Spec => []IInv
BY InitInv, NextInv, PTL DEF Spec

(* Every variable keeps its type, and remaining_quantum is 1 to DEFAULT_QUANTUM between ticks. *)
THEOREM TypeCorrect == Spec => []TypeOK
<1>1. IInv => TypeOK
  BY DEF IInv
<1> QED
  BY <1>1, Invariant, PTL

(* A task_struct is linked into at most one queue, and none is lost. *)
THEOREM QueuesPartitionTheTasks == Spec => [](OneQueue /\ NoTaskLost /\ IdleAvailable)
<1>1. IInv => OneQueue /\ NoTaskLost /\ IdleAvailable
  BY DEF IInv
<1> QED
  BY <1>1, Invariant, PTL

(* Whatever it waits for, a task stays within reach of the scheduler. *)
THEOREM NoTaskIsLost == Spec => []NoTaskLost
BY QueuesPartitionTheTasks, PTL

(* The sign and size of a semaphore's counter agree with its queue. *)
THEOREM CounterIsSound == Spec => []CounterCountsWaiters
<1>1. IInv => CounterCountsWaiters
  BY DEF IInv
<1> QED
  BY <1>1, Invariant, PTL

(* The destroyed flag is up only in a task that still has to return from its sem_wait, and a
   task suspended there keeps its kernel stack. *)
THEOREM WaitProtocol == Spec => [](DestroyedIsPending /\ WaitersKeepTheirStack)
<1>1. IInv => DestroyedIsPending /\ WaitersKeepTheirStack
  BY DEF IInv
<1> QED
  BY <1>1, Invariant, PTL

(* No list_del of a node that is on no list, if the initial values of semaphores fit an int. *)
THEOREM ListsAreSound == Spec => []ListsSound
<1>1. IInv => ListsSound
  BY DEF IInv
<1> QED
  BY <1>1, Invariant, PTL

-----------------------------------------------------------------------------
(* The idle task *)

(* Who gets the CPU from a queue in which idle is not. *)
LEMMA IdleAfterDispatch ==
    ASSUME NEW rq \in Seq(Tasks), NEW st, idle_task \notin Range(rq), sched_next_rr(rq, st),
           current # idle_task
    PROVE  IdleRunsLast'
<1>1. readyqueue' = Rest(rq) /\ task_switch(Chosen(rq))
  BY DEF sched_next_rr
<1>2. current' = Chosen(rq) \/ current' = current
  BY <1>1 DEF task_switch
<1>3. CASE rq = <<>>
  BY <1>1, <1>3, EmptyQueue DEF Rest, IdleRunsLast, Ready
<1>4. CASE rq # <<>>
  <2>1. Head(rq) \in Range(rq) /\ Range(Tail(rq)) \subseteq Range(rq)
    BY <1>4, DelFirst
  <2> QED
    BY <1>1, <1>2, <1>4, <2>1 DEF Rest, Chosen, IdleRunsLast, Ready
<1> QED
  BY <1>3, <1>4

(* idle is dispatched only with an empty ready queue, which then stays empty. *)
THEOREM IdleIsTheLast == Spec => []IdleRunsLast
<1>1. Init => IdleRunsLast
  BY EmptyQueue DEF Init, IdleRunsLast, Ready, idle_task, init_task
<1>2. IInv /\ IdleRunsLast /\ [Next]_vars => IdleRunsLast'
  <2> SUFFICES ASSUME IInv, IdleRunsLast, [Next]_vars
               PROVE  IdleRunsLast'
    OBVIOUS
  <2>1. /\ readyqueue \in Seq(Tasks) /\ freequeue \in Seq(Tasks) /\ current \in Tasks
        /\ \A s \in Sems : blocked[s] \in Seq(Tasks)
        /\ idle_task \notin Range(readyqueue) /\ idle_task \notin Range(freequeue)
        /\ \A s \in Sems : idle_task \notin Range(blocked[s])
    BY DEF IInv, TypeOK, IdleAvailable, IdleRunsLast, Ready, Free, Blocked, BlockedOn
  <2>2. ASSUME force_task_switch, current # idle_task
        PROVE  IdleRunsLast'
    <3>1. CASE sched_next_rr(Append(readyqueue, current), [state EXCEPT ![current] = ST_READY])
      <4>1. /\ Append(readyqueue, current) \in Seq(Tasks)
            /\ idle_task \notin Range(Append(readyqueue, current))
        BY <2>1, <2>2, AddTail
      <4> QED
        BY <2>2, <3>1, <4>1, IdleAfterDispatch
    <3>2. CASE UNCHANGED <<readyqueue, current>>
      BY <3>2 DEF IdleRunsLast, Ready
    <3> QED
      BY <2>2, <3>1, <3>2 DEF force_task_switch
  <2>3. CASE ClockTick
    <3>1. CASE remaining_quantum = 1 /\ readyqueue # <<>>
      BY <2>2, <2>3, <3>1 DEF ClockTick, IdleRunsLast
    <3>2. CASE ~(remaining_quantum = 1 /\ readyqueue # <<>>)
      BY <2>3, <3>2 DEF ClockTick, IdleRunsLast, Ready
    <3> QED
      BY <3>1, <3>2
  <2>4. CASE sys_yield
    BY <2>2, <2>4 DEF sys_yield, CanCall
  <2>5. CASE sys_fork \/ sys_createthread
    <3>1. current' = current /\ current # idle_task
      BY <2>5 DEF sys_fork, sys_createthread, StartChild, ForkNoFrame, NewTaskFaults, CanCall
    <3>2. CASE readyqueue' = readyqueue
      BY <3>1, <3>2 DEF IdleRunsLast, Ready
    <3>3. CASE StartChild
      <4>1. freequeue # <<>> /\ readyqueue' = Append(readyqueue, Head(freequeue))
        BY <3>3 DEF StartChild
      <4>2. Head(freequeue) \in Tasks /\ Head(freequeue) # idle_task
        BY <2>1, <4>1, DelFirst
      <4>3. idle_task \notin Range(readyqueue')
        BY <2>1, <4>1, <4>2, AddTail
      <4> QED
        BY <3>1, <4>3 DEF IdleRunsLast, Ready
    <3> QED
      BY <2>5, <3>2, <3>3 DEF sys_fork, sys_createthread, ForkNoFrame, NewTaskFaults
  <2>6. CASE sys_exit \/ sys_terminatethread
    BY <2>1, <2>6, IdleAfterDispatch DEF sys_exit, sys_terminatethread, LeaveForGood, CanCall
  <2>7. CASE SemCall
    <3>1. PICK n \in SemArgs : \/ \E v \in SemValues : sys_sem_init(n, v)
                              \/ sys_sem_wait(n)
                              \/ sys_sem_signal(n)
                              \/ sys_sem_destroy(n)
      BY <2>7 DEF SemCall
    <3>2. current # idle_task
      BY <2>7 DEF SemCall, CanCall
    <3>3. CASE UNCHANGED <<readyqueue, current>>
      BY <3>3 DEF IdleRunsLast, Ready
    <3>4. CASE sys_sem_wait(n)
      <4>1. CASE WaitPass(n)
        BY <3>3, <4>1 DEF WaitPass
      <4>2. CASE WaitBlock(n)
        BY <2>1, <3>2, <4>2, IdleAfterDispatch DEF WaitBlock
      <4> QED
        BY <3>4, <4>1, <4>2 DEF sys_sem_wait
    <3>5. CASE sys_sem_signal(n)
      <4>1. current' = current /\ n \in Sems
        BY <3>5 DEF sys_sem_signal, valid_sem
      <4>2. CASE readyqueue' = readyqueue
        BY <3>3, <4>1, <4>2
      <4>3. CASE blocked[n] # <<>> /\ readyqueue' = Append(readyqueue, Head(blocked[n]))
        <5> DEFINE b == blocked[n]
        <5>1. b \in Seq(Tasks) /\ b # <<>> /\ idle_task \notin Range(b)
          BY <2>1, <4>1, <4>3
        <5>2. Head(b) \in Tasks /\ Head(b) # idle_task
          BY <5>1, DelFirst
        <5>3. idle_task \notin Range(readyqueue')
          BY <2>1, <4>3, <5>2, AddTail
        <5> QED
          BY <3>2, <4>1, <5>3 DEF IdleRunsLast, Ready
      <4> QED
        BY <3>5, <4>2, <4>3 DEF sys_sem_signal, SignalPost, SignalWake
    <3>6. CASE sys_sem_destroy(n)
      <4>1. current' = current /\ n \in Sems /\ readyqueue' = readyqueue \o blocked[n]
        BY <3>6 DEF sys_sem_destroy, valid_sem
      <4>2. Range(readyqueue') = Range(readyqueue) \cup Range(blocked[n])
        BY <2>1, <4>1, MoveAll
      <4> QED
        BY <2>1, <3>2, <4>1, <4>2 DEF IdleRunsLast, Ready
    <3>7. CASE \E v \in SemValues : sys_sem_init(n, v)
      BY <3>3, <3>7 DEF sys_sem_init
    <3> QED
      BY <3>1, <3>4, <3>5, <3>6, <3>7
  <2>8. CASE SemWaitReturn \/ page_fault \/ UNCHANGED vars
    BY <2>8 DEF SemWaitReturn, page_fault, vars, IdleRunsLast, Ready
  <2> QED
    BY <2>3, <2>4, <2>5, <2>6, <2>7, <2>8 DEF Next
<1> QED
  BY <1>1, <1>2, Invariant, PTL DEF Spec
-----------------------------------------------------------------------------
(* The order of the ready queue *)

(* Nothing, an entry or a whole list added at the tail leaves the entries before it alone. *)
LEMMA TailServes ==
    ASSUME NEW q \in Seq(Tasks), NEW r \in Seq(Tasks), NEW t \in Tasks
    PROVE  Served(q, q) /\ Served(q, Append(q, t)) /\ Served(q, q \o r) /\ Served(<<>>, r)
<1>1. Len(q) \in Nat /\ Len(r) \in Nat /\ Len(Append(q, t)) = Len(q) + 1
      /\ Len(q \o r) = Len(q) + Len(r)
  OBVIOUS
<1>2. SubSeq(q, 1, Len(q)) = q /\ SubSeq(Append(q, t), 1, Len(q)) = q
  OBVIOUS
<1>3. SubSeq(q \o r, 1, Len(q)) = q
  OBVIOUS
<1>4. SubSeq(r, 1, Len(<<>>)) = <<>> /\ Len(<<>>) = 0
  OBVIOUS
<1> QED
  BY <1>1, <1>2, <1>3, <1>4 DEF Served

(* The step by which the ready queue is served in order. *)
ServesInOrder ==
    \/ Served(readyqueue, readyqueue')
    \/ /\ readyqueue # <<>>
       /\ Served(Tail(readyqueue), readyqueue')
       /\ current' = Head(readyqueue)

(* sched_next_rr takes the head, whether or not current has just joined at the tail. *)
LEMMA DispatchServes ==
    ASSUME IInv, NEW rq, NEW st, sched_next_rr(rq, st),
           rq = readyqueue \/ rq = Append(readyqueue, current)
    PROVE  ServesInOrder
<1>1. readyqueue \in Seq(Tasks) /\ current \in Tasks
  BY DEF IInv, TypeOK
<1>2. readyqueue' = Rest(rq) /\ current' = Chosen(rq)
  BY DEF sched_next_rr, task_switch
<1>3. CASE readyqueue = <<>>
  <2>1. readyqueue' = <<>>
    BY <1>1, <1>2, <1>3 DEF Rest
  <2> QED
    BY <1>1, <1>3, <2>1, EmptyQueue, TailServes DEF ServesInOrder
<1>4. CASE readyqueue # <<>>
  <2>1. Tail(readyqueue) \in Seq(Tasks)
    BY <1>1, <1>4
  <2>2. rq # <<>> /\ Head(rq) = Head(readyqueue)
    BY <1>1, <1>4
  <2>3. Tail(rq) = Tail(readyqueue) \/ Tail(rq) = Append(Tail(readyqueue), current)
    BY <1>1, <1>4
  <2>4. Served(Tail(readyqueue), Tail(rq))
    BY <1>1, <2>1, <2>3, EmptyQueue, TailServes
  <2> QED
    BY <1>2, <1>4, <2>2, <2>4 DEF ServesInOrder, Rest, Chosen
<1> QED
  BY <1>3, <1>4

(* The ready queue is first in, first out: no step lets a task overtake another or drops one. *)
THEOREM ReadyQueueIsFifo == Spec => NoOvertaking
<1>1. IInv /\ [Next]_vars => [ServesInOrder]_vars
  <2> SUFFICES ASSUME IInv, [Next]_vars PROVE ServesInOrder
    OBVIOUS
  <2>1. /\ readyqueue \in Seq(Tasks) /\ freequeue \in Seq(Tasks) /\ current \in Tasks
        /\ \A s \in Sems : blocked[s] \in Seq(Tasks)
    BY DEF IInv, TypeOK
  <2>2. ASSUME readyqueue' = readyqueue PROVE ServesInOrder
    BY <2>1, <2>2, TailServes DEF ServesInOrder
  <2>3. ASSUME NEW t \in Tasks, readyqueue' = Append(readyqueue, t) PROVE ServesInOrder
    BY <2>1, <2>3, TailServes DEF ServesInOrder
  <2>4. ASSUME force_task_switch PROVE ServesInOrder
    BY <2>2, <2>4, DispatchServes DEF force_task_switch
  <2>5. CASE ClockTick \/ sys_yield
    BY <2>2, <2>4, <2>5 DEF ClockTick, sys_yield
  <2>6. CASE sys_fork \/ sys_createthread
    <3>1. CASE StartChild
      <4>1. Head(freequeue) \in Tasks /\ readyqueue' = Append(readyqueue, Head(freequeue))
        BY <2>1, <3>1, DelFirst DEF StartChild
      <4> QED
        BY <2>3, <4>1
    <3> QED
      BY <2>2, <2>6, <3>1 DEF sys_fork, sys_createthread, ForkNoFrame, NewTaskFaults
  <2>7. CASE sys_exit \/ sys_terminatethread
    BY <2>7, DispatchServes DEF sys_exit, sys_terminatethread, LeaveForGood
  <2>8. CASE SemCall
    <3>1. PICK n \in SemArgs : \/ \E v \in SemValues : sys_sem_init(n, v)
                              \/ sys_sem_wait(n)
                              \/ sys_sem_signal(n)
                              \/ sys_sem_destroy(n)
      BY <2>8 DEF SemCall
    <3>2. CASE \E v \in SemValues : sys_sem_init(n, v)
      BY <2>2, <3>2 DEF sys_sem_init
    <3>3. CASE sys_sem_wait(n)
      BY <2>2, <3>3, DispatchServes DEF sys_sem_wait, WaitPass, WaitBlock
    <3>4. CASE sys_sem_signal(n)
      <4>1. CASE readyqueue' = readyqueue
        BY <2>2, <4>1
      <4>2. CASE blocked[n] # <<>> /\ readyqueue' = Append(readyqueue, Head(blocked[n]))
        <5>1. n \in Sems
          BY <3>4 DEF sys_sem_signal, valid_sem
        <5>2. Head(blocked[n]) \in Tasks
          BY <2>1, <4>2, <5>1, DelFirst
        <5> QED
          BY <2>3, <4>2, <5>2
      <4> QED
        BY <3>4, <4>1, <4>2 DEF sys_sem_signal, SignalPost, SignalWake
    <3>5. CASE sys_sem_destroy(n)
      <4>1. n \in Sems /\ readyqueue' = readyqueue \o blocked[n]
        BY <3>5 DEF sys_sem_destroy, valid_sem
      <4> QED
        BY <2>1, <4>1, TailServes DEF ServesInOrder
    <3> QED
      BY <3>1, <3>2, <3>3, <3>4, <3>5
  <2>9. CASE SemWaitReturn \/ page_fault \/ UNCHANGED vars
    BY <2>2, <2>9 DEF SemWaitReturn, page_fault, vars
  <2> QED
    BY <2>5, <2>6, <2>7, <2>8, <2>9 DEF Next
<1>2. [ServesInOrder]_vars <=> [ \/ Served(readyqueue, readyqueue')
                                \/ /\ readyqueue # <<>>
                                   /\ Served(Tail(readyqueue), readyqueue')
                                   /\ current' = Head(readyqueue) ]_vars
  BY DEF ServesInOrder
<1> QED
  BY <1>1, <1>2, Invariant, PTL DEF Spec, NoOvertaking

-----------------------------------------------------------------------------
(* The semaphore calls implement module Semaphores *)

(* The mapped variables, case by case. *)
Mapping ==
    /\ open = {s \in Sems : isInit[s]}
    /\ value = [s \in Sems |-> IF isInit[s] /\ counter[s] > 0 THEN counter[s] ELSE 0]
    /\ outcome = [t \in Tasks |-> outcome[t]]
    /\ \A t \in Tasks :
          /\ t \notin in_wait => outcome[t] = "none"
          /\ t \in in_wait /\ Blocked(t) => outcome[t] = "waiting"
          /\ t \in in_wait /\ ~Blocked(t) /\ destroyed[t] = 1 => outcome[t] = "refused"
          /\ t \in in_wait /\ ~Blocked(t) /\ destroyed[t] # 1 => outcome[t] = "granted"

LEMMA MappedState == Mapping
BY DEF Mapping, open, value, outcome

LEMMA MappedStateNext == Mapping'
BY MappedState, PTL

(* A task whose wait and semaphores a step leaves alone keeps its outcome. *)
LEMMA SameOutcome ==
    ASSUME NEW t \in Tasks,
           \/ t \notin in_wait /\ t \notin in_wait'
           \/ t \in in_wait /\ t \in in_wait' /\ (Blocked(t)' <=> Blocked(t)) /\ destroyed'[t] = destroyed[t]
    PROVE  outcome'[t] = outcome[t]
BY MappedState, MappedStateNext DEF Mapping

(* Steps that are no semaphore calls: at most the flag of a free slot changes. *)
LEMMA NoCall ==
    ASSUME UNCHANGED <<isInit, counter, blocked, in_wait>>,
           \A t \in in_wait : destroyed'[t] = destroyed[t]
    PROVE  UNCHANGED Abs!avars
<1>1. open' = open /\ value' = value
  BY DEF open, value
<1>2. \A t : Blocked(t)' <=> Blocked(t)
  BY DEF Blocked, BlockedOn
<1>3. \A t \in Tasks : outcome'[t] = outcome[t]
  BY <1>2, SameOutcome
<1>4. outcome' = outcome
  BY <1>3, MappedState, MappedStateNext DEF Mapping
<1> QED
  BY <1>1, <1>4 DEF Abs!avars

(* sem_init, sem_wait, sem_signal and sem_destroy on semaphore n. *)
LEMMA CreateStep ==
    ASSUME SemValuesFit, IInv, NEW n, NEW v \in SemValues, sys_sem_init(n, v)
    PROVE  n \in Sems /\ Abs!Create(n, v)
<1>1. /\ n \in Sems /\ ~isInit[n] /\ counter' = [counter EXCEPT ![n] = v]
      /\ blocked' = [blocked EXCEPT ![n] = <<>>] /\ isInit' = [isInit EXCEPT ![n] = TRUE]
      /\ destroyed' = destroyed /\ in_wait' = in_wait
      /\ v \in Nat
  <2>1. v \in 0 .. INT_MAX /\ INT_MAX \in Nat
    BY Constants DEF SemValuesFit
  <2>2. AsInt(v) = v /\ v \in Nat
    BY <2>1 DEF AsInt
  <2>3. n \in Sems /\ ~isInit[n]
    BY DEF sys_sem_init, valid_sem
  <2> QED
    BY <2>2, <2>3 DEF sys_sem_init, tvars
<1>2. blocked' = blocked
  BY <1>1 DEF IInv, TypeOK, CounterCountsWaiters
<1>3. \A t : Blocked(t)' <=> Blocked(t)
  BY <1>2 DEF Blocked, BlockedOn
<1>4. outcome' = outcome
  BY <1>1, <1>3, SameOutcome, MappedState, MappedStateNext DEF Mapping
<1>5. open' = open \cup {n} /\ n \notin open
  BY <1>1, MappedState, MappedStateNext DEF Mapping, IInv, TypeOK
<1>6. value' = [value EXCEPT ![n] = v]
  <2>1. \A s \in Sems : value'[s] = IF s = n THEN v ELSE value[s]
    BY <1>1, MappedState, MappedStateNext DEF Mapping, IInv, TypeOK
  <2>2. value' = [s \in Sems |-> value'[s]] /\ value = [s \in Sems |-> value[s]]
    BY MappedState, MappedStateNext DEF Mapping
  <2> QED
    BY <2>1, <2>2
<1> QED
  BY <1>1, <1>2, <1>4, <1>5, <1>6 DEF Abs!Create

LEMMA TakeStep ==
    ASSUME IInv, NEW n \in Sems, CanCall, sys_sem_wait(n), counter[n] > 0
    PROVE  Abs!Take(n)
<1>1. /\ isInit[n] /\ counter' = [counter EXCEPT ![n] = @ - 1] /\ isInit' = isInit
      /\ blocked' = blocked /\ in_wait' = in_wait
      /\ destroyed' = [destroyed EXCEPT ![current] = 0]
      /\ counter \in [Sems -> Int]
  BY DEF sys_sem_wait, valid_sem, WaitPass, WaitBlock, IInv, TypeOK
<1>2. \A t \in in_wait : destroyed'[t] = destroyed[t]
  BY <1>1 DEF CanCall, InUserMode, IInv, TypeOK
<1>3. \A t : Blocked(t)' <=> Blocked(t)
  BY <1>1 DEF Blocked, BlockedOn
<1>4. outcome' = outcome
  BY <1>1, <1>2, <1>3, SameOutcome, MappedState, MappedStateNext DEF Mapping
<1>5. open' = open /\ n \in open
  BY <1>1, MappedState, MappedStateNext DEF Mapping
<1>6. value[n] > 0 /\ value' = [value EXCEPT ![n] = @ - 1]
  <2>1. \A s \in Sems : value'[s] = IF s = n THEN value[n] - 1 ELSE value[s]
    BY <1>1, MappedState, MappedStateNext DEF Mapping
  <2>2. value' = [s \in Sems |-> value'[s]] /\ value = [s \in Sems |-> value[s]]
    BY MappedState, MappedStateNext DEF Mapping
  <2>3. value[n] = counter[n]
    BY <1>1, MappedState DEF Mapping
  <2> QED
    BY <2>1, <2>2, <2>3
<1> QED
  BY <1>1, <1>4, <1>5, <1>6 DEF Abs!Take

LEMMA EnterStep ==
    ASSUME IInv, NEW n \in Sems, CanCall, sys_sem_wait(n), ~(counter[n] > 0)
    PROVE  Abs!Enter(n, current)
<1>1. /\ isInit[n] /\ counter' = [counter EXCEPT ![n] = @ - 1] /\ isInit' = isInit
      /\ blocked' = [blocked EXCEPT ![n] = Append(@, current)]
      /\ in_wait' = in_wait \cup {current}
      /\ destroyed' = destroyed
      /\ counter \in [Sems -> Int] /\ blocked \in [Sems -> Seq(Tasks)] /\ current \in Tasks
      /\ current \notin in_wait
  BY DEF sys_sem_wait, valid_sem, WaitPass, WaitBlock, IInv, TypeOK, CanCall, InUserMode
<1>2. Range(Append(blocked[n], current)) = Range(blocked[n]) \cup {current}
  BY <1>1, AddTail
<1>3. \A t : Blocked(t)' <=> Blocked(t) \/ t = current
  BY <1>1, <1>2 DEF Blocked, BlockedOn
<1>4. outcome[current] = "none" /\ outcome'[current] = "waiting"
  BY <1>1, <1>3, MappedState, MappedStateNext DEF Mapping
<1>5. outcome' = [outcome EXCEPT ![current] = "waiting"]
  <2>1. \A t \in Tasks \ {current} : outcome'[t] = outcome[t]
    BY <1>1, <1>3, SameOutcome
  <2>2. outcome' = [t \in Tasks |-> outcome'[t]] /\ outcome = [t \in Tasks |-> outcome[t]]
    BY MappedState, MappedStateNext DEF Mapping
  <2> QED
    BY <1>4, <2>1, <2>2
<1>6. open' = open /\ n \in open
  BY <1>1, MappedState, MappedStateNext DEF Mapping
<1>7. value' = value /\ value[n] = 0
  <2>1. \A s \in Sems : value'[s] = value[s]
    BY <1>1, MappedState, MappedStateNext DEF Mapping
  <2>2. value' = [s \in Sems |-> value'[s]] /\ value = [s \in Sems |-> value[s]]
    BY MappedState, MappedStateNext DEF Mapping
  <2>3. value[n] = 0
    BY MappedState DEF Mapping
  <2> QED
    BY <2>1, <2>2, <2>3
<1> QED
  BY <1>1, <1>4, <1>5, <1>6, <1>7 DEF Abs!Enter

LEMMA PostStep ==
    ASSUME SemValuesFit, IInv, NEW n \in Sems, sys_sem_signal(n)
    PROVE  Abs!Post(n)
<1>1. /\ isInit[n] /\ counter' = [counter EXCEPT ![n] = @ + 1] /\ isInit' = isInit
      /\ destroyed' = destroyed /\ in_wait' = in_wait
      /\ SignalPost(n) \/ SignalWake(n)
      /\ counter \in [Sems -> Int] /\ blocked \in [Sems -> Seq(Tasks)]
  BY DEF sys_sem_signal, valid_sem, tvars, IInv, TypeOK
<1>2. Len(blocked[n]) = IF counter[n] < 0 THEN -counter[n] ELSE 0
  BY <1>1 DEF IInv, CounterCountsWaiters
<1>3. open' = open /\ n \in open
  BY <1>1, MappedState, MappedStateNext DEF Mapping
<1>4. value' = [s \in Sems |-> value'[s]] /\ value = [s \in Sems |-> value[s]]
  BY MappedState, MappedStateNext DEF Mapping
<1>5. CASE SignalPost(n)
  <2>1. counter[n] >= 0 /\ blocked' = blocked
    BY <1>5 DEF SignalPost
  <2>2. blocked[n] = <<>>
    BY <1>1, <1>2, <2>1, LenZero
  <2>3. \A t : Blocked(t)' <=> Blocked(t)
    BY <2>1 DEF Blocked, BlockedOn
  <2>4. outcome' = outcome
    BY <1>1, <2>3, SameOutcome, MappedState, MappedStateNext DEF Mapping
  <2>5. \A s \in Sems : value'[s] = IF s = n THEN value[n] + 1 ELSE value[s]
    BY <1>1, <2>1, MappedState, MappedStateNext DEF Mapping
  <2>6. value' = [value EXCEPT ![n] = @ + 1]
    BY <1>4, <2>5
  <2> QED
    BY <1>3, <2>1, <2>2, <2>4, <2>6 DEF Abs!Post
<1>6. CASE SignalWake(n)
  <2>1. counter[n] < 0
    BY <1>6 DEF SignalWake
  <2>2. blocked[n] # <<>>
    BY <1>1, <1>2, <2>1, LenZero
  <2>3. blocked' = [blocked EXCEPT ![n] = Tail(@)]
    BY <1>6, <2>2 DEF SignalWake
  <2> DEFINE h == Head(blocked[n])
  <2>4. /\ h \in Tasks /\ BlockedOn(h, n) /\ h \notin Range(Tail(blocked[n]))
        /\ Range(Tail(blocked[n])) \subseteq Range(blocked[n])
        /\ Range(blocked[n]) \subseteq Range(Tail(blocked[n])) \cup {h}
    BY <1>1, <2>2, DelFirst DEF IInv, OneQueue, BlockedOn
  <2> HIDE DEF h
  <2>5. \A s \in Sems : blocked'[s] = IF s = n THEN Tail(blocked[n]) ELSE blocked[s]
    BY <1>1, <2>3
  <2>6. \A s \in Sems : BlockedOn(h, s) => s = n
    BY <2>4 DEF IInv, OneQueue
  <2>7. \A t \in Tasks : Blocked(t)' <=> Blocked(t) /\ t # h
    <3> TAKE t \in Tasks
    <3>1. CASE t = h
      BY <2>4, <2>5, <2>6, <3>1 DEF Blocked, BlockedOn
    <3>2. CASE t # h
      BY <2>4, <2>5, <3>2 DEF Blocked, BlockedOn
    <3> QED
      BY <3>1, <3>2
  <2>8. h \in in_wait /\ destroyed[h] # 1
    BY <2>4 DEF IInv, WaitersKeepTheirStack, DestroyedIsPending, Blocked
  <2>9. outcome'[h] = "granted"
    BY <1>1, <2>4, <2>7, <2>8, MappedStateNext DEF Mapping
  <2>10. \A t \in Tasks \ {h} : outcome'[t] = outcome[t]
    BY <1>1, <2>7, SameOutcome
  <2>11. outcome' = [outcome EXCEPT ![h] = "granted"]
    <3>1. outcome' = [t \in Tasks |-> outcome'[t]] /\ outcome = [t \in Tasks |-> outcome[t]]
      BY MappedState, MappedStateNext DEF Mapping
    <3> QED
      BY <2>9, <2>10, <3>1
  <2>12. \A s \in Sems : value'[s] = value[s]
    BY <1>1, <2>1, MappedState, MappedStateNext DEF Mapping
  <2>13. value' = value
    BY <1>4, <2>12
  <2> QED
    BY <1>3, <2>2, <2>3, <2>11, <2>13 DEF Abs!Post, h
<1> QED
  BY <1>1, <1>5, <1>6

LEMMA DestroyWaits ==
    ASSUME IInv, NEW n \in Sems, sys_sem_destroy(n)
    PROVE  Abs!Destroy(n)
<1>1. /\ isInit[n] /\ counter' = counter /\ isInit' = [isInit EXCEPT ![n] = FALSE]
      /\ destroyed' = [t \in Tasks |-> IF t \in Range(blocked[n]) THEN 1 ELSE destroyed[t]]
      /\ blocked' = [blocked EXCEPT ![n] = <<>>] /\ in_wait' = in_wait
      /\ isInit \in [Sems -> BOOLEAN] /\ blocked \in [Sems -> Seq(Tasks)]
  BY DEF sys_sem_destroy, valid_sem, IInv, TypeOK
<1>2. open' = open \ {n} /\ n \in open
  BY <1>1, MappedState, MappedStateNext DEF Mapping
<1>3. value' = [value EXCEPT ![n] = 0]
  <2>1. \A s \in Sems : value'[s] = IF s = n THEN 0 ELSE value[s]
    BY <1>1, MappedState, MappedStateNext DEF Mapping
  <2>2. value' = [s \in Sems |-> value'[s]] /\ value = [s \in Sems |-> value[s]]
    BY MappedState, MappedStateNext DEF Mapping
  <2> QED
    BY <2>1, <2>2
<1>4. \A s \in Sems : blocked'[s] = IF s = n THEN <<>> ELSE blocked[s]
  BY <1>1
<1>5. Range(<<>>) = {}
  BY EmptyQueue
<1>6. \A t \in Tasks : Blocked(t)' <=> Blocked(t) /\ t \notin Range(blocked[n])
  <2> TAKE t \in Tasks
  <2>1. t \in Range(blocked[n]) => \A s \in Sems : BlockedOn(t, s) => s = n
    BY DEF IInv, OneQueue, BlockedOn
  <2> QED
    BY <1>4, <1>5, <2>1 DEF Blocked, BlockedOn
<1>7. \A t \in Tasks :
         outcome'[t] = IF t \in Range(blocked[n]) THEN "refused" ELSE outcome[t]
  <2> TAKE t \in Tasks
  <2>1. CASE t \in Range(blocked[n])
    <3>1. t \in in_wait
      BY <2>1 DEF IInv, WaitersKeepTheirStack, Blocked, BlockedOn
    <3> QED
      BY <1>1, <1>6, <2>1, <3>1, MappedStateNext DEF Mapping
  <2>2. CASE t \notin Range(blocked[n])
    <3>1. destroyed'[t] = destroyed[t]
      BY <1>1, <2>2
    <3> QED
      BY <1>1, <1>6, <2>2, <3>1, SameOutcome
  <2> QED
    BY <2>1, <2>2
<1>8. outcome' = [t \in Tasks |-> IF t \in Range(blocked[n]) THEN "refused" ELSE outcome[t]]
  <2>1. outcome' = [t \in Tasks |-> outcome'[t]]
    BY MappedStateNext DEF Mapping
  <2> QED
    BY <1>7, <2>1
<1> QED
  BY <1>1, <1>2, <1>3, <1>8 DEF Abs!Destroy, Abs!Range, Range

(* The second half of sem_wait returns the outcome. *)
LEMMA ReturnsOutcome ==
    ASSUME IInv, SemWaitReturn
    PROVE  Abs!Return(current)
<1>1. /\ current \in in_wait /\ in_wait' = in_wait \ {current} /\ current \in Tasks
      /\ destroyed' = [destroyed EXCEPT ![current] = 0] /\ ~Blocked(current)
      /\ isInit' = isInit /\ counter' = counter /\ blocked' = blocked
      /\ destroyed \in [Tasks -> {0, 1}]
  BY DEF SemWaitReturn, svars, IInv, TypeOK, OneQueue
<1>2. \A t : Blocked(t)' <=> Blocked(t)
  BY <1>1 DEF Blocked, BlockedOn
<1>3. outcome[current] \in {"granted", "refused"} /\ outcome'[current] = "none"
  BY <1>1, MappedState, MappedStateNext DEF Mapping
<1>4. \A t \in Tasks \ {current} : outcome'[t] = outcome[t]
  BY <1>1, <1>2, SameOutcome
<1>5. outcome' = [outcome EXCEPT ![current] = "none"]
  <2>1. outcome' = [t \in Tasks |-> outcome'[t]] /\ outcome = [t \in Tasks |-> outcome[t]]
    BY MappedState, MappedStateNext DEF Mapping
  <2> QED
    BY <1>3, <1>4, <2>1
<1>6. open' = open /\ value' = value
  BY <1>1, MappedState, MappedStateNext DEF Mapping
<1> QED
  BY <1>1, <1>3, <1>5, <1>6 DEF Abs!Return

(* The semaphores of the kernel keep every promise of module Semaphores, if the initial values
   fit an int: no unit is lost or invented, the longest waiter gets it, and each sem_wait
   returns the outcome decided for it, whatever tasks are created, end or are switched. *)
THEOREM SemaphoresArePromised ==
    ASSUME SemValuesFit
    PROVE  Spec => ImplementsSemaphores
<1>1. Init => Abs!AbsInit
  <2> SUFFICES ASSUME Init PROVE Abs!AbsInit
    OBVIOUS
  <2>1. /\ isInit = [s \in Sems |-> FALSE] /\ in_wait = {}
        /\ blocked = [s \in Sems |-> <<>>]
    BY DEF Init
  <2> QED
    BY <2>1, MappedState DEF Mapping, Abs!AbsInit
<1>2. IInv /\ [Next]_vars => [Abs!AbsNext]_(Abs!avars)
  <2> SUFFICES ASSUME IInv, [Next]_vars PROVE [Abs!AbsNext]_(Abs!avars)
    OBVIOUS
  <2>1. CASE ClockTick \/ sys_yield \/ LeaveForGood \/ page_fault \/ UNCHANGED vars
    <3>1. UNCHANGED <<isInit, counter, blocked, in_wait, destroyed>>
      BY <2>1 DEF ClockTick, sys_yield, LeaveForGood, page_fault, vars, svars, tvars
    <3> QED
      BY <3>1, NoCall
  <2>2. CASE sys_fork \/ sys_createthread
    <3> DEFINE u == Head(freequeue)
    <3>1. /\ UNCHANGED <<isInit, counter, blocked, in_wait>> /\ freequeue # <<>> /\ Running
          /\ destroyed' = [destroyed EXCEPT ![u] = destroyed[current]]
      BY <2>2 DEF sys_fork, sys_createthread, StartChild, ForkNoFrame, NewTaskFaults,
                  CopyTaskStruct, svars, CanCall, InUserMode
    <3>2. freequeue \in Seq(Tasks)
      BY DEF IInv, TypeOK
    <3>3. u \in Tasks /\ Free(u)
      BY <3>1, <3>2, DelFirst DEF Free
    <3>4. u \notin in_wait
      BY <3>1, <3>3 DEF IInv, WaitersKeepTheirStack, OneQueue
    <3> HIDE DEF u
    <3>5. \A t \in in_wait : destroyed'[t] = destroyed[t]
      BY <3>1, <3>4 DEF IInv, TypeOK
    <3> QED
      BY <3>1, <3>5, NoCall
  <2>3. CASE SemCall
    <3>1. PICK n \in SemArgs : \/ \E v \in SemValues : sys_sem_init(n, v)
                              \/ sys_sem_wait(n)
                              \/ sys_sem_signal(n)
                              \/ sys_sem_destroy(n)
      BY <2>3 DEF SemCall
    <3>2. CASE \E v \in SemValues : sys_sem_init(n, v)
      BY <3>2, CreateStep DEF Abs!AbsNext
    <3>3. CASE sys_sem_wait(n)
      <4>1. n \in Sems /\ CanCall /\ current \in Tasks
        BY <2>3, <3>3 DEF SemCall, sys_sem_wait, valid_sem, IInv, TypeOK
      <4> QED
        BY <3>3, <4>1, TakeStep, EnterStep DEF Abs!AbsNext
    <3>4. CASE sys_sem_signal(n)
      BY <3>4, PostStep DEF sys_sem_signal, valid_sem, Abs!AbsNext
    <3>5. CASE sys_sem_destroy(n)
      BY <3>5, DestroyWaits DEF sys_sem_destroy, valid_sem, Abs!AbsNext
    <3> QED
      BY <3>1, <3>2, <3>3, <3>4, <3>5
  <2>4. CASE SemWaitReturn
    <3>1. current \in Tasks
      BY DEF IInv, TypeOK
    <3> QED
      BY <2>4, <3>1, ReturnsOutcome DEF Abs!AbsNext
  <2> QED
    BY <2>1, <2>2, <2>3, <2>4 DEF Next, sys_exit, sys_terminatethread
<1> QED
  BY <1>1, <1>2, Invariant, PTL DEF Spec, ImplementsSemaphores, Abs!AbsSpec
=============================================================================
