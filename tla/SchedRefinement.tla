-------------------------- MODULE SchedRefinement --------------------------
(***************************************************************************)
(* The kernel's semaphores, seen through a refinement mapping, implement   *)
(* module Semaphores.  A positive counter is the number of units; the      *)
(* outcome of a wait is spread over three places of the kernel: the set of *)
(* suspended kernel stacks, the queues, and the destroyed flag.            *)
(***************************************************************************)
EXTENDS Sched

open == {s \in Sems : isInit[s]}
value == [s \in Sems |-> IF isInit[s] /\ counter[s] > 0 THEN counter[s] ELSE 0]
outcome == [t \in Tasks |->
               IF t \notin in_wait THEN "none"
               ELSE IF Blocked(t) THEN "waiting"
               ELSE IF destroyed[t] = 1 THEN "refused" ELSE "granted"]

Abs == INSTANCE Semaphores WITH
           Clients <- Tasks, Names <- Sems, Values <- SemValues,
           open <- open, value <- value, queue <- blocked, outcome <- outcome

(* sem_init, sem_wait, sem_signal and sem_destroy are the semaphores of module Semaphores:
   a unit is never lost or invented, the longest waiter gets it, and each wait returns the
   outcome that was decided for it (-1 exactly when its semaphore was destroyed). *)
ImplementsSemaphores == Abs!AbsSpec
=============================================================================
