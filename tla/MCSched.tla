------------------------------ MODULE MCSched ------------------------------
(* Instances of Sched for TLC: idle, init and a few free slots, one or two semaphores. *)
EXTENDS SchedRefinement

MCSemValues == {0, 1}
=============================================================================
