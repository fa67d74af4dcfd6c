------------------------------- MODULE Queues -------------------------------
(***************************************************************************)
(* What the rest of the kernel uses the lists of zeos/list.c for: queues   *)
(* of task_structs, each of which is in one queue at most.  Module Sched   *)
(* is written with such sequences; module Lists implements them.           *)
(***************************************************************************)
EXTENDS Integers, Sequences, Functions

CONSTANTS
    Elements,   \* what is queued
    Heads       \* the queues

VARIABLE q      \* [Heads -> Seq(Elements)]

QInit == q = [h \in Heads |-> <<>>]

InNoQueue(e) == \A h \in Heads : e \notin Range(q[h])

AddTail(e, h) ==
    /\ InNoQueue(e)
    /\ q' = [q EXCEPT ![h] = Append(@, e)]

Remove(e) ==
    \E h \in Heads : \E i \in 1 .. Len(q[h]) :
       /\ q[h][i] = e
       /\ q' = [q EXCEPT ![h] = SubSeq(@, 1, i - 1) \o SubSeq(@, i + 1, Len(@))]

Clear(h) == q' = [q EXCEPT ![h] = <<>>]

QNext ==
    \/ \E e \in Elements, h \in Heads : AddTail(e, h)
    \/ \E e \in Elements : Remove(e)
    \/ \E h \in Heads : Clear(h)

QSpec == QInit /\ [][QNext]_q
=============================================================================
