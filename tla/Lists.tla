-------------------------------- MODULE Lists --------------------------------
(***************************************************************************)
(* The doubly linked circular lists of zeos/list.c, pointer by pointer.    *)
(* The other modules see them as sequences, which is what this module      *)
(* justifies (ImplementsQueues).                                           *)
(*                                                                         *)
(* The callers keep to two rules that the code does not test: a node that  *)
(* is added is on no list, and one that is deleted is on one.  Module      *)
(* Sched shows (OneQueue, ListsSound) that the kernel does keep to them.   *)
(***************************************************************************)
EXTENDS Integers, Sequences, Functions, FiniteSets

CONSTANTS
    Nodes,      \* the list nodes of the task_structs
    Heads,      \* freequeue, readyqueue and the blocked list of each semaphore
    NULL

ASSUME ListsAssumption ==
    /\ IsFiniteSet(Nodes) /\ IsFiniteSet(Heads)
    /\ Nodes \cap Heads = {}
    /\ NULL \notin Nodes \cup Heads

Cells == Nodes \cup Heads

VARIABLES
    next,   \* next[c]: the field of that name of the list_head c
    prev

vars == <<next, prev>>

(* All of them are static data, zero at first. *)
Init ==
    /\ next = [c \in Cells |-> NULL]
    /\ prev = [c \in Cells |-> NULL]

Linked(c) == next[c] # NULL     \* for a head: it has been initialised

(* The four assignments of __list_add, between two adjacent cells p and n. *)
__list_add(new, p, n) ==
    /\ next' = [next EXCEPT ![new] = n, ![p] = new]
    /\ prev' = [prev EXCEPT ![n] = new, ![new] = p]

(* Mutant: the tail of the queue is taken for its head. *)
list_add_tail_AtHead(new, h) == __list_add(new, h, next[h])

list_add_tail(new, h) == __list_add(new, prev[h], h)

(* list_del: the neighbours are joined, then the pointers of the entry become NULL. *)
list_del(entry) ==
    /\ next' = [next EXCEPT ![prev[entry]] = next[entry], ![entry] = NULL]
    /\ prev' = [prev EXCEPT ![next[entry]] = prev[entry], ![entry] = NULL]

list_empty(h) == next[h] = h

INIT_LIST_HEAD(h) ==
    /\ next' = [next EXCEPT ![h] = h]
    /\ prev' = [prev EXCEPT ![h] = h]

(* What the kernel does with the lists: init_sched and sem_init initialise heads of lists with
   nothing in them, sem_init again and again; free nodes are added at the tail (list_add, which adds at
   the head, is never called); nodes are taken out, the first of a list in most places. *)
Next ==
    \/ \E h \in Heads : (~Linked(h) \/ list_empty(h)) /\ INIT_LIST_HEAD(h)
    \/ \E n \in Nodes, h \in Heads :
          ~Linked(n) /\ Linked(h) /\ list_add_tail(n, h)
    \/ \E n \in Nodes : Linked(n) /\ list_del(n)

Spec == Init /\ [][Next]_vars

-----------------------------------------------------------------------------
(* next and prev are inverse to each other on the cells that are linked, and NULL together on
   the others: the lists can be walked both ways, whatever was added and deleted where. *)
DoublyLinked ==
    /\ next \in [Cells -> Cells \cup {NULL}]
    /\ prev \in [Cells -> Cells \cup {NULL}]
    /\ \A c \in Cells : next[c] = NULL <=> prev[c] = NULL
    /\ \A c \in Cells : next[c] # NULL => prev[next[c]] = c /\ next[prev[c]] = c

(* The i-th cell from a head, and the nodes of its list in order. *)
Walk(h) ==
    LET walk[i \in 0 .. Cardinality(Nodes) + 1] == IF i = 0 THEN h ELSE next[walk[i - 1]]
    IN  walk
Back(h, w) == {i \in DOMAIN w \ {0} : w[i] = h}
Length(h, w) == (CHOOSE i \in Back(h, w) : \A j \in Back(h, w) : i <= j) - 1
Content(h) ==
    IF ~Linked(h) THEN <<>> ELSE LET w == Walk(h) IN [i \in 1 .. Length(h, w) |-> w[i]]

Abs == INSTANCE Queues WITH Elements <- Nodes, q <- [h \in Heads |-> Content(h)]

(* The pointers implement queues: what follows a head, up to that head again, is the sequence
   of the nodes that were added and not deleted, in order. *)
ImplementsQueues == Abs!QSpec
=============================================================================
