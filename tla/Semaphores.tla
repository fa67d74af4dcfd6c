----------------------------- MODULE Semaphores -----------------------------
(***************************************************************************)
(* What the semaphore calls promise, without counters that go negative,    *)
(* task states or a scheduler: counting semaphores that can be created and *)
(* destroyed, with waiters served in order of arrival.  A wait that has    *)
(* been decided (granted, or refused because the semaphore was destroyed)  *)
(* is delivered to its task by a later step, Return.                       *)
(* Sched implements this specification (module SchedRefinement).           *)
(***************************************************************************)
EXTENDS Integers, Sequences, Functions

CONSTANTS
    Clients,    \* the tasks that may wait
    Names,      \* the semaphores
    Values      \* the initial values

VARIABLES
    open,       \* the semaphores that exist
    value,      \* [Names -> Nat], the units available
    queue,      \* [Names -> Seq(Clients)], who waits for a unit
    outcome     \* [Clients -> Outcomes], how far the wait of each client is

avars == <<open, value, queue, outcome>>

Outcomes == {"none", "waiting", "granted", "refused"}

AbsInit ==
    /\ open = {}
    /\ value = [s \in Names |-> 0]
    /\ queue = [s \in Names |-> <<>>]
    /\ outcome = [c \in Clients |-> "none"]

Create(s, v) ==
    /\ s \notin open
    /\ open' = open \cup {s}
    /\ value' = [value EXCEPT ![s] = v]
    /\ UNCHANGED <<queue, outcome>>

(* A unit is available: the wait is over before it began. *)
Take(s) ==
    /\ s \in open /\ value[s] > 0
    /\ value' = [value EXCEPT ![s] = @ - 1]
    /\ UNCHANGED <<open, queue, outcome>>

Enter(s, c) ==
    /\ s \in open /\ value[s] = 0
    /\ outcome[c] = "none"
    /\ queue' = [queue EXCEPT ![s] = Append(@, c)]
    /\ outcome' = [outcome EXCEPT ![c] = "waiting"]
    /\ UNCHANGED <<open, value>>

(* A signalled unit goes to the one who has waited longest, else it is kept. *)
Post(s) ==
    /\ s \in open
    /\ IF queue[s] = <<>>
       THEN /\ value' = [value EXCEPT ![s] = @ + 1]
            /\ UNCHANGED <<queue, outcome>>
       ELSE /\ queue' = [queue EXCEPT ![s] = Tail(@)]
            /\ outcome' = [outcome EXCEPT ![Head(queue[s])] = "granted"]
            /\ UNCHANGED value
    /\ UNCHANGED open

(* Everybody who waits is refused, at once. *)
Destroy(s) ==
    /\ s \in open
    /\ open' = open \ {s}
    /\ value' = [value EXCEPT ![s] = 0]
    /\ queue' = [queue EXCEPT ![s] = <<>>]
    /\ outcome' = [c \in Clients |-> IF c \in Range(queue[s]) THEN "refused" ELSE outcome[c]]

Return(c) ==
    /\ outcome[c] \in {"granted", "refused"}
    /\ outcome' = [outcome EXCEPT ![c] = "none"]
    /\ UNCHANGED <<open, value, queue>>

AbsNext ==
    \/ \E s \in Names :
          \/ \E v \in Values : Create(s, v)
          \/ Take(s)
          \/ \E c \in Clients : Enter(s, c)
          \/ Post(s)
          \/ Destroy(s)
    \/ \E c \in Clients : Return(c)

AbsSpec == AbsInit /\ [][AbsNext]_avars
=============================================================================
