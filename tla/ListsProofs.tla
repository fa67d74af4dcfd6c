---------------------------- MODULE ListsProofs ----------------------------
(***************************************************************************)
(* The pointers of zeos/list.c, for any number of nodes and of lists, stay *)
(* doubly linked and do what Queues says.  DoublyLinked is inductive as it *)
(* stands.  For ImplementsQueues the invariant ListsInv adds a queue for   *)
(* each head whose cells next walks through, one by one and back to the    *)
(* head (Holds).  Content is such a walk: that one exists, and is the only *)
(* one, is by induction along the cells (UpTo).                            *)
(***************************************************************************)
EXTENDS Lists, QueueLemmas

(* __list_add between two neighbours keeps the pointers inverse to each other. *)
LEMMA AddKeepsLinks ==
    ASSUME DoublyLinked, NEW n \in Cells, NEW p \in Cells, NEW x \in Cells,
           ~Linked(n), Linked(p), next[p] = x, __list_add(n, p, x)
    PROVE  DoublyLinked'
<1>1. /\ next \in [Cells -> Cells \cup {NULL}] /\ prev \in [Cells -> Cells \cup {NULL}]
      /\ \A c \in Cells : next[c] = NULL <=> prev[c] = NULL
      /\ \A c \in Cells : next[c] # NULL => prev[next[c]] = c /\ next[prev[c]] = c
      /\ NULL \notin Cells
  BY ListsAssumption DEF DoublyLinked, Cells
<1>2. /\ next' = [next EXCEPT ![n] = x, ![p] = n]
      /\ prev' = [prev EXCEPT ![x] = n, ![n] = p]
  BY DEF __list_add
<1>3. next[n] = NULL /\ prev[n] = NULL /\ p # n /\ x # n /\ prev[x] = p
  BY <1>1 DEF Linked
<1>4. /\ next' \in [Cells -> Cells \cup {NULL}] /\ prev' \in [Cells -> Cells \cup {NULL}]
      /\ next'[n] = x /\ next'[p] = n /\ \A c \in Cells : c # n /\ c # p => next'[c] = next[c]
      /\ prev'[x] = n /\ prev'[n] = p /\ \A c \in Cells : c # n /\ c # x => prev'[c] = prev[c]
  BY <1>1, <1>2, <1>3
<1>5. \A c \in Cells : next'[c] = NULL <=> prev'[c] = NULL
  BY <1>1, <1>3, <1>4
<1>6. \A c \in Cells : next'[c] # NULL => prev'[next'[c]] = c /\ next'[prev'[c]] = c
  <2> SUFFICES ASSUME NEW c \in Cells, next'[c] # NULL
               PROVE  prev'[next'[c]] = c /\ next'[prev'[c]] = c
    OBVIOUS
  <2>1. prev'[next'[c]] = c
    BY <1>1, <1>3, <1>4
  <2>2. next'[prev'[c]] = c
    BY <1>1, <1>3, <1>4, <1>5
  <2> QED
    BY <2>1, <2>2
<1> QED
  BY <1>4, <1>5, <1>6 DEF DoublyLinked

(* list_del of a node that is on a list joins its neighbours. *)
LEMMA DelKeepsLinks ==
    ASSUME DoublyLinked, NEW n \in Cells, Linked(n), list_del(n)
    PROVE  DoublyLinked'
<1> DEFINE p == prev[n]
           x == next[n]
<1>1. /\ next \in [Cells -> Cells \cup {NULL}] /\ prev \in [Cells -> Cells \cup {NULL}]
      /\ \A c \in Cells : next[c] = NULL <=> prev[c] = NULL
      /\ \A c \in Cells : next[c] # NULL => prev[next[c]] = c /\ next[prev[c]] = c
      /\ NULL \notin Cells
  BY ListsAssumption DEF DoublyLinked, Cells
<1>2. /\ next' = [next EXCEPT ![p] = x, ![n] = NULL]
      /\ prev' = [prev EXCEPT ![x] = p, ![n] = NULL]
  BY DEF list_del
<1>3. /\ p \in Cells /\ x \in Cells /\ next[p] = n /\ prev[x] = n
      /\ p = n <=> x = n
  BY <1>1 DEF Linked
<1>4. /\ next' \in [Cells -> Cells \cup {NULL}] /\ prev' \in [Cells -> Cells \cup {NULL}]
      /\ next'[n] = NULL /\ prev'[n] = NULL
      /\ p # n => next'[p] = x /\ prev'[x] = p
      /\ \A c \in Cells : c # n /\ c # p => next'[c] = next[c]
      /\ \A c \in Cells : c # n /\ c # x => prev'[c] = prev[c]
  BY <1>1, <1>2, <1>3
<1>5. \A c \in Cells : next'[c] = NULL <=> prev'[c] = NULL
  BY <1>1, <1>3, <1>4
<1>6. \A c \in Cells : next'[c] # NULL => prev'[next'[c]] = c /\ next'[prev'[c]] = c
  BY <1>1, <1>3, <1>4
<1> QED
  BY <1>4, <1>5, <1>6 DEF DoublyLinked

(* INIT_LIST_HEAD of a head that is unused, or whose list is empty. *)
LEMMA InitKeepsLinks ==
    ASSUME DoublyLinked, NEW h \in Cells, ~Linked(h) \/ list_empty(h), INIT_LIST_HEAD(h)
    PROVE  DoublyLinked'
<1>1. /\ next \in [Cells -> Cells \cup {NULL}] /\ prev \in [Cells -> Cells \cup {NULL}]
      /\ \A c \in Cells : next[c] = NULL <=> prev[c] = NULL
      /\ \A c \in Cells : next[c] # NULL => prev[next[c]] = c /\ next[prev[c]] = c
      /\ NULL \notin Cells
  BY ListsAssumption DEF DoublyLinked, Cells
<1>2. \A c \in Cells : c # h => next[c] # h /\ prev[c] # h
  BY <1>1 DEF Linked, list_empty
<1>3. /\ next' \in [Cells -> Cells \cup {NULL}] /\ prev' \in [Cells -> Cells \cup {NULL}]
      /\ next'[h] = h /\ prev'[h] = h
      /\ \A c \in Cells : c # h => next'[c] = next[c] /\ prev'[c] = prev[c]
  BY <1>1 DEF INIT_LIST_HEAD
<1> QED
  BY <1>1, <1>2, <1>3 DEF DoublyLinked

(* Whatever is added and deleted where, every list can be walked forwards and backwards. *)
THEOREM ListsStayLinked == Spec => []DoublyLinked
<1>1. Init => DoublyLinked
  BY ListsAssumption DEF Init, DoublyLinked
<1>2. DoublyLinked /\ [Next]_vars => DoublyLinked'
  <2> SUFFICES ASSUME DoublyLinked, [Next]_vars
               PROVE  DoublyLinked'
    OBVIOUS
  <2>1. ASSUME NEW h \in Heads, ~Linked(h) \/ list_empty(h), INIT_LIST_HEAD(h)
        PROVE  DoublyLinked'
    BY <2>1, InitKeepsLinks DEF Cells
  <2>2. ASSUME NEW n \in Nodes, NEW h \in Heads, ~Linked(n), Linked(h), list_add_tail(n, h)
        PROVE  DoublyLinked'
    <3>1. /\ h \in Cells /\ n \in Cells /\ next[h] \in Cells /\ prev[h] \in Cells
          /\ next[prev[h]] = h /\ Linked(prev[h])
      BY <2>2, ListsAssumption DEF DoublyLinked, Linked, Cells
    <3> QED
      BY <2>2, <3>1, AddKeepsLinks DEF list_add_tail
  <2>3. ASSUME NEW n \in Nodes, Linked(n), list_del(n)
        PROVE  DoublyLinked'
    BY <2>3, DelKeepsLinks DEF Cells
  <2>4. CASE UNCHANGED vars
    BY <2>4 DEF DoublyLinked, vars
  <2> QED
    BY <2>1, <2>2, <2>3, <2>4 DEF Next
<1> QED
  BY <1>1, <1>2, PTL DEF Spec

-----------------------------------------------------------------------------
(* The pointers nx hold the queues r *)

(* The cells of the circular list of h, whose nodes are s, from h to h again. *)
Cell(h, s, i) == IF i = 0 \/ i = Len(s) + 1 THEN h ELSE s[i]

Holds(nx, r) ==
    /\ r \in [Heads -> Seq(Nodes)]
    /\ \A h \in Heads : nx[h] = NULL => r[h] = <<>>
    /\ \A h \in Heads : nx[h] # NULL =>
          \A i \in 0 .. Len(r[h]) : nx[Cell(h, r[h], i)] = Cell(h, r[h], i + 1)
    /\ \A g, h \in Heads : \A i \in 1 .. Len(r[g]), j \in 1 .. Len(r[h]) :
          r[g][i] = r[h][j] => g = h /\ i = j
    /\ \A n \in Nodes : nx[n] # NULL => \E h \in Heads : n \in Range(r[h])

(* The walk along the pointers nx from h, as Lists defines it. *)
IsWalk(nx, h, k, w) == w = [i \in 0 .. k |-> IF i = 0 THEN h ELSE nx[w[i - 1]]]
Followed(nx, h) ==
    LET walk[i \in 0 .. Cardinality(Nodes) + 1] == IF i = 0 THEN h ELSE nx[walk[i - 1]]
    IN  walk
Found(nx, h) ==
    IF nx[h] = NULL THEN <<>>
    ELSE LET w == Followed(nx, h) IN [i \in 1 .. Length(h, w) |-> w[i]]

(* A walk of any length exists: the recursion of Walk defines one. *)
LEMMA WalkExists ==
    ASSUME NEW nx, NEW h, NEW k \in Nat
    PROVE  \E w : IsWalk(nx, h, k, w)
<1> DEFINE S == {m \in 0 .. k : \E w : IsWalk(nx, h, m, w)}
<1>1. 0 \in S
  <2> DEFINE w == [i \in 0 .. 0 |-> h]
  <2>1. w = [i \in 0 .. 0 |-> IF i = 0 THEN h ELSE nx[w[i - 1]]]
    OBVIOUS
  <2>2. IsWalk(nx, h, 0, w)
    BY <2>1 DEF IsWalk
  <2> QED
    BY <2>2
<1>2. ASSUME NEW m \in 0 .. k - 1, m \in S PROVE m + 1 \in S
  <2>1. PICK w : IsWalk(nx, h, m, w)
    BY <1>2
  <2> DEFINE v == [i \in 0 .. m + 1 |-> IF i <= m THEN w[i] ELSE nx[w[m]]]
  <2>2. w = [i \in 0 .. m |-> IF i = 0 THEN h ELSE nx[w[i - 1]]]
    BY <2>1 DEF IsWalk
  <2>3. \A i \in 0 .. m : w[i] = IF i = 0 THEN h ELSE nx[w[i - 1]]
    BY <2>2
  <2>4. \A i \in 0 .. m : v[i] = w[i]
    OBVIOUS
  <2>5. v[m + 1] = nx[v[m]] /\ m + 1 # 0 /\ m \in Nat
    OBVIOUS
  <2>6. \A i \in 0 .. m + 1 : v[i] = IF i = 0 THEN h ELSE nx[v[i - 1]]
    <3> HIDE DEF v
    <3> TAKE i \in 0 .. m + 1
    <3>1. CASE i = m + 1
      BY <2>5, <3>1
    <3>2. CASE i \in 1 .. m
      BY <2>3, <2>4, <3>2, i - 1 \in 0 .. m
    <3>3. CASE i = 0
      BY <2>3, <2>4, <2>5, <3>3
    <3> QED
      BY <3>1, <3>2, <3>3
  <2>7. v = [i \in 0 .. m + 1 |-> v[i]]
    OBVIOUS
  <2>8. IsWalk(nx, h, m + 1, v)
    <3> HIDE DEF v
    <3> QED
      BY <2>6, <2>7 DEF IsWalk
  <2> QED
    BY <2>8
<1> HIDE DEF S
<1>3. k \in S
  BY <1>1, <1>2, UpTo
<1> QED
  BY <1>3 DEF S

(* It goes through the cells of the list, in order. *)
LEMMA WalkFinds ==
    ASSUME NEW nx, NEW r, Holds(nx, r), NEW h \in Heads
    PROVE  Found(nx, h) = r[h]
<1>1. CASE nx[h] = NULL
  BY <1>1 DEF Holds, Found
<1>2. CASE nx[h] # NULL
  <2> DEFINE s == r[h]  k == Cardinality(Nodes)  w == Followed(nx, h)
  <2>1. /\ s \in Seq(Nodes) /\ Len(s) \in Nat /\ DOMAIN s = 1 .. Len(s)
        /\ \A i, j \in 1 .. Len(s) : s[i] = s[j] => i = j
        /\ \A i \in 0 .. Len(s) : nx[Cell(h, s, i)] = Cell(h, s, i + 1)
    BY <1>2, LenProperties DEF Holds
  <2>2. k \in Nat /\ Len(s) <= k
    <3>1. IsInjective(s)
      BY <2>1 DEF IsInjective
    <3>2. IsFiniteSet(Range(s)) /\ Cardinality(Range(s)) = Len(s)
      BY <2>1, <3>1, Members
    <3>3. Range(s) \subseteq Nodes
      BY <2>1 DEF Range
    <3> QED
      BY <3>2, <3>3, ListsAssumption, FS_Subset, FS_CardinalityType
  <2>3. IsWalk(nx, h, k + 1, w)
    <3>1. \E v : IsWalk(nx, h, k + 1, v)
      BY <2>2, WalkExists
    <3>2. w = CHOOSE v : v = [i \in 0 .. k + 1 |-> IF i = 0 THEN h ELSE nx[v[i - 1]]]
      BY DEF Followed
    <3> HIDE DEF w
    <3> QED
      BY <3>1, <3>2 DEF IsWalk
  <2> HIDE DEF w, s, k
  <2>4. /\ DOMAIN w = 0 .. k + 1
        /\ \A i \in 0 .. k + 1 : w[i] = IF i = 0 THEN h ELSE nx[w[i - 1]]
    BY <2>3 DEF IsWalk
  <2> DEFINE S == {i \in 0 .. Len(s) + 1 : w[i] = Cell(h, s, i)}
  <2>5. 0 .. Len(s) + 1 \subseteq S
    <3>1. 0 \in S
      BY <2>1, <2>2, <2>4 DEF Cell
    <3>2. ASSUME NEW i \in 0 .. (Len(s) + 1) - 1, i \in S PROVE i + 1 \in S
      <4>1. i \in 0 .. Len(s) /\ i + 1 \in 0 .. k + 1 /\ i + 1 # 0 /\ (i + 1) - 1 = i
        BY <2>1, <2>2
      <4>2. w[i + 1] = nx[w[i]] /\ w[i] = Cell(h, s, i)
        BY <2>4, <3>2, <4>1
      <4>3. w[i + 1] = Cell(h, s, i + 1)
        BY <2>1, <4>1, <4>2
      <4> QED
        BY <2>1, <4>1, <4>3
    <3>3. Len(s) + 1 \in Nat
      BY <2>1
    <3> HIDE DEF S
    <3> QED
      BY <3>1, <3>2, <3>3, UpTo
  <2>6. \A i \in 1 .. Len(s) : w[i] = s[i] /\ w[i] # h
    <3> TAKE i \in 1 .. Len(s)
    <3>1. w[i] = s[i]
      BY <2>1, <2>5 DEF Cell
    <3>2. s[i] \in Nodes
      BY <2>1
    <3> QED
      BY <3>1, <3>2, ListsAssumption
  <2>7. w[Len(s) + 1] = h /\ Len(s) + 1 \in 1 .. k + 1
    BY <2>1, <2>2, <2>5 DEF Cell
  <2>8. Length(h, w) = Len(s)
    <3> DEFINE B == Back(h, w)  c == CHOOSE i \in B : \A j \in B : i <= j
    <3>1. Len(s) + 1 \in B /\ \A i \in B : i \in Nat /\ Len(s) + 1 <= i
      BY <2>1, <2>2, <2>4, <2>6, <2>7 DEF Back
    <3>2. Length(h, w) = c - 1
      BY DEF Length
    <3> HIDE DEF B
    <3>3. c \in B /\ \A j \in B : c <= j
      BY <2>1, <3>1
    <3> HIDE DEF c
    <3>4. c = Len(s) + 1
      BY <2>1, <3>1, <3>3
    <3> QED
      BY <2>1, <3>2, <3>4
  <2>9. Found(nx, h) = [i \in 1 .. Len(s) |-> w[i]]
    BY <1>2, <2>8 DEF Found, w
  <2>10. Found(nx, h) = s
    BY <2>1, <2>6, <2>9
  <2> QED
    BY <2>10 DEF s
<1> QED
  BY <1>1, <1>2

(* A cell is in one place of one list. *)
LEMMA CellsApart ==
    ASSUME NEW nx, NEW r, Holds(nx, r), NEW g \in Heads, NEW h \in Heads,
           NEW i \in 0 .. Len(r[g]), NEW j \in 0 .. Len(r[h]),
           Cell(g, r[g], i) = Cell(h, r[h], j)
    PROVE  g = h /\ i = j
<1>1. /\ r[g] \in Seq(Nodes) /\ Len(r[g]) \in Nat
      /\ r[h] \in Seq(Nodes) /\ Len(r[h]) \in Nat
  BY LenProperties DEF Holds
<1>2. /\ i # 0 => i \in 1 .. Len(r[g]) /\ Cell(g, r[g], i) = r[g][i] /\ r[g][i] \in Nodes
      /\ j # 0 => j \in 1 .. Len(r[h]) /\ Cell(h, r[h], j) = r[h][j] /\ r[h][j] \in Nodes
      /\ i = 0 => Cell(g, r[g], i) = g
      /\ j = 0 => Cell(h, r[h], j) = h
  BY <1>1 DEF Cell
<1>3. (i = 0) = (j = 0)
  BY <1>2, ListsAssumption
<1>4. CASE i = 0
  BY <1>2, <1>3, <1>4
<1>5. CASE i # 0
  BY <1>2, <1>3, <1>5 DEF Holds
<1> QED
  BY <1>4, <1>5

(* The cells of a list of an initialised head are linked, and no other one is. *)
LEMMA CellsLinked ==
    ASSUME NEW nx \in [Cells -> Cells \cup {NULL}], NEW r, Holds(nx, r)
    PROVE  /\ \A h \in Heads : r[h] \in Seq(Nodes) /\ Len(r[h]) \in Nat
           /\ \A h \in Heads : \A i \in 0 .. Len(r[h]) + 1 :
                 Cell(h, r[h], i) \in Cells /\ (nx[h] # NULL => nx[Cell(h, r[h], i)] # NULL)
           /\ \A n \in Nodes : nx[n] # NULL =>
                 \E h \in Heads : nx[h] # NULL /\ \E k \in 1 .. Len(r[h]) : r[h][k] = n
<1>1. \A h \in Heads : r[h] \in Seq(Nodes) /\ Len(r[h]) \in Nat /\ DOMAIN r[h] = 1 .. Len(r[h])
  BY LenProperties DEF Holds
<1>2. ASSUME NEW h \in Heads, NEW i \in 0 .. Len(r[h]) + 1
      PROVE  Cell(h, r[h], i) \in Cells
  BY <1>1 DEF Cell, Cells
<1>3. ASSUME NEW h \in Heads, NEW i \in 0 .. Len(r[h]) + 1, nx[h] # NULL
      PROVE  nx[Cell(h, r[h], i)] # NULL
  <2>1. CASE i = Len(r[h]) + 1
    BY <1>3, <2>1 DEF Cell
  <2>2. CASE i # Len(r[h]) + 1
    <3>1. i \in 0 .. Len(r[h]) /\ i + 1 \in 0 .. Len(r[h]) + 1
      BY <1>1, <2>2
    <3>2. nx[Cell(h, r[h], i)] = Cell(h, r[h], i + 1)
      BY <1>3, <3>1 DEF Holds
    <3>3. Cell(h, r[h], i + 1) \in Cells
      BY <1>2, <3>1
    <3> QED
      BY <3>2, <3>3, ListsAssumption DEF Cells
  <2> QED
    BY <2>1, <2>2
<1>4. ASSUME NEW n \in Nodes, nx[n] # NULL
      PROVE  \E h \in Heads : nx[h] # NULL /\ \E k \in 1 .. Len(r[h]) : r[h][k] = n
  <2>1. PICK h \in Heads : n \in Range(r[h])
    BY <1>4 DEF Holds
  <2>2. PICK k \in 1 .. Len(r[h]) : r[h][k] = n
    BY <1>1, <2>1 DEF Range
  <2>3. nx[h] # NULL
    <3> SUFFICES ASSUME nx[h] = NULL PROVE FALSE
      OBVIOUS
    <3>1. Len(r[h]) = 0
      BY LenZero DEF Holds
    <3> QED
      BY <2>2, <3>1
  <2> QED
    BY <2>2, <2>3
<1> QED
  BY <1>1, <1>2, <1>3, <1>4

(* INIT_LIST_HEAD of an unused head, or of the head of an empty list. *)
LEMMA InitHolds ==
    ASSUME NEW nx \in [Cells -> Cells \cup {NULL}], NEW r, Holds(nx, r),
           NEW h \in Heads, nx[h] = NULL \/ nx[h] = h
    PROVE  Holds([nx EXCEPT ![h] = h], r)
<1> DEFINE ny == [nx EXCEPT ![h] = h]
<1>1. h \in Cells /\ \A c \in Cells : ny[c] = IF c = h THEN h ELSE nx[c]
  BY DEF Cells
<1> HIDE DEF ny
<1>2. r[h] = <<>>
  <2>1. CASE nx[h] = NULL
    BY <2>1 DEF Holds
  <2>2. CASE nx[h] # NULL
    <3>1. r[h] \in Seq(Nodes) /\ Len(r[h]) \in Nat
      BY CellsLinked
    <3>2. nx[Cell(h, r[h], 0)] = Cell(h, r[h], 1)
      BY <2>2, <3>1, 0 \in 0 .. Len(r[h]) DEF Holds
    <3>3. Cell(h, r[h], 1) = h
      BY <2>2, <3>2 DEF Cell
    <3>4. Len(r[h]) = 0
      BY <3>1, <3>3, ListsAssumption DEF Cell
    <3> QED
      BY <3>1, <3>4, LenZero
  <2> QED
    BY <2>1, <2>2
<1>3. Len(r[h]) = 0
  BY <1>2, EmptyQueue
<1>4. ASSUME NEW g \in Heads, ny[g] = NULL PROVE r[g] = <<>>
  BY <1>1, <1>4, ListsAssumption DEF Holds, Cells
<1>5. ASSUME NEW g \in Heads, ny[g] # NULL, NEW i \in 0 .. Len(r[g])
      PROVE  ny[Cell(g, r[g], i)] = Cell(g, r[g], i + 1)
  <2>1. CASE g = h
    BY <1>1, <1>3, <1>5, <2>1 DEF Cell
  <2>2. CASE g # h
    <3>1. nx[Cell(g, r[g], i)] = Cell(g, r[g], i + 1)
      BY <1>1, <1>5, <2>2 DEF Holds, Cells
    <3>2. Cell(h, r[h], 0) = h
      BY DEF Cell
    <3>3. Cell(g, r[g], i) # h /\ Cell(g, r[g], i) \in Cells
      BY <1>3, <2>2, <3>2, CellsApart, CellsLinked, 0 \in 0 .. Len(r[h])
    <3> QED
      BY <1>1, <3>1, <3>3
  <2> QED
    BY <2>1, <2>2
<1>6. ASSUME NEW n \in Nodes, ny[n] # NULL PROVE \E g \in Heads : n \in Range(r[g])
  BY <1>1, <1>6, ListsAssumption DEF Holds, Cells
<1> QED
  BY <1>4, <1>5, <1>6 DEF Holds, ny

(* __list_add of a free node, between the last cell of a list and its head. *)
LEMMA AddHolds ==
    ASSUME NEW nx \in [Cells -> Cells \cup {NULL}], NEW r, Holds(nx, r),
           \A c, d \in Cells : nx[c] = nx[d] /\ nx[c] # NULL => c = d,
           NEW n \in Nodes, nx[n] = NULL, NEW h \in Heads, nx[h] # NULL,
           NEW p \in Cells, nx[p] = h
    PROVE  Holds([nx EXCEPT ![n] = h, ![p] = n], [r EXCEPT ![h] = Append(@, n)])
<1> DEFINE ny == [nx EXCEPT ![n] = h, ![p] = n]
           s == r[h]
           t == Append(s, n)
           q == [r EXCEPT ![h] = t]
<1>1. /\ s \in Seq(Nodes) /\ Len(s) \in Nat /\ t \in Seq(Nodes) /\ Len(t) = Len(s) + 1
      /\ \A i \in 1 .. Len(s) : t[i] = s[i]
      /\ t[Len(s) + 1] = n
  BY CellsLinked, AppendProperties
<1>2. /\ q \in [Heads -> Seq(Nodes)] /\ q[h] = t /\ \A g \in Heads \ {h} : q[g] = r[g]
  BY <1>1 DEF Holds
<1>3. n \in Cells /\ h \in Cells /\ n # p /\ n # h /\ NULL \notin Cells
  BY ListsAssumption DEF Cells
<1>4. ny[n] = h /\ ny[p] = n /\ \A c \in Cells : c # n /\ c # p => ny[c] = nx[c]
  BY <1>3
<1> HIDE DEF ny, q, t
<1>5. p = Cell(h, s, Len(s))
  <2>1. nx[Cell(h, s, Len(s))] = Cell(h, s, Len(s) + 1) /\ Cell(h, s, Len(s)) \in Cells
    <3>1. Len(s) \in 0 .. Len(s) /\ Len(s) \in 0 .. Len(s) + 1
      BY <1>1
    <3>2. nx[Cell(h, s, Len(s))] = Cell(h, s, Len(s) + 1)
      BY <3>1 DEF Holds
    <3>3. Cell(h, s, Len(s)) \in Cells
      BY <3>1, CellsLinked
    <3> QED
      BY <3>2, <3>3
  <2>2. Cell(h, s, Len(s) + 1) = h
    BY DEF Cell
  <2> QED
    BY <1>3, <2>1, <2>2
<1>6. ASSUME NEW g \in Heads, g # h, NEW i \in 0 .. Len(r[g]), nx[g] # NULL
      PROVE  ny[Cell(g, r[g], i)] = nx[Cell(g, r[g], i)]
  <2>1. Cell(g, r[g], i) \in Cells /\ nx[Cell(g, r[g], i)] # NULL
    BY <1>6, CellsLinked, i \in 0 .. Len(r[g]) + 1
  <2>2. Cell(g, r[g], i) # p
    BY <1>1, <1>5, <1>6, CellsApart, Len(r[h]) \in 0 .. Len(r[h])
  <2> QED
    BY <1>4, <2>1, <2>2
<1>7. ASSUME NEW g \in Heads, ny[g] = NULL PROVE q[g] = <<>>
  <2>1. g # p /\ g # n /\ g # h /\ nx[g] = NULL
    BY <1>3, <1>4, <1>7, ListsAssumption DEF Cells
  <2> QED
    BY <1>2, <2>1 DEF Holds
<1>8. ASSUME NEW g \in Heads, ny[g] # NULL, NEW i \in 0 .. Len(q[g])
      PROVE  ny[Cell(g, q[g], i)] = Cell(g, q[g], i + 1)
  <2>1. CASE g # h
    <3>1. g # p
      <4>1. Cell(g, r[g], 0) = g /\ 0 \in 0 .. Len(r[g])
        BY CellsLinked DEF Cell
      <4> QED
        BY <1>1, <1>5, <2>1, <4>1, CellsApart, Len(r[h]) \in 0 .. Len(r[h])
    <3>2. nx[g] # NULL
      BY <1>3, <1>4, <1>8, <3>1, ListsAssumption DEF Cells
    <3>3. nx[Cell(g, r[g], i)] = Cell(g, r[g], i + 1)
      BY <1>2, <2>1, <3>2 DEF Holds
    <3> QED
      BY <1>2, <1>6, <2>1, <3>2, <3>3
  <2>2. CASE g = h /\ i = Len(s) + 1
    BY <1>1, <1>2, <1>4, <2>2 DEF Cell
  <2>3. CASE g = h /\ i = Len(s)
    <3>1. Cell(h, t, i) = p /\ Cell(h, t, i + 1) = n
      BY <1>1, <1>5, <2>3 DEF Cell
    <3> QED
      BY <1>2, <1>4, <2>3, <3>1
  <2>4. CASE g = h /\ i \in 0 .. Len(s) - 1
    <3>1. i \in 0 .. Len(s) /\ i + 1 \in 0 .. Len(s) /\ i # Len(s)
      BY <1>1, <2>4
    <3>2. Cell(h, t, i) = Cell(h, s, i) /\ Cell(h, t, i + 1) = Cell(h, s, i + 1)
      BY <1>1, <2>4 DEF Cell
    <3>3. nx[Cell(h, s, i)] = Cell(h, s, i + 1)
      BY <3>1 DEF Holds
    <3>4. Cell(h, s, i) # p
      BY <1>1, <1>5, <3>1, CellsApart, Len(r[h]) \in 0 .. Len(r[h])
    <3>5. Cell(h, s, i) \in Cells /\ Cell(h, s, i) # n
      <4>1. i \in 0 .. Len(s) + 1
        BY <1>1, <3>1
      <4> QED
        BY <4>1, CellsLinked
    <3> QED
      BY <1>2, <1>4, <2>4, <3>2, <3>3, <3>4, <3>5
  <2>5. g = h => i \in 0 .. Len(s) + 1
    BY <1>1, <1>2
  <2> QED
    BY <1>1, <2>1, <2>2, <2>3, <2>4, <2>5
<1>9. \A g \in Heads : \A i \in 1 .. Len(r[g]) : r[g][i] # n
  <2> SUFFICES ASSUME NEW g \in Heads, NEW i \in 1 .. Len(r[g]), r[g][i] = n PROVE FALSE
    OBVIOUS
  <2>1. r[g] \in Seq(Nodes) /\ Len(r[g]) \in Nat
    BY CellsLinked
  <2>2. Cell(g, r[g], i) = n /\ i \in 0 .. Len(r[g]) + 1
    BY <2>1 DEF Cell
  <2>3. nx[g] # NULL
    BY <2>1, LenZero DEF Holds
  <2> QED
    BY <2>2, <2>3, CellsLinked
<1>10. ASSUME NEW f \in Heads, NEW g \in Heads,
              NEW i \in 1 .. Len(q[f]), NEW j \in 1 .. Len(q[g]), q[f][i] = q[g][j]
       PROVE  f = g /\ i = j
  <2>1. /\ \/ q[f][i] = n /\ f = h /\ i = Len(s) + 1
           \/ i \in 1 .. Len(r[f]) /\ q[f][i] = r[f][i]
        /\ \/ q[g][j] = n /\ g = h /\ j = Len(s) + 1
           \/ j \in 1 .. Len(r[g]) /\ q[g][j] = r[g][j]
    <3>1. ASSUME NEW e \in Heads, NEW m \in 1 .. Len(q[e])
          PROVE  \/ q[e][m] = n /\ e = h /\ m = Len(s) + 1
                 \/ m \in 1 .. Len(r[e]) /\ q[e][m] = r[e][m]
      <4>1. CASE e # h
        BY <1>2, <4>1
      <4>2. CASE e = h
        <5>1. q[e] = t /\ m \in 1 .. Len(s) + 1
          BY <1>1, <1>2, <4>2
        <5>2. m = Len(s) + 1 \/ m \in 1 .. Len(s)
          BY <1>1, <5>1
        <5> QED
          BY <1>1, <4>2, <5>1, <5>2
      <4> QED
        BY ONLY <4>1, <4>2
    <3> QED
      BY <3>1
  <2>2. CASE q[f][i] = n
    <3>1. \/ q[g][j] = n /\ g = h /\ j = Len(s) + 1
          \/ j \in 1 .. Len(r[g]) /\ r[g][j] = n
      BY ONLY <1>10, <2>1, <2>2
    <3>2. f = h /\ i = Len(s) + 1 /\ g = h /\ j = Len(s) + 1
      BY <1>9, <2>1, <2>2, <3>1
    <3> QED
      BY ONLY <3>2
  <2>3. CASE q[f][i] # n
    <3>1. /\ i \in 1 .. Len(r[f]) /\ j \in 1 .. Len(r[g]) /\ r[f][i] = r[g][j]
      BY <1>10, <2>1, <2>3
    <3> QED
      BY <3>1 DEF Holds
  <2> QED
    BY <2>2, <2>3
<1>11. ASSUME NEW m \in Nodes, ny[m] # NULL PROVE \E g \in Heads : m \in Range(q[g])
  <2>1. Range(t) = Range(s) \cup {n}
    BY <1>1, AddTail DEF t
  <2>2. CASE m = n
    BY <1>2, <2>1, <2>2
  <2>3. CASE m # n
    <3>1. nx[m] # NULL
      BY <1>3, <1>4, <1>11, <2>3 DEF Cells
    <3>2. PICK g \in Heads : m \in Range(r[g])
      BY <3>1 DEF Holds
    <3> QED
      BY <1>2, <2>1, <3>2
  <2> QED
    BY <2>2, <2>3
<1>12. Holds(ny, q)
  BY <1>2, <1>7, <1>8, <1>10, <1>11 DEF Holds
<1> QED
  BY <1>12 DEF ny, q, t

(* list_del of the k-th node of a list. *)
LEMMA DelHolds ==
    ASSUME NEW nx \in [Cells -> Cells \cup {NULL}], NEW r, Holds(nx, r),
           \A c, d \in Cells : nx[c] = nx[d] /\ nx[c] # NULL => c = d,
           NEW h \in Heads, nx[h] # NULL, NEW k \in 1 .. Len(r[h]),
           NEW n, n = r[h][k], NEW p \in Cells, nx[p] = n,
           NEW t \in Seq(Nodes), Len(t) = Len(r[h]) - 1,
           \A i \in 1 .. Len(r[h]) - 1 : t[i] = IF i < k THEN r[h][i] ELSE r[h][i + 1]
    PROVE  Holds([nx EXCEPT ![p] = nx[n], ![n] = NULL], [r EXCEPT ![h] = t])
<1> DEFINE ny == [nx EXCEPT ![p] = nx[n], ![n] = NULL]
           s == r[h]
           l == Len(s)
           q == [r EXCEPT ![h] = t]
           x == nx[n]
<1>1. s \in Seq(Nodes) /\ l \in Nat /\ k \in 1 .. l /\ n \in Nodes /\ n = s[k] /\ DOMAIN s = 1 .. l
  BY CellsLinked, LenProperties
<1>2. q \in [Heads -> Seq(Nodes)] /\ q[h] = t /\ \A g \in Heads \ {h} : q[g] = r[g]
  BY DEF Holds
<1>3. n \in Cells /\ h \in Cells /\ n # h /\ NULL \notin Cells
  BY <1>1, ListsAssumption DEF Cells
<1> HIDE DEF l
<1>4. k \in 0 .. l /\ k - 1 \in 0 .. l /\ (k - 1) + 1 = k
  BY <1>1
<1>5. n = Cell(h, s, k)
  BY <1>1 DEF Cell, l
<1>6. x = Cell(h, s, k + 1)
  BY <1>4, <1>5 DEF Holds, l
<1>7. p = Cell(h, s, k - 1)
  <2>1. nx[Cell(h, s, k - 1)] = n
    BY <1>4, <1>5 DEF Holds, l
  <2>2. Cell(h, s, k - 1) \in Cells
    BY <1>1, <1>4, CellsLinked, k - 1 \in 0 .. Len(r[h]) + 1 DEF l
  <2> QED
    BY <1>3, <2>1, <2>2
<1>8. p # n
  BY <1>1, <1>4, <1>5, <1>7, CellsApart, k # k - 1 DEF l
<1>9. ny[n] = NULL /\ ny[p] = x /\ \A c \in Cells : c # n /\ c # p => ny[c] = nx[c]
  BY <1>3, <1>8
<1>10. x # NULL
  <2>1. k + 1 \in 0 .. Len(r[h]) + 1
    BY <1>1 DEF l
  <2>2. x \in Cells
    BY <1>6, <2>1, CellsLinked
  <2> QED
    BY <1>3, <2>2
<1> HIDE DEF ny, q, x
<1>11. ASSUME NEW g \in Heads, NEW i \in 0 .. Len(r[g]), ~(g = h /\ i = k), ~(g = h /\ i = k - 1)
       PROVE  ny[Cell(g, r[g], i)] = nx[Cell(g, r[g], i)]
  <2>1. k \in 0 .. Len(r[h]) /\ k - 1 \in 0 .. Len(r[h])
    BY <1>4 DEF l
  <2>2. Cell(g, r[g], i) # n
    BY <1>5, <1>11, <2>1, CellsApart
  <2>3. Cell(g, r[g], i) # p
    BY <1>7, <1>11, <2>1, CellsApart
  <2>4. Cell(g, r[g], i) \in Cells
    BY CellsLinked, i \in 0 .. Len(r[g]) + 1
  <2> QED
    BY <1>9, <2>2, <2>3, <2>4
<1>12. ASSUME NEW g \in Heads, g # h PROVE ny[g] = nx[g]
  <2>1. Cell(g, r[g], 0) = g /\ 0 \in 0 .. Len(r[g])
    BY CellsLinked DEF Cell
  <2> QED
    BY <1>11, <1>12, <2>1
<1>13. ny[h] # NULL
  <2>1. h \in Cells /\ h # n
    BY <1>3
  <2> QED
    BY <1>9, <1>10, <2>1
<1>14. ASSUME NEW g \in Heads, ny[g] = NULL PROVE q[g] = <<>>
  BY <1>2, <1>12, <1>13, <1>14 DEF Holds
<1>15. ASSUME NEW i \in 0 .. l
       PROVE  Cell(h, t, i) = IF i < k THEN Cell(h, s, i) ELSE Cell(h, s, i + 1)
  <2>1. Len(t) = l - 1 /\ Len(s) = l
    BY DEF l
  <2>2. \A j \in 1 .. l - 1 : t[j] = IF j < k THEN s[j] ELSE s[j + 1]
    BY DEF l
  <2>3. CASE i = 0 \/ i = l
    <3>1. k \in 1 .. l /\ l \in Nat /\ l - 1 + 1 = l
      BY <1>1
    <3>2. CASE i = 0
      BY ONLY <3>1, <3>2 DEF Cell
    <3>3. CASE i = l
      <4>1. Cell(h, t, l) = h /\ Cell(h, s, l + 1) = h /\ ~(l < k)
        BY ONLY <2>1, <3>1 DEF Cell
      <4> QED
        BY <3>3, <4>1
    <3> QED
      BY <2>3, <3>2, <3>3
  <2>4. CASE i \in 1 .. l - 1
    BY <1>1, <2>1, <2>2, <2>4 DEF Cell
  <2> QED
    BY <1>1, <2>3, <2>4
<1>16. ASSUME NEW g \in Heads, ny[g] # NULL, NEW i \in 0 .. Len(q[g])
       PROVE  ny[Cell(g, q[g], i)] = Cell(g, q[g], i + 1)
  <2>1. CASE g # h
    <3>1. q[g] = r[g] /\ i \in 0 .. Len(r[g]) /\ nx[g] # NULL
      BY <1>2, <1>12, <1>16, <2>1
    <3>2. nx[Cell(g, r[g], i)] = Cell(g, r[g], i + 1)
      BY <3>1 DEF Holds
    <3>3. ny[Cell(g, r[g], i)] = nx[Cell(g, r[g], i)]
      BY <1>11, <2>1, <3>1
    <3> QED
      BY <3>1, <3>2, <3>3
  <2>2. CASE g = h
    <3>1. i \in 0 .. l - 1 /\ i \in 0 .. l /\ i + 1 \in 0 .. l
      BY <1>1, <1>2, <2>2 DEF l
    <3>2. \A j \in 0 .. l : nx[Cell(h, s, j)] = Cell(h, s, j + 1)
      BY DEF Holds, l
    <3>3. \A j \in 0 .. l : j # k /\ j # k - 1 => ny[Cell(h, s, j)] = nx[Cell(h, s, j)]
      BY <1>11 DEF l
    <3>4. CASE i < k - 1
      <4>1. Cell(h, t, i) = Cell(h, s, i) /\ Cell(h, t, i + 1) = Cell(h, s, i + 1)
        BY <1>1, <1>15, <3>1, <3>4
      <4> QED
        BY <1>1, <1>2, <2>2, <3>1, <3>2, <3>3, <3>4, <4>1
    <3>5. CASE i = k - 1
      <4>1. Cell(h, t, i) = p /\ Cell(h, t, i + 1) = x
        BY <1>1, <1>6, <1>7, <1>15, <3>1, <3>5
      <4> QED
        BY <1>2, <1>9, <2>2, <4>1
    <3>6. CASE i >= k
      <4>1. Cell(h, t, i) = Cell(h, s, i + 1) /\ Cell(h, t, i + 1) = Cell(h, s, (i + 1) + 1)
        BY <1>1, <1>15, <3>1, <3>6
      <4>2. i + 1 # k /\ i + 1 # k - 1
        BY <1>1, <3>1, <3>6
      <4> QED
        BY <1>2, <2>2, <3>1, <3>2, <3>3, <4>1, <4>2
    <3> QED
      BY <1>1, <3>1, <3>4, <3>5, <3>6
  <2> QED
    BY <2>1, <2>2
<1>17. ASSUME NEW g \in Heads, NEW i \in 1 .. Len(q[g])
       PROVE  \E j \in 1 .. Len(r[g]) :
                 /\ q[g][i] = r[g][j]
                 /\ j = IF g = h /\ i >= k THEN i + 1 ELSE i
  <2>1. CASE g # h
    BY <1>2, <2>1
  <2>2. CASE g = h
    <3>1. i \in 1 .. l - 1 /\ q[g] = t
      BY <1>2, <2>2 DEF l
    <3>2. t[i] = IF i < k THEN s[i] ELSE s[i + 1]
      BY <3>1 DEF l
    <3>3. CASE i < k
      BY <1>1, <2>2, <3>1, <3>2, <3>3 DEF l
    <3>4. CASE i >= k
      <4>1. i + 1 \in 1 .. Len(r[g]) /\ q[g][i] = r[g][i + 1]
        BY <1>1, <2>2, <3>1, <3>2, <3>4 DEF l
      <4> QED
        BY <2>2, <3>4, <4>1
    <3> QED
      BY <1>1, <3>1, <3>3, <3>4
  <2> QED
    BY <2>1, <2>2
<1>18. ASSUME NEW f \in Heads, NEW g \in Heads,
              NEW i \in 1 .. Len(q[f]), NEW j \in 1 .. Len(q[g]), q[f][i] = q[g][j]
       PROVE  f = g /\ i = j
  <2>1. PICK a \in 1 .. Len(r[f]) : q[f][i] = r[f][a] /\ a = IF f = h /\ i >= k THEN i + 1 ELSE i
    BY <1>17
  <2>2. PICK b \in 1 .. Len(r[g]) : q[g][j] = r[g][b] /\ b = IF g = h /\ j >= k THEN j + 1 ELSE j
    BY <1>17
  <2>3. f = g /\ a = b
    <3>1. \A d, e \in Heads : \A c \in 1 .. Len(r[d]), m \in 1 .. Len(r[e]) :
             r[d][c] = r[e][m] => d = e /\ c = m
      BY DEF Holds
    <3>2. r[f][a] = r[g][b]
      BY <1>18, <2>1, <2>2
    <3> QED
      BY <3>1, <3>2
  <2>4. i \in Int /\ j \in Int /\ k \in Int
    BY <1>1
  <2>5. /\ a = IF f = h /\ i >= k THEN i + 1 ELSE i
        /\ b = IF g = h /\ j >= k THEN j + 1 ELSE j
    BY <2>1, <2>2
  <2>6. CASE f = h
    <3>1. (IF i >= k THEN i + 1 ELSE i) = (IF j >= k THEN j + 1 ELSE j)
      BY ONLY <2>3, <2>5, <2>6
    <3>2. i = j
      BY ONLY <2>4, <3>1
    <3> QED
      BY ONLY <2>3, <3>2
  <2>7. CASE f # h
    <3>1. a = i /\ b = j
      BY ONLY <2>3, <2>5, <2>7
    <3> QED
      BY ONLY <2>3, <3>1
  <2> QED
    BY ONLY <2>6, <2>7
<1>19. ASSUME NEW m \in Nodes, ny[m] # NULL PROVE \E g \in Heads : m \in Range(q[g])
  <2>1. m # n /\ m \in Cells
    BY <1>9, <1>19 DEF Cells
  <2>2. nx[m] # NULL
    BY <1>3, <1>9, <1>19, <2>1
  <2>3. PICK g \in Heads : nx[g] # NULL /\ \E j \in 1 .. Len(r[g]) : r[g][j] = m
    <3>1. \A d \in Nodes : nx[d] # NULL =>
             \E g \in Heads : nx[g] # NULL /\ \E j \in 1 .. Len(r[g]) : r[g][j] = d
      BY ONLY CellsLinked, Holds(nx, r)
    <3> QED
      BY ONLY <2>2, <3>1
  <2>4. PICK j \in 1 .. Len(r[g]) : r[g][j] = m
    BY <2>3
  <2>5. CASE g # h
    <3>1. DOMAIN r[g] = 1 .. Len(r[g])
      BY CellsLinked, LenProperties
    <3> QED
      BY <1>2, <2>4, <2>5, <3>1 DEF Range
  <2>6. CASE g = h
    <3>1. j # k /\ j \in 1 .. l
      BY <1>1, <2>1, <2>4, <2>6 DEF l
    <3>2. DOMAIN t = 1 .. l - 1
      BY LenProperties DEF l
    <3>3. CASE j < k
      <4>1. j \in 1 .. l - 1 /\ t[j] = m
        BY <1>1, <2>4, <2>6, <3>1, <3>3 DEF l
      <4> QED
        BY <1>2, <3>2, <4>1 DEF Range
    <3>4. CASE j > k
      <4>1. j - 1 \in 1 .. l - 1 /\ ~(j - 1 < k) /\ (j - 1) + 1 = j
        BY <1>1, <3>1, <3>4
      <4>2. t[j - 1] = m
        BY <2>4, <2>6, <4>1 DEF l
      <4> QED
        BY <1>2, <3>2, <4>1, <4>2 DEF Range
    <3> QED
      BY <1>1, <3>1, <3>3, <3>4
  <2> QED
    BY <2>5, <2>6
<1>20. Holds(ny, q)
  BY <1>2, <1>14, <1>16, <1>18, <1>19 DEF Holds
<1> QED
  BY <1>20 DEF ny, q, x

-----------------------------------------------------------------------------
(* The pointers implement queues *)

queue == [h \in Heads |-> Content(h)]

ListsInv == DoublyLinked /\ Holds(next, queue)

(* If the pointers hold r, what Content reads off them is r. *)
ContentsFound == queue = [h \in Heads |-> Found(next, h)]

LEMMA ContentReads == ContentsFound
BY DEF ContentsFound, queue, Content, Found, Followed, Walk, Linked

LEMMA ContentsAre ==
    ASSUME NEW nx, NEW r, Holds(nx, r)
    PROVE  [h \in Heads |-> Found(nx, h)] = r
<1>1. r = [h \in Heads |-> r[h]]
  BY DEF Holds
<1> QED
  BY <1>1, WalkFinds

(* The step of the abstract queues that a step of the pointers is, and the invariant after it. *)
LEMMA ListsStep ==
    ASSUME ListsInv, DoublyLinked', [Next]_vars
    PROVE  Holds(next, queue)' /\ [Abs!QNext]_queue
<1>1. /\ next \in [Cells -> Cells \cup {NULL}] /\ Holds(next, queue)
      /\ \A c, d \in Cells : next[c] = next[d] /\ next[c] # NULL => c = d
      /\ \A c \in Cells : next[c] # NULL => prev[c] \in Cells /\ next[prev[c]] = c
  BY ListsAssumption DEF ListsInv, DoublyLinked, Cells
<1>2. ASSUME NEW r, Holds(next', r) PROVE queue' = r /\ Holds(next, queue)'
  <2>1. queue' = [h \in Heads |-> Found(next', h)]
    <3>1. ContentsFound'
      BY ContentReads, PTL
    <3> QED
      BY <3>1 DEF ContentsFound
  <2> QED
    BY <1>2, <2>1, ContentsAre
<1>3. ASSUME NEW h \in Heads, ~Linked(h) \/ list_empty(h), INIT_LIST_HEAD(h)
      PROVE  Holds(next, queue)' /\ queue' = queue
  <2>1. next' = [next EXCEPT ![h] = h] /\ (next[h] = NULL \/ next[h] = h)
    BY <1>3 DEF INIT_LIST_HEAD, Linked, list_empty
  <2>2. Holds(next', queue)
    BY <1>1, <2>1, InitHolds
  <2> QED
    BY <1>2, <2>2
<1>4. ASSUME NEW n \in Nodes, NEW h \in Heads, ~Linked(n), Linked(h), list_add_tail(n, h)
      PROVE  Holds(next, queue)' /\ Abs!AddTail(n, h)
  <2> DEFINE p == prev[h]  r == [queue EXCEPT ![h] = Append(@, n)]
  <2>1. /\ next' = [next EXCEPT ![n] = h, ![p] = n]
        /\ next[n] = NULL /\ next[h] # NULL /\ p \in Cells /\ next[p] = h
    BY <1>1, <1>4 DEF list_add_tail, __list_add, Linked, Cells
  <2> HIDE DEF p
  <2>2. Holds(next', r)
    BY <1>1, <2>1, AddHolds
  <2>3. queue' = r /\ Holds(next, queue)'
    BY <1>2, <2>2
  <2>4. \A g \in Heads : n \notin Range(queue[g])
    <3> SUFFICES ASSUME NEW g \in Heads, n \in Range(queue[g]) PROVE FALSE
      OBVIOUS
    <3>1. queue[g] \in Seq(Nodes) /\ Len(queue[g]) \in Nat /\ DOMAIN queue[g] = 1 .. Len(queue[g])
      BY <1>1, CellsLinked, LenProperties
    <3>2. PICK i \in 1 .. Len(queue[g]) : queue[g][i] = n
      BY <3>1 DEF Range
    <3>3. Cell(g, queue[g], i) = n /\ i \in 0 .. Len(queue[g]) + 1
      BY <3>1, <3>2 DEF Cell
    <3>4. next[g] # NULL
      BY <1>1, <3>1, <3>2, LenZero DEF Holds
    <3> QED
      BY <1>1, <2>1, <3>3, <3>4, CellsLinked
  <2> QED
    BY <2>3, <2>4 DEF Abs!AddTail, Abs!InNoQueue, queue, Abs!Range, Range
<1>5. ASSUME NEW n \in Nodes, Linked(n), list_del(n)
      PROVE  Holds(next, queue)' /\ Abs!Remove(n)
  <2> DEFINE p == prev[n]
  <2>1. /\ next' = [next EXCEPT ![p] = next[n], ![n] = NULL]
        /\ next[n] # NULL /\ p \in Cells /\ next[p] = n
    BY <1>1, <1>5 DEF list_del, Linked, Cells
  <2> HIDE DEF p
  <2>2. PICK h \in Heads : next[h] # NULL /\ \E k \in 1 .. Len(queue[h]) : queue[h][k] = n
    BY <1>1, <2>1, CellsLinked
  <2>3. PICK k \in 1 .. Len(queue[h]) : queue[h][k] = n
    BY <2>2
  <2> DEFINE s == queue[h]
             t == SubSeq(s, 1, k - 1) \o SubSeq(s, k + 1, Len(s))
             r == [queue EXCEPT ![h] = t]
  <2>4. s \in Seq(Nodes)
    BY <1>1, CellsLinked
  <2>5. /\ t \in Seq(Nodes) /\ Len(t) = Len(s) - 1
        /\ \A i \in 1 .. Len(s) - 1 : t[i] = IF i < k THEN s[i] ELSE s[i + 1]
    <3>1. s \in Seq(Nodes) /\ k \in 1 .. Len(s)
      <4> HIDE DEF t, r
      <4> QED
        BY ONLY <2>3, <2>4
    <3>2. t = SubSeq(s, 1, k - 1) \o SubSeq(s, k + 1, Len(s))
      OBVIOUS
    <3> HIDE DEF s, t
    <3>3. \A u : u = SubSeq(s, 1, k - 1) \o SubSeq(s, k + 1, Len(s)) =>
             /\ u \in Seq(Nodes) /\ Len(u) = Len(s) - 1
             /\ \A i \in 1 .. Len(s) - 1 : u[i] = IF i < k THEN s[i] ELSE s[i + 1]
      BY ONLY <3>1, DelAny, Zenon
    <3> QED
      BY ONLY <3>2, <3>3, Zenon
  <2>6. r = [queue EXCEPT ![h] = SubSeq(@, 1, k - 1) \o SubSeq(@, k + 1, Len(@))]
    OBVIOUS
  <2> HIDE DEF t
  <2>7. Holds(next', r)
    BY <1>1, <2>1, <2>2, <2>3, <2>5, DelHolds
  <2> HIDE DEF r
  <2>8. queue' = r /\ Holds(next, queue)'
    BY <1>2, <2>7
  <2>9. queue' = [queue EXCEPT ![h] = SubSeq(@, 1, k - 1) \o SubSeq(@, k + 1, Len(@))]
    BY <2>6, <2>8
  <2> QED
    BY <2>3, <2>8, <2>9 DEF Abs!Remove, queue
<1>6. CASE UNCHANGED vars
  <2>1. Holds(next', queue)
    BY <1>1, <1>6 DEF vars
  <2> QED
    BY <1>2, <2>1
<1> QED
  BY <1>3, <1>4, <1>5, <1>6 DEF Next, Abs!QNext

LEMMA ListsStart == Init => Holds(next, queue) /\ Abs!QInit
<1> SUFFICES ASSUME Init PROVE Holds(next, queue) /\ Abs!QInit
  OBVIOUS
<1>1. \A c \in Cells : next[c] = NULL
  BY DEF Init
<1>2. queue = [h \in Heads |-> <<>>]
  BY <1>1 DEF queue, Content, Linked, Cells
<1>3. \A h \in Heads : Len(queue[h]) = 0 /\ Range(queue[h]) = {} /\ queue[h] \in Seq(Nodes)
  BY <1>2, EmptyQueue
<1>4. Holds(next, queue)
  BY <1>1, <1>2, <1>3 DEF Holds, Cells
<1> QED
  BY <1>2, <1>4 DEF Abs!QInit, queue

(* What follows a head, up to that head again, is at any time the sequence of the nodes that were
   added and not deleted, in order: the pointers of zeos/list.c are queues. *)
THEOREM ListsAreQueues == Spec => ImplementsQueues
<1>1. Spec => [](DoublyLinked /\ Holds(next, queue))
  <2>1. DoublyLinked /\ Holds(next, queue) /\ [Next]_vars /\ DoublyLinked' => Holds(next, queue)'
    BY ListsStep DEF ListsInv
  <2> QED
    BY <2>1, ListsStart, ListsStayLinked, PTL DEF Spec
<1>2. DoublyLinked /\ Holds(next, queue) /\ DoublyLinked' /\ [Next]_vars => [Abs!QNext]_queue
  BY ListsStep DEF ListsInv
<1> QED
  BY <1>1, <1>2, ListsStart, PTL DEF Spec, ImplementsQueues, Abs!QSpec, queue
=============================================================================
