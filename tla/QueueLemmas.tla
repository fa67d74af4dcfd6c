---------------------------- MODULE QueueLemmas ----------------------------
(***************************************************************************)
(* What the list operations of zeos/list.c do to a queue, as a set and as  *)
(* a list without repetitions: list_add_tail is Append, list_del of        *)
(* list_first is Tail, and sem_destroy's loop is concatenation.  And what  *)
(* the kernel's searches for a free frame or page find: the least ones.    *)
(* Inductions along an interval (UpTo), and the values that a loop takes   *)
(* (Iterates).                                                             *)
(***************************************************************************)
EXTENDS Sequences, Integers, FiniteSets, Functions, SequenceTheorems, FiniteSetTheorems, TLAPS

(* The intervals that count n things, from 1 as queues do and from 0 as pages do. *)
LEMMA Interval ==
    ASSUME NEW n \in Nat
    PROVE  /\ IsFiniteSet(1 .. n) /\ Cardinality(1 .. n) = n
           /\ IsFiniteSet(0 .. n - 1) /\ Cardinality(0 .. n - 1) = n
<1>1. 0 \in Int /\ 1 \in Int /\ n \in Int /\ n - 1 \in Int
  OBVIOUS
<1>2. IsFiniteSet(1 .. n) /\ Cardinality(1 .. n) = IF 1 > n THEN 0 ELSE n - 1 + 1
  BY ONLY <1>1, FS_Interval
<1>3. /\ IsFiniteSet(0 .. n - 1)
      /\ Cardinality(0 .. n - 1) = IF 0 > n - 1 THEN 0 ELSE n - 1 - 0 + 1
  BY ONLY <1>1, FS_Interval
<1>4. /\ (IF 1 > n THEN 0 ELSE n - 1 + 1) = n
      /\ (IF 0 > n - 1 THEN 0 ELSE n - 1 - 0 + 1) = n
  OBVIOUS
<1> QED
  BY ONLY <1>2, <1>3, <1>4

(* list_add_tail adds its node to the queue and nothing else, and keeps the queue free of
   repetitions when the node was not on it. *)
LEMMA AddTail ==
    ASSUME NEW S, NEW q \in Seq(S), NEW e \in S
    PROVE  /\ Append(q, e) \in Seq(S)
           /\ Append(q, e) # <<>>
           /\ Len(Append(q, e)) = Len(q) + 1
           /\ Range(Append(q, e)) = Range(q) \cup {e}
           /\ IsInjective(q) /\ e \notin Range(q) => IsInjective(Append(q, e))
<1> DEFINE a == Append(q, e)
<1>1. /\ a \in Seq(S) /\ a # <<>> /\ Len(a) = Len(q) + 1
      /\ \A i \in 1 .. Len(q) : a[i] = q[i]
      /\ a[Len(q) + 1] = e
  BY AppendProperties
<1>2. /\ DOMAIN q = 1 .. Len(q) /\ Len(q) \in Nat
      /\ DOMAIN a = 1 .. Len(q) + 1
  BY <1>1, LenProperties
<1> HIDE DEF a
<1>3. Range(a) = Range(q) \cup {e}
  BY <1>1, <1>2 DEF Range
<1>4. ASSUME IsInjective(q), e \notin Range(q) PROVE IsInjective(a)
  <2>1. \A i \in 1 .. Len(q) : q[i] # e
    BY <1>2, <1>4 DEF Range
  <2>2. \A i, j \in 1 .. Len(q) : q[i] = q[j] => i = j
    BY <1>2, <1>4 DEF IsInjective
  <2> SUFFICES ASSUME NEW i \in 1 .. Len(q) + 1, NEW j \in 1 .. Len(q) + 1, a[i] = a[j]
               PROVE  i = j
    BY <1>2 DEF IsInjective
  <2> QED
    BY <1>1, <1>2, <2>1, <2>2
<1> QED
  BY <1>1, <1>3, <1>4 DEF a

(* list_del of list_first removes that node and no other. *)
LEMMA DelFirst ==
    ASSUME NEW S, NEW q \in Seq(S), q # <<>>
    PROVE  /\ Head(q) \in S
           /\ Head(q) \in Range(q)
           /\ Tail(q) \in Seq(S)
           /\ Len(Tail(q)) = Len(q) - 1
           /\ Range(Tail(q)) \subseteq Range(q)
           /\ Range(q) \subseteq Range(Tail(q)) \cup {Head(q)}
           /\ IsInjective(q) => /\ IsInjective(Tail(q))
                                /\ Head(q) \notin Range(Tail(q))
<1>1. /\ Len(q) \in Nat \ {0} /\ DOMAIN q = 1 .. Len(q)
  BY EmptySeq, LenProperties
<1>2. /\ Head(q) \in S /\ Tail(q) \in Seq(S) /\ Len(Tail(q)) = Len(q) - 1
      /\ \A i \in 1 .. Len(Tail(q)) : Tail(q)[i] = q[i + 1]
      /\ Head(q) = q[1]
  BY HeadTailProperties
<1> DEFINE u == Tail(q)  h == Head(q)
<1>3. DOMAIN u = 1 .. Len(q) - 1
  BY <1>2, LenProperties
<1>4. \A i \in 1 .. Len(q) - 1 : u[i] = q[i + 1]
  BY <1>2
<1>5. h = q[1] /\ h \in Range(q)
  BY <1>1, <1>2 DEF Range
<1> HIDE DEF u, h
<1>6. Range(u) \subseteq Range(q)
  BY <1>1, <1>3, <1>4 DEF Range
<1>7. Range(q) \subseteq Range(u) \cup {h}
  <2> SUFFICES ASSUME NEW i \in 1 .. Len(q) PROVE q[i] \in Range(u) \cup {h}
    BY <1>1 DEF Range
  <2>1. CASE i = 1
    BY <2>1, <1>5
  <2>2. CASE i # 1
    <3>1. i - 1 \in 1 .. Len(q) - 1 /\ q[i] = u[i - 1]
      BY <2>2, <1>1, <1>4
    <3> QED
      BY <3>1, <1>3 DEF Range
  <2> QED
    BY <2>1, <2>2
<1>8. ASSUME IsInjective(q) PROVE IsInjective(u) /\ h \notin Range(u)
  <2>1. \A i, j \in 1 .. Len(q) : q[i] = q[j] => i = j
    BY <1>1, <1>8 DEF IsInjective
  <2>2. IsInjective(u)
    <3> SUFFICES ASSUME NEW i \in 1 .. Len(q) - 1, NEW j \in 1 .. Len(q) - 1, u[i] = u[j]
                 PROVE  i = j
      BY <1>3 DEF IsInjective
    <3> QED
      BY <1>1, <1>4, <2>1
  <2>3. h \notin Range(u)
    <3> SUFFICES ASSUME NEW i \in 1 .. Len(q) - 1 PROVE u[i] # h
      BY <1>3 DEF Range
    <3> QED
      BY <1>1, <1>4, <1>5, <2>1
  <2> QED
    BY <2>2, <2>3
<1> QED
  BY <1>2, <1>5, <1>6, <1>7, <1>8 DEF u, h

(* Moving all of a queue to the tail of another one moves every node once. *)
LEMMA MoveAll ==
    ASSUME NEW S, NEW q \in Seq(S), NEW r \in Seq(S)
    PROVE  /\ q \o r \in Seq(S)
           /\ Range(q \o r) = Range(q) \cup Range(r)
           /\ IsInjective(q) /\ IsInjective(r) /\ Range(q) \cap Range(r) = {}
              => IsInjective(q \o r)
<1> DEFINE c == q \o r
<1>1. /\ c \in Seq(S) /\ Len(c) = Len(q) + Len(r)
      /\ \A i \in 1 .. Len(q) + Len(r) : c[i] = IF i <= Len(q) THEN q[i] ELSE r[i - Len(q)]
  BY ConcatProperties
<1>2. /\ DOMAIN q = 1 .. Len(q) /\ DOMAIN r = 1 .. Len(r) /\ DOMAIN c = 1 .. Len(q) + Len(r)
      /\ Len(q) \in Nat /\ Len(r) \in Nat
  BY <1>1, LenProperties
<1>3. Range(c) = Range(q) \cup Range(r)
  BY RangeConcatenation
<1> HIDE DEF c
<1>4. ASSUME IsInjective(q), IsInjective(r), Range(q) \cap Range(r) = {}
      PROVE  IsInjective(c)
  <2>1. \A i, j \in 1 .. Len(q) : q[i] = q[j] => i = j
    BY <1>2, <1>4 DEF IsInjective
  <2>2. \A i, j \in 1 .. Len(r) : r[i] = r[j] => i = j
    BY <1>2, <1>4 DEF IsInjective
  <2>3. \A i \in 1 .. Len(q), j \in 1 .. Len(r) : q[i] # r[j]
    BY <1>2, <1>4 DEF Range
  <2> SUFFICES ASSUME NEW i \in 1 .. Len(q) + Len(r), NEW j \in 1 .. Len(q) + Len(r),
                      c[i] = c[j]
               PROVE  i = j
    BY <1>2 DEF IsInjective
  <2>4. /\ i <= Len(q) => i \in 1 .. Len(q) /\ c[i] = q[i]
        /\ j <= Len(q) => j \in 1 .. Len(q) /\ c[j] = q[j]
        /\ ~(i <= Len(q)) => i - Len(q) \in 1 .. Len(r) /\ c[i] = r[i - Len(q)]
        /\ ~(j <= Len(q)) => j - Len(q) \in 1 .. Len(r) /\ c[j] = r[j - Len(q)]
    BY <1>1, <1>2
  <2>5. CASE i <= Len(q) /\ j <= Len(q)
    BY <2>1, <2>4, <2>5
  <2>6. CASE ~(i <= Len(q)) /\ ~(j <= Len(q))
    <3>1. i - Len(q) = j - Len(q)
      BY <2>2, <2>4, <2>6
    <3> QED
      BY <3>1, <1>2
  <2>7. (i <= Len(q)) = (j <= Len(q))
    BY <2>3, <2>4
  <2> QED
    BY <2>5, <2>6, <2>7
<1> QED
  BY <1>1, <1>3, <1>4 DEF c

(* The empty list. *)
LEMMA EmptyQueue ==
    ASSUME NEW S
    PROVE  <<>> \in Seq(S) /\ Len(<<>>) = 0 /\ Range(<<>>) = {} /\ IsInjective(<<>>)
BY EmptySeq, LenProperties DEF Range, IsInjective

(* A queue of length 0 is the empty list. *)
LEMMA LenZero ==
    ASSUME NEW S, NEW q \in Seq(S)
    PROVE  Len(q) \in Nat /\ (Len(q) = 0 <=> q = <<>>)
BY EmptySeq, LenProperties

(* A concatenation, by its parts. *)
LEMMA JoinTwo ==
    ASSUME NEW S, NEW a \in Seq(S), NEW b \in Seq(S), NEW u, u = a \o b
    PROVE  /\ u \in Seq(S) /\ Len(u) = Len(a) + Len(b)
           /\ \A i \in 1 .. Len(a) + Len(b) : u[i] = IF i <= Len(a) THEN a[i] ELSE b[i - Len(a)]
<1> DEFINE c == a \o b
<1>1. /\ c \in Seq(S) /\ Len(c) = Len(a) + Len(b)
      /\ \A i \in 1 .. Len(a) + Len(b) : c[i] = IF i <= Len(a) THEN a[i] ELSE b[i - Len(a)]
  BY ConcatProperties
<1>2. u = c
  OBVIOUS
<1> HIDE DEF c
<1> QED
  BY <1>1, <1>2

(* list_del of the k-th node moves the ones after it one place ahead. *)
LEMMA DelAny ==
    ASSUME NEW S, NEW q \in Seq(S), NEW k \in 1 .. Len(q), NEW u,
           u = SubSeq(q, 1, k - 1) \o SubSeq(q, k + 1, Len(q))
    PROVE  /\ u \in Seq(S) /\ Len(u) = Len(q) - 1
           /\ \A i \in 1 .. Len(q) - 1 : u[i] = IF i < k THEN q[i] ELSE q[i + 1]
<1> DEFINE a == SubSeq(q, 1, k - 1)  b == SubSeq(q, k + 1, Len(q))  n == Len(q)
<1>1. n \in Nat /\ k \in 1 .. n
  BY LenProperties
<1>2. a \in Seq(S) /\ Len(a) = k - 1 /\ \A i \in 1 .. k - 1 : a[i] = q[i]
  BY <1>1, SubSeqProperties
<1>3. b \in Seq(S) /\ Len(b) = n - k /\ \A i \in 1 .. n - k : b[i] = q[k + i]
  BY <1>1, SubSeqProperties
<1>4. u \in Seq(S) /\ Len(u) = Len(a) + Len(b)
  <2>1. a \in Seq(S) /\ b \in Seq(S) /\ u = a \o b
    BY <1>2, <1>3
  <2> HIDE DEF a, b
  <2>2. u \in Seq(S)
    BY ONLY <2>1, JoinTwo
  <2>3. Len(u) = Len(a) + Len(b)
    BY ONLY <2>1, JoinTwo
  <2> QED
    BY <2>2, <2>3
<1>5. \A i \in 1 .. Len(a) + Len(b) : u[i] = IF i <= Len(a) THEN a[i] ELSE b[i - Len(a)]
  <2>1. a \in Seq(S) /\ b \in Seq(S) /\ u = a \o b
    BY <1>2, <1>3
  <2> HIDE DEF a, b
  <2> QED
    BY ONLY <2>1, JoinTwo
<1> HIDE DEF a, b, n
<1>6. ASSUME NEW i \in 1 .. n - 1 PROVE u[i] = IF i < k THEN q[i] ELSE q[i + 1]
  <2>1. u[i] = IF i <= k - 1 THEN a[i] ELSE b[i - (k - 1)]
    BY ONLY <1>1, <1>2, <1>3, <1>5, i \in 1 .. n - 1
  <2>2. CASE i < k
    BY ONLY <1>1, <1>2, <2>1, <2>2, i \in 1 .. n - 1
  <2>3. CASE ~(i < k)
    <3>1. i - (k - 1) \in 1 .. n - k /\ k + (i - (k - 1)) = i + 1
      BY ONLY <1>1, <2>3, i \in 1 .. n - 1
    <3>2. b[i - (k - 1)] = q[i + 1]
      BY ONLY <1>3, <3>1
    <3> QED
      BY ONLY <1>1, <2>1, <2>3, <3>2, i \in 1 .. n - 1
  <2> QED
    BY ONLY <2>2, <2>3
<1>7. Len(u) = n - 1
  BY ONLY <1>1, <1>2, <1>3, <1>4
<1> QED
  BY ONLY <1>4, <1>6, <1>7 DEF n

-----------------------------------------------------------------------------
(* Finite sets of numbers *)

(* In a finite set of numbers each position of the increasing order is taken. *)
LEMMA Positions ==
    ASSUME NEW S, IsFiniteSet(S), S \subseteq Int
    PROVE  /\ Cardinality(S) \in Nat
           /\ \A i \in 0 .. Cardinality(S) - 1 :
                 \E f \in S : Cardinality({g \in S : g < f}) = i
<1> DEFINE n == Cardinality(S)
           Below(f) == {g \in S : g < f}
           rank == [f \in S |-> Cardinality(Below(f))]
<1>1. n \in Nat
  BY FS_CardinalityType
<1>2. ASSUME NEW f \in S, NEW T \in SUBSET S, Below(f) \subseteq T, f \in T
      PROVE  /\ rank[f] \in Nat
             /\ rank[f] < Cardinality(T)
             /\ Cardinality(T) \in Nat
  <2>1. IsFiniteSet(Below(f)) /\ IsFiniteSet(T)
    BY FS_Subset
  <2>2. Cardinality(Below(f)) \in Nat /\ Cardinality(T) \in Nat
    BY <2>1, FS_CardinalityType
  <2>3. f \notin Below(f)
    BY f \in Int
  <2>4. Cardinality(Below(f) \cup {f}) = Cardinality(Below(f)) + 1
    BY <2>1, <2>3, FS_AddElement
  <2>5. Cardinality(Below(f) \cup {f}) <= Cardinality(T)
    BY <1>2, <2>1, FS_Subset
  <2> QED
    BY <2>2, <2>4, <2>5
<1>3. \A f \in S : rank[f] \in 0 .. n - 1
  <2> TAKE f \in S
  <2> QED
    BY <1>1, <1>2
<1>4. \A f, h \in S : f < h => rank[f] < rank[h]
  <2> TAKE f, h \in S
  <2> SUFFICES ASSUME f < h PROVE rank[f] < rank[h]
    OBVIOUS
  <2>1. \A x \in S : x < f => x < h
    BY S \subseteq Int
  <2>2. Below(f) \subseteq Below(h) /\ f \in Below(h) /\ Below(h) \in SUBSET S
    BY <2>1
  <2> QED
    BY <1>2, <2>2
<1>5. rank \in Injection(S, 0 .. n - 1)
  <2>1. rank \in [S -> 0 .. n - 1] /\ DOMAIN rank = S
    BY <1>3
  <2> HIDE DEF rank
  <2>2. \A f, h \in S : rank[f] = rank[h] => f = h
    <3> TAKE f, h \in S
    <3>1. f = h \/ f < h \/ h < f
      BY S \subseteq Int
    <3>2. rank[f] \in Int /\ rank[h] \in Int
      BY <2>1
    <3> QED
      BY <1>4, <3>1, <3>2
  <2> QED
    BY <2>1, <2>2 DEF Injection, IsInjective
<1>6. IsFiniteSet(0 .. n - 1) /\ Cardinality(0 .. n - 1) = n
  BY <1>1, Interval
<1>7. rank \in Surjection(S, 0 .. n - 1)
  <2> DEFINE T == 0 .. n - 1
  <2>1. /\ IsFiniteSet(S) /\ IsFiniteSet(T) /\ Cardinality(T) = Cardinality(S)
        /\ rank \in Injection(S, T)
    BY <1>5, <1>6
  <2> HIDE DEF rank, T
  <2> QED
    BY ONLY <2>1, FS_Injection DEF T
<1> QED
  BY <1>1, <1>7 DEF Surjection

(* The search for the first free page finds one. *)
LEMMA Least ==
    ASSUME NEW S, IsFiniteSet(S), S \subseteq Int, S # {}
    PROVE  \E p \in S : \A q \in S : p <= q
<1>1. PICK p \in S : Cardinality({q \in S : q < p}) = 0
  <2>1. Cardinality(S) \in Nat /\ Cardinality(S) # 0
    BY FS_CardinalityType, FS_EmptySet
  <2>2. 0 \in 0 .. Cardinality(S) - 1
    BY <2>1
  <2> QED
    BY <2>2, Positions
<1>2. {q \in S : q < p} = {}
  <2>1. IsFiniteSet({q \in S : q < p})
    BY FS_Subset
  <2> QED
    BY <1>1, <2>1, FS_EmptySet
<1> QED
  BY <1>2

(* A queue without repetitions has as many members as its length. *)
LEMMA Members ==
    ASSUME NEW S, NEW q \in Seq(S), IsInjective(q)
    PROVE  IsFiniteSet(Range(q)) /\ Cardinality(Range(q)) = Len(q)
<1>1. Len(q) \in Nat /\ DOMAIN q = 1 .. Len(q)
  BY LenProperties
<1>2. q \in Bijection(1 .. Len(q), Range(q))
  <2>1. q = [i \in 1 .. Len(q) |-> q[i]]
    BY <1>1
  <2>2. q \in [1 .. Len(q) -> Range(q)]
    BY <1>1, <2>1 DEF Range
  <2>3. \A i, j \in 1 .. Len(q) : q[i] = q[j] => i = j
    BY <1>1 DEF IsInjective
  <2>4. \A t \in Range(q) : \E i \in 1 .. Len(q) : q[i] = t
    BY <1>1 DEF Range
  <2> QED
    BY <2>2, <2>3, <2>4 DEF Bijection, Injection, Surjection, IsInjective
<1>3. IsFiniteSet(1 .. Len(q)) /\ Cardinality(1 .. Len(q)) = Len(q)
  <2>1. Len(q) \in Nat
    BY <1>1
  <2> QED
    BY ONLY <2>1, Interval
<1>4. ExistsBijection(1 .. Len(q), Range(q))
  BY <1>2 DEF ExistsBijection
<1> QED
  BY <1>3, <1>4, FS_Bijection

(* Two sets with nothing in common are counted apart. *)
LEMMA CountedApart ==
    ASSUME NEW S, NEW T, IsFiniteSet(S), IsFiniteSet(T), S \cap T = {}
    PROVE  IsFiniteSet(S \cup T) /\ Cardinality(S \cup T) = Cardinality(S) + Cardinality(T)
<1>1. /\ IsFiniteSet(S \cup T)
      /\ Cardinality(S \cup T) = Cardinality(S) + Cardinality(T) - Cardinality({})
  BY FS_Union
<1>2. Cardinality({}) = 0 /\ Cardinality(S) \in Nat /\ Cardinality(T) \in Nat
  BY FS_EmptySet, FS_CardinalityType
<1> QED
  BY <1>1, <1>2

(* A set that holds 0, and i + 1 with each i below n, holds all the numbers up to n. *)
LEMMA UpTo ==
    ASSUME NEW n \in Nat, NEW S, 0 \in S, \A i \in 0 .. n - 1 : i \in S => i + 1 \in S
    PROVE  0 .. n \subseteq S
<1> DEFINE T == (0 .. n) \ S
<1> SUFFICES ASSUME T # {} PROVE FALSE
  OBVIOUS
<1>1. IsFiniteSet(T) /\ T \subseteq Int
  <2>1. IsFiniteSet(0 .. n)
    BY FS_Interval, 0 \in Int, n \in Int
  <2>2. T \subseteq 0 .. n
    OBVIOUS
  <2>3. 0 .. n \subseteq Int
    OBVIOUS
  <2> HIDE DEF T
  <2>4. IsFiniteSet(T)
    BY <2>1, <2>2, FS_Subset
  <2> QED
    BY <2>2, <2>3, <2>4
<1>2. PICK m \in T : \A k \in T : m <= k
  BY <1>1, Least
<1>3. m \in 1 .. n
  BY <1>2
<1>4. m - 1 \in 0 .. n - 1 /\ m - 1 \notin T
  BY <1>2, <1>3
<1> QED
  BY <1>2, <1>3, <1>4

(* f[k] is what g, a sequence of functions, makes of b in k steps. *)
Iterated(f, g, b, n) == f[0] = b /\ \A k \in 1 .. n : f[k] = g[k][f[k - 1]]

(* There is such an f. *)
LEMMA Iterates ==
    ASSUME NEW n \in Nat, NEW B, NEW b \in B, NEW g \in [1 .. n -> [B -> B]]
    PROVE  \E f \in [0 .. n -> B] : Iterated(f, g, b, n)
<1> DEFINE S == {m \in 0 .. n : \E f \in [0 .. m -> B] : Iterated(f, g, b, m)}
<1>1. 0 \in S
  <2> DEFINE h == [k \in 0 .. 0 |-> b]
  <2>1. 0 \in 0 .. 0 /\ 0 \in 0 .. n /\ \A k \in 1 .. 0 : FALSE
    OBVIOUS
  <2>2. h \in [0 .. 0 -> B] /\ h[0] = b
    BY <2>1
  <2> HIDE DEF h
  <2> QED
    BY <2>1, <2>2 DEF Iterated
<1>2. \A m \in 0 .. n - 1 : m \in S => m + 1 \in S
  <2> SUFFICES ASSUME NEW m \in 0 .. n - 1, m \in S PROVE m + 1 \in S
    OBVIOUS
  <2>1. PICK f \in [0 .. m -> B] : f[0] = b /\ \A k \in 1 .. m : f[k] = g[k][f[k - 1]]
    BY DEF Iterated
  <2> DEFINE h == [k \in 0 .. m + 1 |-> IF k = m + 1 THEN g[m + 1][f[m]] ELSE f[k]]
  <2>2. /\ m \in 0 .. m /\ m + 1 \in 1 .. n /\ m + 1 \in 0 .. m + 1 /\ 0 \in 0 .. m + 1
        /\ m + 1 # 0 /\ m + 1 \in 0 .. n /\ m + 1 - 1 = m
        /\ \A k \in 0 .. m + 1 : k # m + 1 => k \in 0 .. m
        /\ \A k \in 1 .. m : k \in 0 .. m + 1 /\ k - 1 \in 0 .. m + 1 /\ k # m + 1 /\ k - 1 # m + 1
        /\ \A k \in 1 .. m + 1 : k = m + 1 \/ k \in 1 .. m
    OBVIOUS
  <2>3. h \in [0 .. m + 1 -> B]
    BY <2>2
  <2>4. h[0] = b /\ h[m + 1] = g[m + 1][f[m]] /\ h[m] = f[m]
    BY <2>1, <2>2
  <2>5. \A k \in 1 .. m : h[k] = f[k] /\ h[k - 1] = f[k - 1]
    BY <2>2
  <2> HIDE DEF h
  <2>6. \A k \in 1 .. m + 1 : h[k] = g[k][h[k - 1]]
    <3> SUFFICES ASSUME NEW k \in 1 .. m + 1 PROVE h[k] = g[k][h[k - 1]]
      OBVIOUS
    <3>1. CASE k = m + 1
      BY <2>2, <2>4, <3>1
    <3>2. CASE k \in 1 .. m
      BY <2>1, <2>5, <3>2
    <3> QED
      BY <2>2, <3>1, <3>2
  <2>7. Iterated(h, g, b, m + 1)
    BY <2>4, <2>6 DEF Iterated
  <2> QED
    BY <2>2, <2>3, <2>7
<1>3. 0 .. n \subseteq S
  <2> HIDE DEF S
  <2> QED
    BY <1>1, <1>2, UpTo
<1>4. n \in S
  <2> HIDE DEF S
  <2> QED
    BY <1>3
<1> QED
  BY <1>4
=============================================================================
