---------------------------- MODULE KernelProofs ----------------------------
(***************************************************************************)
(* The kernel with memory behaves, on the scheduler's variables, as module *)
(* Sched says: whatever the frames and page tables decide, a call takes    *)
(* one of the outcomes that Sched allows.  The theorems of SchedProofs are *)
(* therefore theorems of the whole kernel.                                 *)
(*                                                                         *)
(* Then the memory, for every number of frames, pages and slots: what no   *)
(* program can spoil (KInv), and what holds for the programs that keep the *)
(* rules of DisciplinedCalls (DInv).                                       *)
(***************************************************************************)
EXTENDS Kernel, SchedProofs, FiniteSetTheorems

(* Every handler is a step of the scheduler, or leaves it alone (alloc and dealloc). *)
LEMMA StepOfSched == [KNext]_kvars => [Next]_vars
<1> SUFFICES ASSUME [KNext]_kvars PROVE [Next]_vars
  OBVIOUS
<1>1. CASE K_tick
  BY <1>1 DEF K_tick, Next
<1>2. CASE K_yield
  BY <1>2 DEF K_yield, Next
<1>3. CASE K_fork
  BY <1>3 DEF K_fork, ForkDone, Next, sys_fork
<1>4. CASE K_exit
  BY <1>4 DEF K_exit, Next, sys_exit
<1>5. CASE K_alloc \/ K_dealloc
  BY <1>5 DEF K_alloc, K_dealloc
<1>6. CASE K_createthread
  BY <1>6 DEF K_createthread, Next, sys_createthread
<1>7. CASE K_terminatethread
  BY <1>7 DEF K_terminatethread, Next, sys_terminatethread
<1>8. CASE K_sem
  BY <1>8 DEF K_sem, Next
<1>9. CASE K_wait_return
  BY <1>9 DEF K_wait_return, Next
<1>10. CASE K_page_fault
  BY <1>10 DEF K_page_fault, Next
<1>11. CASE UNCHANGED kvars
  BY <1>11 DEF kvars
<1> QED
  BY <1>1, <1>2, <1>3, <1>4, <1>5, <1>6, <1>7, <1>8, <1>9, <1>10, <1>11 DEF KNext

(* Processes, threads and memory implement the scheduler and its semaphores. *)
THEOREM KernelImplementsSched == KSpec => Spec
<1>1. KInit => Init
  BY DEF KInit
<1> QED
  BY <1>1, StepOfSched, PTL DEF KSpec, Spec

(* The semaphores of the whole kernel keep their promises too, whatever runs out of memory. *)
THEOREM KernelKeepsPromises ==
    ASSUME SemValuesFit
    PROVE  KSpec => ImplementsSemaphores
BY KernelImplementsSched, SemaphoresArePromised, PTL

(* In the whole kernel too, no task_struct is in two queues and none is lost, the counters
   agree with the queues, and a destroy reaches exactly the waits it interrupted. *)
THEOREM KernelKeepsQueues ==
    KSpec => [](OneQueue /\ NoTaskLost /\ CounterCountsWaiters /\ DestroyedIsPending
                  /\ WaitersKeepTheirStack /\ ListsSound)
<1>1. IInv => /\ OneQueue /\ NoTaskLost /\ CounterCountsWaiters /\ DestroyedIsPending
              /\ WaitersKeepTheirStack /\ ListsSound
  BY DEF IInv
<1> QED
  BY <1>1, KernelImplementsSched, Invariant, PTL

-----------------------------------------------------------------------------
(* Which frames alloc_frame returns *)

(* The frames of the pool are frames, and none is the kernel's. *)
LEMMA PoolFrames ==
    /\ Pool \subseteq Pages \ KernelPages
    /\ 0 \in KernelPages /\ KernelPages \subseteq Pages
    /\ IsFiniteSet(Pool)
    /\ Pages \subseteq Int /\ Pool \subseteq Int
<1>1. /\ NUM_PAG_KERNEL \in Nat \ {0} /\ TOTAL_PAGES \in Nat
      /\ TOTAL_PAGES >= NUM_PAG_KERNEL
  BY PagesAssumption
<1>2. Pool \subseteq NUM_PAG_KERNEL .. TOTAL_PAGES - 1
  BY DEF Pool
<1>3. IsFiniteSet(NUM_PAG_KERNEL .. TOTAL_PAGES - 1)
  BY <1>1, FS_Interval
<1>4. IsFiniteSet(Pool)
  BY <1>2, <1>3, FS_Subset
<1>5. /\ NUM_PAG_KERNEL .. TOTAL_PAGES - 1 \subseteq Pages \ KernelPages
      /\ 0 \in KernelPages /\ KernelPages \subseteq Pages /\ Pages \subseteq Int
  BY <1>1 DEF Pages, KernelPages
<1> QED
  BY <1>2, <1>4, <1>5

(* alloc_frame, called n times while there are n free frames, returns n different frames
   that were free. *)
LEMMA AllocFrames ==
    ASSUME NEW used, NEW n \in Nat, n <= Cardinality(FreeFrames(used))
    PROVE  /\ DOMAIN alloc_frames(used, n) = 0 .. n - 1
           /\ \A i \in 0 .. n - 1 : alloc_frames(used, n)[i] \in FreeFrames(used)
           /\ \A i, j \in 0 .. n - 1 :
                 alloc_frames(used, n)[i] = alloc_frames(used, n)[j] => i = j
           /\ Range(alloc_frames(used, n)) \subseteq FreeFrames(used)
           /\ \A i \in 0 .. n - 1 :
                 Cardinality({g \in FreeFrames(used) : g < alloc_frames(used, n)[i]}) = i
<1> DEFINE F == FreeFrames(used)
           Rank(f) == Cardinality({g \in F : g < f})
           a == alloc_frames(used, n)
<1>1. IsFiniteSet(F) /\ F \subseteq Int
  BY PoolFrames, FS_Subset DEF FreeFrames
<1>2. /\ Cardinality(F) \in Nat
      /\ \A i \in 0 .. Cardinality(F) - 1 : \E f \in F : Rank(f) = i
  BY <1>1, Positions
<1>3. a = [i \in 0 .. n - 1 |-> CHOOSE f \in F : Rank(f) = i]
  BY DEF alloc_frames
<1> HIDE DEF F, Rank, a
<1>4. \A i \in 0 .. n - 1 : a[i] \in F /\ Rank(a[i]) = i
  <2> TAKE i \in 0 .. n - 1
  <2>1. i \in 0 .. Cardinality(F) - 1
    BY <1>2 DEF F
  <2>2. \E f \in F : Rank(f) = i
    BY <1>2, <2>1
  <2> QED
    BY <1>3, <2>2
<1>5. DOMAIN a = 0 .. n - 1
  BY <1>3
<1>6. \A i, j \in 0 .. n - 1 : a[i] = a[j] => i = j
  BY <1>4
<1>7. Range(a) \subseteq F
  BY <1>4, <1>5 DEF Range
<1> QED
  BY <1>4, <1>5, <1>6, <1>7 DEF F, a, Rank

(* One more frame. *)
LEMMA AllocFrame ==
    ASSUME CanAlloc(1)
    PROVE  alloc_frame \in FreeFrames(phys_mem)
<1>1. \A i \in 0 .. 1 - 1 : alloc_frames(phys_mem, 1)[i] \in FreeFrames(phys_mem)
  <2>1. Cardinality(FreeFrames(phys_mem)) \in Nat
    BY PoolFrames, FS_Subset, FS_CardinalityType DEF FreeFrames
  <2> QED
    BY <2>1, AllocFrames DEF CanAlloc
<1> QED
  BY <1>1 DEF alloc_frame

(* The page alloc_k takes is unused. *)
LEMMA TheFirstUnused ==
    ASSUME Unused # {}
    PROVE  FirstUnused \in Unused
<1>1. Unused \subseteq Nat /\ Unused \subseteq Int /\ IsFiniteSet(Unused)
  <2>1. Unused \subseteq Pages
    BY PagesAssumption
    DEF Unused, AllocPages, FIRST_ALLOC, PAG_LOG_INIT_DATA, Pages
  <2>2. IsFiniteSet(Pages) /\ Pages \subseteq Nat
    BY FS_Interval, PagesAssumption DEF Pages
  <2>3. IsFiniteSet(Unused)
    BY <2>1, <2>2, FS_Subset
  <2>4. Unused \subseteq Nat
    BY <2>1, <2>2
  <2> QED
    BY <2>3, <2>4
<1>2. \E p \in Unused : \A q \in Unused : p <= q
  BY <1>1, Least
<1> QED
  BY <1>2 DEF FirstUnused

-----------------------------------------------------------------------------
(* The parts of an address space *)

(* Kernel, code, data and the pages of alloc are four disjoint parts of the address space,
   and fork's temporary pages are in the last one. *)
LEMMA AddressSpace ==
    /\ KernelPages \cup CodePages \cup PrivatePages = Pages
    /\ KernelPages \cap CodePages = {} /\ KernelPages \cap PrivatePages = {}
    /\ CodePages \cap PrivatePages = {} /\ DataPages \cap AllocPages = {}
    /\ TempPages \subseteq AllocPages /\ FIRST_ALLOC \in AllocPages
    /\ FIRST_ALLOC - 1 \in DataPages /\ 0 \in KernelPages /\ 0 \in Pages
    /\ \A p \in CodePages \cup DataPages :
          p - PAG_LOG_INIT_CODE \in 0 .. NUM_PAG_CODE + NUM_PAG_DATA - 1
    /\ \A p \in DataPages : p - PAG_LOG_INIT_DATA \in 0 .. NUM_PAG_DATA - 1
    /\ \A p, q \in CodePages \cup DataPages : p - PAG_LOG_INIT_CODE = q - PAG_LOG_INIT_CODE => p = q
    /\ \A p, q \in DataPages : p - PAG_LOG_INIT_DATA = q - PAG_LOG_INIT_DATA => p = q
<1> DEFINE K == NUM_PAG_KERNEL  C == NUM_PAG_CODE  D == NUM_PAG_DATA  N == TOTAL_PAGES
<1>1. /\ K \in Nat \ {0} /\ C \in Nat \ {0} /\ D \in Nat \ {0} /\ N \in Nat
      /\ N >= K + C + 2 * D
  BY PagesAssumption
<1>2. /\ Pages = 0 .. N - 1 /\ KernelPages = 0 .. K - 1 /\ CodePages = K .. K + C - 1
      /\ DataPages = K + C .. K + C + D - 1 /\ AllocPages = K + C + D .. N - 1
      /\ FIRST_ALLOC = K + C + D
      /\ PAG_LOG_INIT_CODE = K /\ PAG_LOG_INIT_DATA = K + C
  BY <1>1 DEF Pages, KernelPages, CodePages, DataPages, AllocPages, FIRST_ALLOC,
              PAG_LOG_INIT_DATA, PAG_LOG_INIT_CODE
<1>3. TempPages = {p + D : p \in DataPages}
  BY DEF TempPages
<1> HIDE DEF K, C, D, N
<1>4. TempPages \subseteq AllocPages
  BY <1>1, <1>2, <1>3
<1>5. KernelPages \cup CodePages \cup DataPages \cup AllocPages = Pages
  BY <1>1, <1>2
<1>6. /\ KernelPages \cap CodePages = {} /\ KernelPages \cap DataPages = {}
      /\ KernelPages \cap AllocPages = {} /\ CodePages \cap DataPages = {}
      /\ CodePages \cap AllocPages = {} /\ DataPages \cap AllocPages = {}
  BY <1>1, <1>2
<1>7. /\ FIRST_ALLOC \in AllocPages /\ FIRST_ALLOC - 1 \in DataPages
      /\ 0 \in KernelPages /\ 0 \in Pages
  BY <1>1, <1>2
<1>8. /\ \A p \in CodePages \cup DataPages : p - K \in 0 .. C + D - 1
      /\ \A p \in DataPages : p - (K + C) \in 0 .. D - 1
      /\ \A p, q \in CodePages \cup DataPages : p - K = q - K => p = q
      /\ \A p, q \in DataPages : p - (K + C) = q - (K + C) => p = q
  BY <1>1, <1>2
<1> QED
  BY <1>2, <1>4, <1>5, <1>6, <1>7, <1>8 DEF PrivatePages, C, D

(* Memory is big enough for init: init_frames gets different frames for code and data. *)
LEMMA InitialFrames ==
    /\ DOMAIN InitFrames = 0 .. NUM_PAG_CODE + NUM_PAG_DATA - 1
    /\ \A i \in 0 .. NUM_PAG_CODE + NUM_PAG_DATA - 1 : InitFrames[i] \in Pool
    /\ \A i, j \in 0 .. NUM_PAG_CODE + NUM_PAG_DATA - 1 : InitFrames[i] = InitFrames[j] => i = j
    /\ Range(InitFrames) \subseteq Pool
    /\ \A i \in 0 .. NUM_PAG_CODE + NUM_PAG_DATA - 1 :
          Cardinality({g \in Pool : g < InitFrames[i]}) = i
<1>0. PICK n : n = NUM_PAG_CODE + NUM_PAG_DATA
  OBVIOUS
<1> DEFINE fr == [i \in 0 .. n - 1 |-> NUM_PAG_KERNEL + 2 * i]
<1>1. n \in Nat /\ NUM_PAG_KERNEL \in Nat /\ TOTAL_PAGES \in Nat
      /\ TOTAL_PAGES >= NUM_PAG_KERNEL + 2 * n
  BY <1>0, PagesAssumption
<1>2. FreeFrames(KernelPages) = Pool
  BY PoolFrames DEF FreeFrames
<1>3. IsFiniteSet(Pool) /\ Cardinality(Pool) \in Nat
  BY PoolFrames, FS_CardinalityType
<1>4. n <= Cardinality(Pool)
  <2>1. \A i \in 0 .. n - 1 : NUM_PAG_KERNEL + 2 * i \in Pool
    <3> TAKE i \in 0 .. n - 1
    <3>1. NUM_PAG_KERNEL + 2 * i \in NUM_PAG_KERNEL .. TOTAL_PAGES - 1
      BY <1>1
    <3>2. ((NUM_PAG_KERNEL + 2 * i) - NUM_PAG_KERNEL) % 2 = 0
      BY <1>1
    <3> QED
      BY <3>1, <3>2 DEF Pool
  <2>2. \A i, j \in 0 .. n - 1 : fr[i] = fr[j] => i = j
    BY <1>1
  <2>3. fr \in Injection(0 .. n - 1, Pool)
    <3>1. fr \in [0 .. n - 1 -> Pool] /\ DOMAIN fr = 0 .. n - 1
      BY <2>1
    <3> HIDE DEF fr
    <3> QED
      BY <2>2, <3>1 DEF Injection, IsInjective
  <2>4. Cardinality(0 .. n - 1) = n
    BY <1>1, Interval
  <2> QED
    BY <1>3, <2>3, <2>4, FS_Injection
<1>5. InitFrames = alloc_frames(KernelPages, n)
  BY <1>0 DEF InitFrames
<1>6. n <= Cardinality(FreeFrames(KernelPages))
  BY <1>2, <1>4
<1>7. /\ DOMAIN InitFrames = 0 .. n - 1
      /\ \A i \in 0 .. n - 1 : InitFrames[i] \in Pool
      /\ \A i, j \in 0 .. n - 1 : InitFrames[i] = InitFrames[j] => i = j
      /\ Range(InitFrames) \subseteq Pool
      /\ \A i \in 0 .. n - 1 : Cardinality({g \in Pool : g < InitFrames[i]}) = i
  BY <1>1, <1>2, <1>5, <1>6, AllocFrames
<1>8. 0 .. n - 1 = 0 .. NUM_PAG_CODE + NUM_PAG_DATA - 1
  BY <1>0, PagesAssumption
<1> QED
  BY <1>7, <1>8, Zenon

-----------------------------------------------------------------------------
(* The inductive invariant of memory *)

Entries == [frame : Pages, present : BOOLEAN]
AddressSpaces == [Pages -> Entries]

(* phys_mem holds frames, and each slot has a table of entries and a directory pointer. *)
KTypeOK ==
    /\ phys_mem \subseteq Pages
    /\ PT \in [Tasks -> AddressSpaces]
    /\ dir \in [Tasks -> Tasks]
    /\ ustack \in [Tasks -> Pages]
    /\ PID \in [Tasks -> Int]
    /\ global_PID \in Nat

(* MappedIsUsed, NoFrameTwice and CodeIsKept, entry by entry. *)
UsedFrames ==
    \A d \in Tasks, p \in PrivatePages :
        PT[d][p].frame # 0 => PT[d][p].frame \in phys_mem \ KernelPages

FramesOnce ==
    \A d, e \in Tasks, p, q \in PrivatePages :
        PT[d][p].frame # 0 /\ PT[d][p].frame = PT[e][q].frame => d = e /\ p = q

CodeFrame(p) == InitFrames[p - PAG_LOG_INIT_CODE]
CodeTables ==
    \A t \in Tasks : Live(t) => \A p \in CodePages : PT[dir[t]][p] = Mapped(CodeFrame(p))
CodeFrames ==
    \A p \in CodePages :
        /\ CodeFrame(p) \in phys_mem
        /\ \A d \in Tasks, q \in PrivatePages : PT[d][q].frame # CodeFrame(p)

MemoryOK ==
    /\ KTypeOK
    /\ UsedFrames
    /\ Running => FramesOnce
    /\ CodeTables
    /\ CodeFrames

KInv == IInv /\ MemoryOK

LEMMA CodeFrameInPool == \A p \in CodePages : CodeFrame(p) \in Pool
BY AddressSpace, InitialFrames DEF CodeFrame

(* The three invariants that the runs check follow from it. *)
LEMMA KInvImplies == KInv => MappedIsUsed /\ NoFrameTwice /\ CodeIsKept
<1> SUFFICES ASSUME KInv PROVE MappedIsUsed /\ NoFrameTwice /\ CodeIsKept
  OBVIOUS
<1> USE DEF KInv, MemoryOK
<1>1. \A m \in PrivateMaps : /\ m[1] \in Tasks /\ m[2] \in PrivatePages /\ m = <<m[1], m[2]>>
                             /\ PT[m[1]][m[2]].frame # 0
  BY DEF PrivateMaps, get_frame
<1>2. MappedIsUsed
  BY <1>1 DEF UsedFrames, MappedIsUsed, get_frame
<1>3. NoFrameTwice
  BY <1>1 DEF FramesOnce, NoFrameTwice, get_frame
<1>4. CodeIsKept
  <2>1. \A t \in Tasks : Live(t) =>
            \A p \in CodePages : PT[dir[t]][p] = Mapped(InitFrames[p - PAG_LOG_INIT_CODE])
    BY DEF CodeTables, CodeFrame
  <2>2. ASSUME NEW p \in CodePages
        PROVE  /\ InitFrames[p - PAG_LOG_INIT_CODE] \in phys_mem
               /\ \A m \in PrivateMaps :
                     get_frame(m[1], m[2]) # InitFrames[p - PAG_LOG_INIT_CODE]
    BY <1>1 DEF CodeFrames, CodeFrame, get_frame
  <2> QED
    BY <2>1, <2>2 DEF CodeIsKept
<1> QED
  BY <1>2, <1>3, <1>4

-----------------------------------------------------------------------------
(* Who is live *)

(* The caller of a system call is a live task. *)
LEMMA CallerIsLive ==
    ASSUME IInv, CanCall
    PROVE  Running /\ current \in Tasks /\ Live(current)
BY DEF IInv, TypeOK, OneQueue, CanCall, InUserMode, Live, Running

(* Taking a slot brings one task to life. *)
LEMMA TakesSlot ==
    ASSUME IInv, CanCall, freequeue # <<>>, freequeue' = Tail(freequeue)
    PROVE  /\ Head(freequeue) \in Tasks \ {idle_task, current}
           /\ ~Live(Head(freequeue))
           /\ \A t \in Tasks : Live(t)' <=> Live(t) \/ t = Head(freequeue)
<1> DEFINE u == Head(freequeue)
<1>1. freequeue \in Seq(Tasks) /\ IsInjective(freequeue) /\ ~Free(idle_task)
  BY DEF IInv, TypeOK, OneQueue, IdleAvailable
<1>2. /\ u \in Tasks /\ u \in Range(freequeue)
      /\ Range(Tail(freequeue)) \subseteq Range(freequeue)
      /\ Range(freequeue) \subseteq Range(Tail(freequeue)) \cup {u}
      /\ u \notin Range(Tail(freequeue))
  BY <1>1, DelFirst
<1>3. ~Free(current)
  BY CallerIsLive DEF Live
<1> QED
  BY <1>1, <1>2, <1>3 DEF Free, Live

(* A slot that goes to the other end of the free queue stays free. *)
LEMMA KeepsSlot ==
    ASSUME IInv, freequeue # <<>>, freequeue' = Append(Tail(freequeue), Head(freequeue))
    PROVE  \A t \in Tasks : Live(t)' <=> Live(t)
<1>1. freequeue \in Seq(Tasks)
  BY DEF IInv, TypeOK
<1>2. /\ Head(freequeue) \in Range(freequeue) /\ Head(freequeue) \in Tasks
      /\ Tail(freequeue) \in Seq(Tasks)
      /\ Range(Tail(freequeue)) \subseteq Range(freequeue)
      /\ Range(freequeue) \subseteq Range(Tail(freequeue)) \cup {Head(freequeue)}
  BY <1>1, DelFirst
<1>3. \A q \in Seq(Tasks), e \in Tasks : Range(Append(q, e)) = Range(q) \cup {e}
  BY AddTail
<1>4. Range(freequeue') = Range(Tail(freequeue)) \cup {Head(freequeue)}
  BY <1>2, <1>3, Zenon
<1>5. Range(freequeue') = Range(freequeue)
  BY <1>2, <1>4
<1> QED
  BY <1>5 DEF Free, Live

(* exit and terminatethread end the life of the caller and of no other task. *)
LEMMA LeavesSlot ==
    ASSUME IInv, CanCall, freequeue' = Append(freequeue, current)
    PROVE  \A t \in Tasks : Live(t)' <=> Live(t) /\ t # current
<1>1. freequeue \in Seq(Tasks) /\ current \in Tasks
  BY DEF IInv, TypeOK
<1>2. Range(freequeue') = Range(freequeue) \cup {current}
  BY <1>1, AddTail
<1> QED
  BY <1>2 DEF Free, Live

-----------------------------------------------------------------------------
(* What a step does to the frames behind private pages: an entry is deleted, or stays with
   its frame still used, or gets a fresh frame.  Then every mapped frame is used and is not
   a frame of the code; and no frame is mapped twice if no fresh one is. *)
LEMMA FramesStep ==
    ASSUME KInv, NEW fresh,
           fresh \cap (phys_mem \cup KernelPages) = {},
           fresh \subseteq phys_mem',
           \A p \in CodePages : CodeFrame(p) \in phys_mem',
           \A d \in Tasks, p \in PrivatePages :
              \/ PT'[d][p].frame = 0
              \/ PT'[d][p] = PT[d][p] /\ PT[d][p].frame \in phys_mem'
              \/ PT'[d][p].frame \in fresh
    PROVE  /\ UsedFrames'
           /\ CodeFrames'
           /\ Running /\ (\A d, e \in Tasks, p, q \in PrivatePages :
                             PT'[d][p].frame = PT'[e][q].frame /\ PT'[d][p].frame \in fresh
                             => d = e /\ p = q)
              => FramesOnce'
<1>1. UsedFrames'
  <2> SUFFICES ASSUME NEW d \in Tasks, NEW p \in PrivatePages, PT'[d][p].frame # 0
               PROVE  PT'[d][p].frame \in phys_mem' \ KernelPages
    BY DEF UsedFrames
  <2> QED
    BY DEF KInv, MemoryOK, UsedFrames
<1>2. CodeFrames'
  <2> SUFFICES ASSUME NEW p \in CodePages, NEW d \in Tasks, NEW q \in PrivatePages
               PROVE  PT'[d][q].frame # CodeFrame(p)
    BY DEF CodeFrames, CodeFrame
  <2>1. /\ CodeFrame(p) \in phys_mem /\ CodeFrame(p) # 0
        /\ PT[d][q].frame # CodeFrame(p)
    BY CodeFrameInPool, PoolFrames DEF KInv, MemoryOK, CodeFrames
  <2> QED
    BY <2>1
<1>3. ASSUME Running,
             \A d, e \in Tasks, p, q \in PrivatePages :
                 PT'[d][p].frame = PT'[e][q].frame /\ PT'[d][p].frame \in fresh
                 => d = e /\ p = q
      PROVE  FramesOnce'
  <2> SUFFICES ASSUME NEW d \in Tasks, NEW e \in Tasks,
                      NEW p \in PrivatePages, NEW q \in PrivatePages,
                      PT'[d][p].frame # 0, PT'[d][p].frame = PT'[e][q].frame
               PROVE  d = e /\ p = q
    BY DEF FramesOnce
  <2>1. /\ \A x, y \in Tasks, v, w \in PrivatePages :
              PT[x][v].frame # 0 /\ PT[x][v].frame = PT[y][w].frame => x = y /\ v = w
        /\ \A x \in Tasks, v \in PrivatePages :
              PT[x][v].frame # 0 => PT[x][v].frame \in phys_mem
    BY <1>3 DEF KInv, MemoryOK, FramesOnce, UsedFrames
  <2>2. CASE PT'[d][p].frame \in fresh
    BY <1>3, <2>2
  <2>3. CASE PT'[d][p].frame \notin fresh
    BY <2>1, <2>3
  <2> QED
    BY <2>2, <2>3
<1> QED
  BY <1>1, <1>2, <1>3

(* Every task that a step leaves or makes live runs on a table whose code pages are those of
   a table that a live task had. *)
LEMMA CodeStep ==
    ASSUME KInv,
           \A t \in Tasks : Live(t)' =>
              \E u \in Tasks : /\ Live(u)
                               /\ \A p \in CodePages :
                                     \/ PT'[dir'[t]][p] = PT[dir[u]][p]
                                     \/ PT'[dir'[t]][p] = Mapped(PT[dir[u]][p].frame)
    PROVE  CodeTables'
<1> SUFFICES ASSUME NEW t \in Tasks, Live(t)', NEW p \in CodePages
             PROVE  PT'[dir'[t]][p] = Mapped(CodeFrame(p))
  BY DEF CodeTables, CodeFrame
<1>1. PICK u \in Tasks : /\ Live(u)
                         /\ \/ PT'[dir'[t]][p] = PT[dir[u]][p]
                            \/ PT'[dir'[t]][p] = Mapped(PT[dir[u]][p].frame)
  OBVIOUS
<1>2. PT[dir[u]][p] = Mapped(CodeFrame(p))
  BY <1>1 DEF KInv, MemoryOK, CodeTables
<1> QED
  BY <1>1, <1>2 DEF Mapped

(* The table fork gives to a child. *)
LEMMA ChildsTable ==
    ASSUME KTypeOK, NEW u \in Tasks, mydir \in Tasks,
           NEW new, \A i \in 0 .. NUM_PAG_DATA - 1 : new[i] \in Pages
    PROVE  /\ ChildTable(u, new) \in AddressSpaces
           /\ \A p \in DataPages : ChildTable(u, new)[p] = Mapped(new[p - PAG_LOG_INIT_DATA])
           /\ \A p \in KernelPages \cup CodePages :
                 ChildTable(u, new)[p] = Mapped(PT[mydir][p].frame)
           /\ \A p \in AllocPages : ChildTable(u, new)[p] = PT[u][p]
<1> DEFINE T == ChildTable(u, new)
<1>1. \A p \in Pages :
         T[p] = CASE p \in DataPages -> Mapped(new[p - PAG_LOG_INIT_DATA])
                  [] p \in KernelPages \cup CodePages -> Mapped(PT[mydir][p].frame)
                  [] OTHER -> PT[u][p]
  BY DEF ChildTable, get_frame
<1>2. DOMAIN T = Pages /\ T = [p \in Pages |-> T[p]]
  BY DEF ChildTable
<1> HIDE DEF T
<1>3. /\ \A p \in DataPages : T[p] = Mapped(new[p - PAG_LOG_INIT_DATA])
      /\ \A p \in KernelPages \cup CodePages : T[p] = Mapped(PT[mydir][p].frame)
      /\ \A p \in AllocPages : T[p] = PT[u][p]
  BY <1>1, AddressSpace DEF PrivatePages
<1>4. \A f \in Pages : Mapped(f) \in Entries
  BY DEF Mapped, Entries
<1>5. \A p \in Pages : PT[u][p] \in Entries /\ PT[mydir][p].frame \in Pages
  BY DEF KTypeOK, AddressSpaces, Entries
<1>6. \A p \in Pages : T[p] \in Entries
  BY <1>3, <1>4, <1>5, AddressSpace DEF PrivatePages
<1> QED
  BY <1>2, <1>3, <1>6 DEF T, AddressSpaces

-----------------------------------------------------------------------------
(* The handlers *)

(* fork with frames for the child, also when the kernel then faults. *)
LEMMA ForkDoneStep ==
    ASSUME KInv, CanCall, freequeue # <<>>, CanAlloc(NUM_PAG_DATA), ForkDone(Head(freequeue))
    PROVE  MemoryOK'
<1> DEFINE u == Head(freequeue)
           new == alloc_frames(phys_mem, NUM_PAG_DATA)
           PT1 == [PT EXCEPT ![u] = ChildTable(u, new)]
           fresh == Range(new)
<1>1. /\ KTypeOK /\ IInv /\ Running /\ current \in Tasks /\ Live(current) /\ mydir \in Tasks
  BY CallerIsLive DEF KInv, MemoryOK, KTypeOK, mydir
<1>2. freequeue' = Tail(freequeue)
  BY DEF ForkDone, StartChild, NewTaskFaults
<1>3. /\ u \in Tasks /\ u # current
      /\ \A t \in Tasks : Live(t)' => Live(t) \/ t = u
  BY <1>1, <1>2, TakesSlot
<1>4. /\ \A i \in 0 .. NUM_PAG_DATA - 1 : new[i] \in FreeFrames(phys_mem)
      /\ \A i, j \in 0 .. NUM_PAG_DATA - 1 : new[i] = new[j] => i = j
      /\ \A i \in 0 .. NUM_PAG_DATA - 1 : new[i] \in fresh
      /\ fresh \subseteq FreeFrames(phys_mem) /\ 0 \in 0 .. NUM_PAG_DATA - 1
  BY AllocFrames, PagesAssumption DEF CanAlloc, Range
<1>5. /\ fresh \cap (phys_mem \cup KernelPages) = {} /\ fresh \subseteq Pages
      /\ \A i \in 0 .. NUM_PAG_DATA - 1 : new[i] \in Pages
  BY <1>4, PoolFrames DEF FreeFrames
<1>6. /\ ChildTable(u, new) \in AddressSpaces
      /\ \A p \in DataPages : ChildTable(u, new)[p] = Mapped(new[p - PAG_LOG_INIT_DATA])
      /\ \A p \in KernelPages \cup CodePages :
            ChildTable(u, new)[p] = Mapped(PT[mydir][p].frame)
      /\ \A p \in AllocPages : ChildTable(u, new)[p] = PT[u][p]
  BY <1>1, <1>3, <1>5, ChildsTable
<1>7. /\ phys_mem' = phys_mem \cup fresh
      /\ dir' = [dir EXCEPT ![u] = u]
      /\ \/ /\ UNCHANGED fault
            /\ PT' = [PT1 EXCEPT ![mydir] =
                         [p \in Pages |-> IF p \in TempPages THEN Empty ELSE PT1[mydir][p]]]
         \/ /\ fault' = "page"
            /\ PT' = [PT1 EXCEPT ![mydir][FIRST_ALLOC] = Mapped(new[0])]
  BY DEF ForkDone, StartChild, NewTaskFaults, CopyIds
<1>8. /\ PID' \in [Tasks -> Int] /\ ustack' \in [Tasks -> Pages]
      /\ global_PID' \in Nat
  <2>1. /\ PID \in [Tasks -> Int] /\ ustack \in [Tasks -> Pages]
        /\ global_PID \in Nat
    BY <1>1 DEF KTypeOK
  <2>2. \/ /\ global_PID' = global_PID + 1 /\ PID' = [PID EXCEPT ![u] = global_PID + 1]
           /\ ustack' = [ustack EXCEPT ![u] = ustack[current]]
        \/ /\ global_PID' = global_PID /\ PID' = [PID EXCEPT ![u] = PID[current]]
           /\ ustack' = [ustack EXCEPT ![u] = ustack[current]]
    BY DEF ForkDone, CopyIds
  <2> QED
    BY <1>1, <1>3, <2>1, <2>2
<1> HIDE DEF u, new, fresh
<1>9. /\ PT1 \in [Tasks -> AddressSpaces]
      /\ PT1[u] = ChildTable(u, new)
      /\ \A d \in Tasks \ {u} : PT1[d] = PT[d]
  BY <1>1, <1>3, <1>6 DEF KTypeOK
<1> HIDE DEF PT1
<1>10. Empty \in Entries /\ \A f \in Pages : Mapped(f) \in Entries /\ Mapped(f).frame = f
  BY AddressSpace DEF Empty, Mapped, Entries
<1>11. PT' \in [Tasks -> AddressSpaces]
  <2>1. \A T \in AddressSpaces : [p \in Pages |-> IF p \in TempPages THEN Empty ELSE T[p]]
                                   \in AddressSpaces
    BY <1>10 DEF AddressSpaces
  <2>2. Mapped(new[0]) \in Entries /\ PT1[mydir] \in AddressSpaces
    BY <1>1, <1>4, <1>5, <1>9, <1>10
  <2>3. [PT1[mydir] EXCEPT ![FIRST_ALLOC] = Mapped(new[0])] \in AddressSpaces
    BY <2>2 DEF AddressSpaces
  <2>4. PT1[mydir] \in AddressSpaces => DOMAIN PT1[mydir] = Pages
    BY DEF AddressSpaces
  <2> QED
    BY <1>1, <1>7, <1>9, <2>1, <2>2, <2>3
<1>12. KTypeOK'
  <2>1. phys_mem' \subseteq Pages /\ dir' \in [Tasks -> Tasks]
    BY <1>1, <1>3, <1>5, <1>7 DEF KTypeOK
  <2> QED
    BY <1>8, <1>11, <2>1 DEF KTypeOK
<1>13. \A d \in Tasks, p \in Pages :
          \/ PT'[d][p] = PT1[d][p]
          \/ p \in TempPages /\ PT'[d][p] = Empty
          \/ fault' = "page" /\ p = FIRST_ALLOC /\ PT'[d][p] = Mapped(new[0])
  BY <1>1, <1>7, <1>9, AddressSpace DEF AddressSpaces
<1>14. Empty.frame = 0
  BY DEF Empty
<1>15. \A d \in Tasks, p \in PrivatePages :
          \/ PT'[d][p].frame = 0
          \/ PT'[d][p] = PT[d][p] /\ d # u
          \/ PT'[d][p] = PT[d][p] /\ p \in AllocPages
          \/ p \in DataPages /\ d = u /\ PT'[d][p].frame = new[p - PAG_LOG_INIT_DATA]
          \/ fault' = "page" /\ PT'[d][p].frame = new[0]
  <2> TAKE d \in Tasks, p \in PrivatePages
  <2>1. p \in Pages /\ (p \in DataPages \/ p \in AllocPages)
    BY AddressSpace DEF PrivatePages
  <2>2. p \in DataPages => p - PAG_LOG_INIT_DATA \in 0 .. NUM_PAG_DATA - 1
    BY AddressSpace
  <2> QED
    BY <1>4, <1>5, <1>6, <1>9, <1>10, <1>13, <1>14, <2>1, <2>2
<1>16. \A p \in DataPages : p - PAG_LOG_INIT_DATA \in 0 .. NUM_PAG_DATA - 1
  BY AddressSpace
<1>17. \A d \in Tasks, p \in PrivatePages : PT[d][p].frame # 0 => PT[d][p].frame \in phys_mem'
  BY <1>7 DEF KInv, MemoryOK, UsedFrames
<1>18. UsedFrames' /\ CodeFrames' /\ (Running' => FramesOnce')
  <2>1. \A p \in CodePages : CodeFrame(p) \in phys_mem'
    BY <1>7 DEF KInv, MemoryOK, CodeFrames
  <2>2. \A d \in Tasks, p \in PrivatePages :
           \/ PT'[d][p].frame = 0
           \/ PT'[d][p] = PT[d][p] /\ PT[d][p].frame \in phys_mem'
           \/ PT'[d][p].frame \in fresh
    BY <1>4, <1>15, <1>16, <1>17
  <2>3. ASSUME Running'
        PROVE  \A d, e \in Tasks, p, q \in PrivatePages :
                  PT'[d][p].frame = PT'[e][q].frame /\ PT'[d][p].frame \in fresh
                  => d = e /\ p = q
    <3>1. \A d \in Tasks, p \in PrivatePages :
             PT'[d][p].frame \in fresh =>
                d = u /\ p \in DataPages /\ PT'[d][p].frame = new[p - PAG_LOG_INIT_DATA]
      <4>1. \A d \in Tasks, p \in PrivatePages : PT[d][p].frame \notin fresh
        BY <1>5, AddressSpace DEF KInv, MemoryOK, UsedFrames
      <4>2. fault' # "page" /\ 0 \notin fresh
        BY <1>5, <2>3, AddressSpace DEF Running
      <4> QED
        BY <1>15, <4>1, <4>2
    <3> QED
      BY <1>4, <1>16, <3>1, AddressSpace
  <2> HIDE DEF KInv
  <2> QED
    BY <1>1, <1>5, <1>7, <2>1, <2>2, <2>3, FramesStep
<1>19. CodeTables'
  <2> SUFFICES ASSUME NEW t \in Tasks, Live(t)'
               PROVE  \E v \in Tasks : /\ Live(v)
                                       /\ \A p \in CodePages :
                                             \/ PT'[dir'[t]][p] = PT[dir[v]][p]
                                             \/ PT'[dir'[t]][p] = Mapped(PT[dir[v]][p].frame)
    BY CodeStep
  <2>1. /\ \A p \in CodePages : p \in Pages /\ p \notin TempPages /\ p # FIRST_ALLOC
        /\ \A p \in CodePages : p \in KernelPages \cup CodePages
    BY AddressSpace DEF PrivatePages
  <2>2. \A d \in Tasks, p \in CodePages : PT'[d][p] = PT1[d][p]
    BY <1>13, <2>1
  <2>3. CASE dir'[t] = u
    <3>1. \A p \in CodePages : PT'[dir'[t]][p] = Mapped(PT[dir[current]][p].frame)
      BY <1>3, <1>6, <1>9, <2>1, <2>2, <2>3 DEF mydir
    <3> QED
      BY <1>1, <3>1
  <2>4. CASE dir'[t] # u
    <3>1. t # u /\ dir'[t] = dir[t] /\ dir[t] \in Tasks /\ Live(t)
      BY <1>1, <1>3, <1>7, <2>4 DEF KTypeOK
    <3>2. \A p \in CodePages : PT'[dir'[t]][p] = PT[dir[t]][p]
      BY <1>9, <2>2, <2>4, <3>1
    <3> QED
      BY <3>1, <3>2
  <2> QED
    BY <2>3, <2>4
<1> QED
  BY <1>12, <1>18, <1>19 DEF MemoryOK

(* What exit, dealloc, terminatethread and a failed fork do to memory: entries of private
   pages are deleted, and the frames behind them are freed, or were never used. *)
TablesOK == /\ PT \in [Tasks -> AddressSpaces] /\ phys_mem \subseteq Pages
            /\ UsedFrames /\ FramesOnce /\ CodeFrames
SameCode == \A d \in Tasks, p \in CodePages : PT'[d][p] = PT[d][p]

LEMMA UnmapStep ==
    ASSUME KInv, Running, NEW d \in Tasks, NEW P \in SUBSET PrivatePages,
           PT' = [PT EXCEPT ![d] = [p \in Pages |-> IF p \in P THEN Empty ELSE PT[d][p]]],
           \/ phys_mem' = phys_mem
           \/ phys_mem' = phys_mem \ Freed({get_frame(d, p) : p \in P})
    PROVE  TablesOK' /\ SameCode
<1>1. KTypeOK /\ PT \in [Tasks -> AddressSpaces] /\ phys_mem \subseteq Pages
  BY DEF KInv, MemoryOK, KTypeOK
<1>2. Empty \in Entries /\ Empty.frame = 0
  BY AddressSpace DEF Empty, Entries
<1>3. \A e \in Tasks, p \in Pages :
         PT'[e][p] = IF e = d /\ p \in P THEN Empty ELSE PT[e][p]
  BY <1>1
<1>4. PT' \in [Tasks -> AddressSpaces] /\ phys_mem' \subseteq Pages
  <2>1. [p \in Pages |-> IF p \in P THEN Empty ELSE PT[d][p]] \in AddressSpaces
    BY <1>1, <1>2 DEF AddressSpaces
  <2> QED
    BY <1>1, <2>1
<1>5. \A f \in phys_mem : f \notin phys_mem' => \E p \in P : f = PT[d][p].frame
  BY DEF Freed, get_frame
<1>6. /\ \A p \in P : p \in PrivatePages
      /\ \A p \in PrivatePages \cup CodePages : p \in Pages
      /\ \A p \in CodePages : p \notin P
  BY AddressSpace
<1>7. \A p \in CodePages : CodeFrame(p) \in phys_mem'
  BY <1>5, <1>6 DEF KInv, MemoryOK, CodeFrames
<1>8. \A e \in Tasks, p \in PrivatePages :
         \/ PT'[e][p].frame = 0
         \/ PT'[e][p] = PT[e][p] /\ PT[e][p].frame \in phys_mem'
  <2> SUFFICES ASSUME NEW e \in Tasks, NEW p \in PrivatePages, PT'[e][p].frame # 0
               PROVE  PT'[e][p] = PT[e][p] /\ PT[e][p].frame \in phys_mem'
    OBVIOUS
  <2>1. ~(e = d /\ p \in P) /\ PT'[e][p] = PT[e][p] /\ PT[e][p].frame # 0
    BY <1>2, <1>3, <1>6
  <2>2. PT[e][p].frame \in phys_mem
    BY <2>1 DEF KInv, MemoryOK, UsedFrames
  <2>3. \A q \in P : PT[e][p].frame # PT[d][q].frame
    BY <1>6, <2>1 DEF KInv, MemoryOK, FramesOnce
  <2> QED
    BY <1>5, <2>1, <2>2, <2>3
<1>9. UsedFrames' /\ CodeFrames' /\ FramesOnce'
  <2>1. {} \cap (phys_mem \cup KernelPages) = {} /\ {} \subseteq phys_mem'
    OBVIOUS
  <2> HIDE DEF KInv
  <2> QED
    BY <1>7, <1>8, <2>1, FramesStep
<1>10. SameCode
  BY <1>3, <1>6 DEF SameCode
<1> QED
  BY <1>4, <1>9, <1>10 DEF TablesOK

(* dealloc_k deletes the entry of one page. *)
LEMMA DeallocUnmaps ==
    ASSUME KTypeOK, mydir \in Tasks, NEW p \in AllocPages, dealloc_k(p)
    PROVE  /\ PT' = [PT EXCEPT ![mydir] =
                        [q \in Pages |-> IF q \in {p} THEN Empty ELSE PT[mydir][q]]]
           /\ phys_mem' = phys_mem \ Freed({get_frame(mydir, q) : q \in {p}})
           /\ {p} \in SUBSET PrivatePages
<1>1. \A q \in {p} : q \in Pages
  BY AddressSpace DEF PrivatePages
<1>2. PT[mydir] \in AddressSpaces
  BY DEF KTypeOK
<1>3. [PT[mydir] EXCEPT ![p] = Empty]
          = [q \in Pages |-> IF q \in {p} THEN Empty ELSE PT[mydir][q]]
  BY <1>1, <1>2 DEF AddressSpaces
<1>4. PT' = [PT EXCEPT ![mydir] = [q \in Pages |-> IF q \in {p} THEN Empty ELSE PT[mydir][q]]]
  BY <1>3 DEF dealloc_k
<1>5. {get_frame(mydir, q) : q \in {p}} = {get_frame(mydir, p)}
  OBVIOUS
<1>6. {p} \in SUBSET PrivatePages
  BY DEF PrivatePages
<1> QED
  BY <1>4, <1>5, <1>6 DEF dealloc_k

(* What alloc and createthread do: an unused page gets a free frame. *)
LEMMA MapStep ==
    ASSUME KInv, Running, mydir \in Tasks, CanAllocPage, alloc_k
    PROVE  TablesOK' /\ SameCode
<1> DEFINE f == alloc_frame  pg == FirstUnused  d == mydir
<1>1. KTypeOK /\ PT \in [Tasks -> AddressSpaces] /\ phys_mem \subseteq Pages
  BY DEF KInv, MemoryOK, KTypeOK
<1>2. f \in Pages /\ f \notin phys_mem \cup KernelPages
  BY AllocFrame, PoolFrames DEF CanAllocPage, FreeFrames
<1>3. pg \in AllocPages
  BY TheFirstUnused DEF CanAllocPage, Unused
<1>4. pg \in Pages /\ pg \in PrivatePages /\ pg \notin CodePages
  BY <1>3, AddressSpace DEF PrivatePages
<1>5. Mapped(f) \in Entries /\ Mapped(f).frame = f
  BY <1>2 DEF Mapped, Entries
<1>6. PT' = [PT EXCEPT ![d][pg] = Mapped(f)] /\ phys_mem' = phys_mem \cup {f} /\ d \in Tasks
  BY DEF alloc_k
<1> HIDE DEF f, pg, d
<1>7. \A e \in Tasks, p \in Pages :
         PT'[e][p] = IF e = d /\ p = pg THEN Mapped(f) ELSE PT[e][p]
  BY <1>1, <1>6 DEF AddressSpaces
<1>8. PT' \in [Tasks -> AddressSpaces] /\ phys_mem' \subseteq Pages
  <2>1. [PT[d] EXCEPT ![pg] = Mapped(f)] \in AddressSpaces
    BY <1>1, <1>5, <1>6 DEF AddressSpaces
  <2> QED
    BY <1>1, <1>2, <1>6, <2>1
<1>9. \A p \in PrivatePages \cup CodePages : p \in Pages
  BY AddressSpace
<1>10. \A p \in CodePages : CodeFrame(p) \in phys_mem'
  BY <1>6 DEF KInv, MemoryOK, CodeFrames
<1>11. \A e \in Tasks, p \in PrivatePages :
          \/ PT'[e][p].frame = 0
          \/ PT'[e][p] = PT[e][p] /\ PT[e][p].frame \in phys_mem'
          \/ e = d /\ p = pg /\ PT'[e][p].frame \in {f}
  BY <1>5, <1>6, <1>7, <1>9 DEF KInv, MemoryOK, UsedFrames
<1>12. \A e \in Tasks, p \in PrivatePages : PT'[e][p].frame \in {f} => e = d /\ p = pg
  <2>1. f # 0
    BY <1>2, AddressSpace
  <2>2. \A e \in Tasks, p \in PrivatePages : PT[e][p].frame # f
    BY <1>2, <2>1 DEF KInv, MemoryOK, UsedFrames
  <2> QED
    BY <1>11, <2>1, <2>2
<1>13. UsedFrames' /\ CodeFrames' /\ FramesOnce'
  <2>1. {f} \cap (phys_mem \cup KernelPages) = {} /\ {f} \subseteq phys_mem'
    BY <1>2, <1>6
  <2>2. \A e \in Tasks, p \in PrivatePages :
           \/ PT'[e][p].frame = 0
           \/ PT'[e][p] = PT[e][p] /\ PT[e][p].frame \in phys_mem'
           \/ PT'[e][p].frame \in {f}
    BY <1>11
  <2>3. \A e, c \in Tasks, p, q \in PrivatePages :
           PT'[e][p].frame = PT'[c][q].frame /\ PT'[e][p].frame \in {f} => e = c /\ p = q
    BY <1>12
  <2> HIDE DEF KInv
  <2> QED
    BY <1>10, <2>1, <2>2, <2>3, FramesStep
<1>14. SameCode
  BY <1>4, <1>7, <1>9 DEF SameCode
<1> QED
  BY <1>8, <1>13, <1>14 DEF TablesOK

(* A handler that leaves memory alone. *)
LEMMA SameTables ==
    ASSUME KInv, Running, UNCHANGED <<PT, phys_mem>>
    PROVE  TablesOK' /\ SameCode
BY DEF KInv, MemoryOK, KTypeOK, TablesOK, SameCode, UsedFrames, FramesOnce, CodeFrames,
       CodeFrame

(* init is the only process there is when the kernel starts. *)
LEMMA OnlyInitLives ==
    ASSUME KInit, NEW t \in Tasks
    PROVE  Live(t) <=> t = init_task
<1>1. freequeue = [i \in 1 .. NR_TASKS - 2 |-> i + 1] /\ NR_TASKS \in Nat /\ NR_TASKS >= 2
  BY SizesAssumption DEF KInit, Init
<1>2. CASE t \in {0, 1}
  <2>1. t \notin Range(freequeue)
    BY <1>1, <1>2 DEF Range
  <2> QED
    BY <1>2, <2>1 DEF Live, Free, idle_task, init_task
<1>3. CASE t \notin {0, 1}
  <2>1. t - 1 \in 1 .. NR_TASKS - 2 /\ (t - 1) + 1 = t
    BY <1>1, <1>3 DEF Tasks
  <2>2. t \in Range(freequeue)
    BY <1>1, <2>1 DEF Range
  <2> QED
    BY <1>3, <2>2 DEF Live, Free, init_task
<1> QED
  BY <1>2, <1>3

(* Memory is as MemoryOK says when init starts. *)
LEMMA InitMemory == KInit => KInv
<1> SUFFICES ASSUME KInit PROVE KInv
  OBVIOUS
<1>1. Init /\ IInv
  BY InitInv DEF KInit
<1>2. \A d \in Tasks, p \in Pages :
         PT[d][p] = IF d = init_task /\ p \in CodePages \cup DataPages
                    THEN Mapped(CodeFrame(p)) ELSE KernelTable[p]
  BY DEF KInit, CodeFrame
<1>3. /\ \A p \in CodePages \cup DataPages : CodeFrame(p) \in Pool /\ CodeFrame(p) \in Range(InitFrames)
      /\ \A p, q \in CodePages \cup DataPages : CodeFrame(p) = CodeFrame(q) => p = q
  <2>1. \A i \in 0 .. NUM_PAG_CODE + NUM_PAG_DATA - 1 :
           InitFrames[i] \in Pool /\ InitFrames[i] \in Range(InitFrames)
    BY InitialFrames DEF Range
  <2> QED
    BY <2>1, AddressSpace, InitialFrames DEF CodeFrame
<1>4. /\ Range(InitFrames) \subseteq Pool
      /\ phys_mem = KernelPages \cup Range(InitFrames) /\ phys_mem \subseteq Pages
  BY InitialFrames, PoolFrames DEF KInit
<1>5. /\ \A f \in Pages : Mapped(f) \in Entries /\ Mapped(f).frame = f
      /\ Empty \in Entries /\ Empty.frame = 0
  BY AddressSpace DEF Mapped, Empty, Entries
<1>6. /\ \A p \in Pages : KernelTable[p] \in Entries
      /\ \A p \in PrivatePages : KernelTable[p] = Empty
  <2>1. \A p \in Pages : KernelTable[p] =
            IF p \in KernelPages \ {0} THEN [frame |-> p, present |-> p \notin GuardPages] ELSE Empty
    BY DEF KernelTable
  <2>2. \A p \in Pages, b \in BOOLEAN : [frame |-> p, present |-> b] \in Entries
    BY DEF Entries
  <2>3. \A p \in Pages : KernelTable[p] \in Entries
    <3> TAKE p \in Pages
    <3>1. (p \notin GuardPages) \in BOOLEAN
      OBVIOUS
    <3> QED
      BY <1>5, <2>1, <2>2, <3>1
  <2>4. \A p \in PrivatePages : p \in Pages /\ p \notin KernelPages
    BY AddressSpace
  <2> QED
    BY <2>1, <2>3, <2>4
<1>7. /\ \A p \in PrivatePages \cup CodePages : p \in Pages
      /\ \A p \in PrivatePages : p \notin CodePages
      /\ \A p \in DataPages : p \in PrivatePages
  BY AddressSpace DEF PrivatePages
<1>8. KTypeOK
  <2>1. PT \in [Tasks -> AddressSpaces]
    <3>1. PT = [d \in Tasks |-> PT[d]]
      BY DEF KInit
    <3>2. \A d \in Tasks : PT[d] = [p \in Pages |-> PT[d][p]]
      BY DEF KInit, KernelTable
    <3>3. \A d \in Tasks, p \in Pages : PT[d][p] \in Entries
      <4> TAKE d \in Tasks, p \in Pages
      <4>1. CASE p \in CodePages \cup DataPages
        <5>1. CodeFrame(p) \in Pages
          BY <1>3, <4>1, PoolFrames
        <5> QED
          BY <1>2, <1>5, <1>6, <5>1
      <4>2. CASE p \notin CodePages \cup DataPages
        BY <1>2, <1>6, <4>2
      <4> QED
        BY <4>1, <4>2
    <3> QED
      BY <3>1, <3>2, <3>3 DEF AddressSpaces
  <2>2. dir \in [Tasks -> Tasks] /\ PID \in [Tasks -> Int] /\ global_PID \in Nat
    BY DEF KInit
  <2>3. ustack \in [Tasks -> Pages]
    BY <1>7, AddressSpace DEF KInit
  <2> QED
    BY <1>4, <2>1, <2>2, <2>3 DEF KTypeOK
<1>9. \A d \in Tasks, p \in PrivatePages :
         PT[d][p].frame # 0 => d = init_task /\ p \in DataPages /\ PT[d][p].frame = CodeFrame(p)
  BY <1>2, <1>3, <1>5, <1>6, <1>7, PoolFrames
<1>10. UsedFrames
  <2>1. \A p \in CodePages \cup DataPages : CodeFrame(p) \in phys_mem \ KernelPages
    BY <1>3, <1>4, PoolFrames
  <2> QED
    BY <1>9, <2>1 DEF UsedFrames
<1>11. FramesOnce
  BY <1>3, <1>9 DEF FramesOnce
<1>12. CodeFrames
  <2> SUFFICES ASSUME NEW p \in CodePages
               PROVE  /\ CodeFrame(p) \in phys_mem
                      /\ \A d \in Tasks, q \in PrivatePages : PT[d][q].frame # CodeFrame(p)
    BY DEF CodeFrames
  <2>1. CodeFrame(p) \in phys_mem
    BY <1>3, <1>4
  <2>2. CodeFrame(p) \in Pool /\ 0 \notin Pool
    BY <1>3, PoolFrames
  <2>3. \A r \in DataPages : CodeFrame(r) # CodeFrame(p)
    BY <1>3, <1>7
  <2> QED
    BY <1>9, <2>1, <2>2, <2>3
<1>13. CodeTables
  <2> SUFFICES ASSUME NEW t \in Tasks, Live(t), NEW p \in CodePages
               PROVE  PT[dir[t]][p] = Mapped(CodeFrame(p))
    BY DEF CodeTables
  <2>1. t = init_task
    BY OnlyInitLives
  <2>2. dir[t] = init_task
    BY <2>1 DEF KInit
  <2> QED
    BY <1>2, <1>7, <2>1, <2>2
<1> QED
  BY <1>1, <1>8, <1>10, <1>11, <1>12, <1>13 DEF KInv, MemoryOK

(* A handler that makes no table for a new space: each live task keeps its table, or shares
   that of a live one. *)
LEMMA HandlerStep ==
    ASSUME KInv, TablesOK', SameCode,
           dir' \in [Tasks -> Tasks], ustack' \in [Tasks -> Pages],
           PID' \in [Tasks -> Int], global_PID' \in Nat,
           \A t \in Tasks : Live(t)' => \E u \in Tasks : Live(u) /\ dir'[t] = dir[u]
    PROVE  MemoryOK'
<1>1. KTypeOK' /\ UsedFrames' /\ FramesOnce' /\ CodeFrames'
  BY DEF TablesOK, KTypeOK
<1>2. dir \in [Tasks -> Tasks]
  BY DEF KInv, MemoryOK, KTypeOK
<1>3. \A t \in Tasks : Live(t)' =>
         \E u \in Tasks : /\ Live(u)
                          /\ \A p \in CodePages :
                                \/ PT'[dir'[t]][p] = PT[dir[u]][p]
                                \/ PT'[dir'[t]][p] = Mapped(PT[dir[u]][p].frame)
  BY <1>2 DEF SameCode
<1>4. CodeTables'
  <2> HIDE DEF KInv
  <2> QED
    BY <1>3, CodeStep
<1> QED
  BY <1>1, <1>4 DEF MemoryOK

(* The steps that are the scheduler's alone. *)
LEMMA MemoryAlone ==
    ASSUME K_tick \/ K_yield \/ K_sem \/ K_wait_return \/ K_page_fault \/ UNCHANGED kvars
    PROVE  /\ PT' = PT /\ phys_mem' = phys_mem /\ dir' = dir /\ ustack' = ustack
           /\ PID' = PID /\ global_PID' = global_PID
           /\ \A t \in Tasks : Live(t)' <=> Live(t)
           /\ Running' => Running
<1>1. UNCHANGED mvars
  BY DEF K_tick, K_yield, K_sem, K_wait_return, K_page_fault, kvars
<1>2. UNCHANGED freequeue
  BY DEF K_tick, K_yield, K_sem, K_wait_return, K_page_fault, kvars, vars, ClockTick, sys_yield,
         SemCall, sys_sem_init, sys_sem_wait, sys_sem_signal, sys_sem_destroy, SemWaitReturn,
         page_fault
<1>3. Running' => Running
  BY DEF K_tick, K_yield, K_sem, K_wait_return, K_page_fault, kvars, vars, ClockTick, sys_yield,
         SemCall, SemWaitReturn, page_fault, CanCall, InUserMode, Running
<1> QED
  BY <1>1, <1>2, <1>3 DEF mvars, Live, Free

(* Every handler keeps memory as MemoryOK says. *)
LEMMA MemoryStep == KInv /\ [KNext]_kvars => MemoryOK'
<1> SUFFICES ASSUME KInv, [KNext]_kvars PROVE MemoryOK'
  OBVIOUS
<1>1. /\ IInv /\ KTypeOK
      /\ dir \in [Tasks -> Tasks] /\ ustack \in [Tasks -> Pages]
      /\ PID \in [Tasks -> Int] /\ global_PID \in Nat /\ current \in Tasks
  BY DEF KInv, MemoryOK, KTypeOK, IInv, TypeOK
<1>2. CanCall => Running /\ Live(current) /\ mydir \in Tasks
  BY <1>1, CallerIsLive DEF mydir
<1>3. DataPages \subseteq PrivatePages /\ AllocPages \subseteq PrivatePages
  BY DEF PrivatePages
<1>5. CASE K_tick \/ K_yield \/ K_sem \/ K_wait_return \/ K_page_fault \/ UNCHANGED kvars
  BY <1>5, MemoryAlone
  DEF KInv, MemoryOK, KTypeOK, UsedFrames, FramesOnce, CodeTables, CodeFrames, CodeFrame
<1>6. CASE K_fork
  <2>1. CanCall /\ freequeue # <<>>
    BY <1>6 DEF K_fork
  <2>2. CASE CanAlloc(NUM_PAG_DATA) /\ ForkDone(Head(freequeue))
    BY <2>1, <2>2, ForkDoneStep
  <2>3. CASE ForkNoFrame /\ ForkUndone(Head(freequeue))
    <3> DEFINE u == Head(freequeue)
               touched == {p \in DataPages :
                              p - PAG_LOG_INIT_DATA < Cardinality(FreeFrames(phys_mem))}
    <3>1. u \in Tasks /\ ~Live(u)
      <4>1. freequeue \in Seq(Tasks)
        BY <1>1 DEF IInv, TypeOK
      <4> QED
        BY <2>1, <4>1, DelFirst DEF Live, Free
    <3>2. \A t \in Tasks : Live(t)' => Live(t)
      BY <1>1, <2>1, <2>3, KeepsSlot DEF ForkNoFrame
    <3>3. /\ PT' = [PT EXCEPT ![u] = [p \in Pages |-> IF p \in touched THEN Empty ELSE PT[u][p]]]
          /\ phys_mem' = phys_mem /\ global_PID' = global_PID
          /\ dir' = [dir EXCEPT ![u] = u]
          /\ PID' = [PID EXCEPT ![u] = PID[current]]
          /\ ustack' = [ustack EXCEPT ![u] = ustack[current]]
      BY <2>3 DEF ForkUndone, CopyIds
    <3>4. touched \in SUBSET PrivatePages
      BY <1>3
    <3> HIDE DEF u, touched
    <3>5. TablesOK' /\ SameCode
      BY <1>2, <2>1, <3>1, <3>3, <3>4, UnmapStep
    <3>6. \A t \in Tasks : Live(t)' => Live(t) /\ dir'[t] = dir[t]
      BY <1>1, <3>1, <3>2, <3>3
    <3> QED
      BY <1>1, <3>1, <3>3, <3>5, <3>6, HandlerStep
  <2> QED
    BY <1>6, <2>2, <2>3 DEF K_fork
<1>7. CASE K_exit
  <2>1. /\ CanCall /\ freequeue' = Append(freequeue, current)
        /\ PT' = [PT EXCEPT ![mydir] =
                     [p \in Pages |-> IF p \in DataPages THEN Empty ELSE PT[mydir][p]]]
        /\ phys_mem' = phys_mem \ Freed({get_frame(mydir, p) : p \in DataPages})
        /\ PID' = [PID EXCEPT ![current] = -1]
        /\ UNCHANGED dir /\ UNCHANGED ustack /\ UNCHANGED global_PID
    BY <1>7 DEF K_exit, LeaveForGood
  <2>2. TablesOK' /\ SameCode
    BY <1>2, <1>3, <2>1, UnmapStep
  <2>3. \A t \in Tasks : Live(t)' => Live(t)
    BY <1>1, <2>1, LeavesSlot
  <2> QED
    BY <1>1, <2>1, <2>2, <2>3, HandlerStep
<1>8. ASSUME NEW p \in AllocPages, dealloc_k(p), Running, mydir \in Tasks
      PROVE  TablesOK' /\ SameCode
  BY <1>1, <1>8, DeallocUnmaps, UnmapStep
<1>9. CASE K_alloc \/ K_dealloc
  <2>1. /\ CanCall /\ UNCHANGED freequeue /\ UNCHANGED dir /\ UNCHANGED ustack
        /\ UNCHANGED PID /\ UNCHANGED global_PID
    BY <1>9 DEF K_alloc, K_dealloc, vars
  <2>2. TablesOK' /\ SameCode
    BY <1>2, <1>8, <1>9, <2>1, MapStep DEF K_alloc, K_dealloc, Deallocable
  <2>3. \A t \in Tasks : Live(t)' => Live(t)
    BY <2>1 DEF Live, Free
  <2> QED
    BY <1>1, <2>1, <2>2, <2>3, HandlerStep
<1>10. CASE K_createthread
  <2> DEFINE u == Head(freequeue)
  <2>1. /\ CanCall /\ freequeue # <<>> /\ freequeue' = Tail(freequeue)
        /\ dir' = [dir EXCEPT ![u] = mydir] /\ PID' = [PID EXCEPT ![u] = PID[current]]
        /\ global_PID' = global_PID
        /\ \/ CanAllocPage /\ alloc_k /\ ustack' = [ustack EXCEPT ![u] = FirstUnused]
           \/ /\ UNCHANGED <<PT, phys_mem>>
              /\ \/ ustack' = [ustack EXCEPT ![u] = 0]
                 \/ ustack' = [ustack EXCEPT ![u] = ustack[current]]
    BY <1>10 DEF K_createthread, StartChild, NewTaskFaults, CopyIds
  <2>2. /\ u \in Tasks /\ u # current
        /\ \A t \in Tasks : Live(t)' <=> Live(t) \/ t = u
    BY <1>1, <2>1, TakesSlot
  <2>3. CanAllocPage => FirstUnused \in Pages
    BY TheFirstUnused, AddressSpace DEF CanAllocPage, Unused, PrivatePages
  <2> HIDE DEF u
  <2>4. TablesOK' /\ SameCode
    BY <1>2, <2>1, MapStep, SameTables
  <2>5. ustack' \in [Tasks -> Pages]
    <3>1. \A v \in Pages : [ustack EXCEPT ![u] = v] \in [Tasks -> Pages]
      BY <1>1
    <3>2. ustack[current] \in Pages /\ 0 \in Pages
      BY <1>1, AddressSpace
    <3> QED
      BY <2>1, <2>3, <3>1, <3>2
  <2>6. \A t \in Tasks : Live(t)' => \E v \in Tasks : Live(v) /\ dir'[t] = dir[v]
    <3> SUFFICES ASSUME NEW t \in Tasks, Live(t)' PROVE \E v \in Tasks : Live(v) /\ dir'[t] = dir[v]
      OBVIOUS
    <3>1. CASE t = u
      BY <1>1, <1>2, <2>1, <2>2, <3>1 DEF mydir
    <3>2. CASE t # u
      BY <1>1, <2>1, <2>2, <3>2
    <3> QED
      BY <3>1, <3>2
  <2>7. dir' \in [Tasks -> Tasks] /\ PID' \in [Tasks -> Int] /\ global_PID' \in Nat
    BY <1>1, <1>2, <2>1, <2>2
  <2> QED
    BY <2>4, <2>5, <2>6, <2>7, HandlerStep
<1>11. CASE K_terminatethread
  <2>1. /\ CanCall /\ freequeue' = Append(freequeue, current)
        /\ ustack[current] \in AllocPages /\ dealloc_k(ustack[current])
        /\ UNCHANGED dir /\ UNCHANGED ustack /\ UNCHANGED PID /\ UNCHANGED global_PID
    BY <1>11 DEF K_terminatethread, LeaveForGood, Deallocable
  <2>2. TablesOK' /\ SameCode
    BY <1>2, <1>8, <2>1
  <2>3. \A t \in Tasks : Live(t)' => Live(t)
    BY <1>1, <2>1, LeavesSlot
  <2> QED
    BY <1>1, <2>1, <2>2, <2>3, HandlerStep
<1> QED
  BY <1>5, <1>6, <1>7, <1>9, <1>10, <1>11 DEF KNext

LEMMA KInvariant == KSpec => []KInv
<1>1. KInv /\ [KNext]_kvars => KInv'
  <2>1. KInv => IInv
    BY DEF KInv
  <2> QED
    BY <2>1, MemoryStep, StepOfSched, NextInv DEF KInv
<1> QED
  BY <1>1, InitMemory, PTL DEF KSpec

(* Page tables hold frames and slots point to tables, for any number of pages and slots. *)
THEOREM MemoryTypes == KSpec => []KTypeOK
<1>1. KInv => KTypeOK
  BY DEF KInv, MemoryOK
<1> QED
  BY <1>1, KInvariant, PTL

(* The frame behind a private page is marked used and is not the kernel's: no order of fork,
   exit, alloc, dealloc and thread calls makes alloc_frame hand out a mapped frame. *)
THEOREM MappedFramesAreUsed == KSpec => []MappedIsUsed
BY KInvImplies, KInvariant, PTL

(* No frame backs two private pages, of one address space or of two, unless fork faulted. *)
THEOREM FramesArePrivate == KSpec => []NoFrameTwice
BY KInvImplies, KInvariant, PTL

(* Every live task runs the code that init was loaded in, and its frames stay used. *)
THEOREM CodeStays == KSpec => []CodeIsKept
BY KInvImplies, KInvariant, PTL

-----------------------------------------------------------------------------
(* Disciplined programs: the inductive invariant *)

Disciplined == Calls \subseteq DisciplinedCalls

(* The slot whose table is in use: its task owns the address space. *)
Owner(d) == Live(d) /\ dir[d] = d

(* Every live task runs in the space of a live owner, with the stack of an owner, a page that
   alloc gave to the thread, or page 0. *)
OwnersLive == \A t \in Tasks : Live(t) => Owner(dir[t])
StacksMapped ==
    \A t \in Tasks : Live(t) =>
        \/ dir[t] = t /\ ustack[t] \in DataPages
        \/ /\ dir[t] # t
           /\ \/ ustack[t] \in AllocPages /\ PT[dir[t]][ustack[t]].frame # 0
              \/ ustack[t] = 0 /\ PT[dir[t]][0].present
StacksApart ==
    \A t, u \in Tasks : Live(t) /\ Live(u) /\ t # u /\ dir[t] = dir[u] =>
        ustack[t] # ustack[u] \/ ustack[t] = 0

(* The tables of owners have DATA, and all other tables have no private page at all. *)
EntriesAgree == \A d \in Tasks, p \in PrivatePages : PT[d][p].present <=> PT[d][p].frame # 0
OwnersHaveData == \A d \in Tasks : Owner(d) => \A p \in DataPages : PT[d][p].frame # 0
OthersAreEmpty == \A d \in Tasks : ~Owner(d) => \A p \in PrivatePages : PT[d][p].frame = 0

PIDsAgree ==
    /\ \A t \in Tasks : PID[t] <= global_PID
    /\ \A t, u \in Tasks : Live(t) /\ Live(u) => (dir[t] = dir[u] <=> PID[t] = PID[u])

NothingLost ==
    \A f \in phys_mem \ KernelPages :
        \/ \E p \in CodePages : f = CodeFrame(p)
        \/ \E d \in Tasks, p \in PrivatePages : PT[d][p].frame = f

SpacesOK ==
    /\ OwnersLive /\ StacksMapped /\ StacksApart
    /\ EntriesAgree /\ OwnersHaveData /\ OthersAreEmpty
    /\ PIDsAgree
    /\ NothingLost

DInv == KInv /\ (Running => SpacesOK)

(* The properties that the run checks follow from it. *)
LEMMA DInvImplies == DInv => NoLeak /\ SpacesAreProcesses /\ StacksDisjoint
<1> SUFFICES ASSUME DInv, Running PROVE NoLeak /\ SpacesAreProcesses /\ StacksDisjoint
  BY DEF NoLeak, SpacesAreProcesses, StacksDisjoint
<1>1. /\ OwnersLive /\ StacksMapped /\ StacksApart /\ EntriesAgree /\ OwnersHaveData
      /\ OthersAreEmpty /\ PIDsAgree /\ NothingLost /\ dir \in [Tasks -> Tasks] /\ CodeTables
  BY DEF DInv, SpacesOK, KInv, MemoryOK, KTypeOK
<1>2. NoLeak
  <2> SUFFICES ASSUME NEW f \in phys_mem \ KernelPages,
                      ~ \E p \in CodePages : f = InitFrames[p - PAG_LOG_INIT_CODE]
               PROVE  \E t \in Tasks : Live(t) /\ \E p \in PrivatePages : get_frame(dir[t], p) = f
    BY DEF NoLeak
  <2>1. PICK d \in Tasks, p \in PrivatePages : PT[d][p].frame = f
    BY <1>1 DEF NothingLost, CodeFrame
  <2>2. f # 0
    BY AddressSpace
  <2>3. Live(d) /\ dir[d] = d
    BY <1>1, <2>1, <2>2 DEF OthersAreEmpty, Owner
  <2> QED
    BY <2>1, <2>3 DEF get_frame
<1>3. SpacesAreProcesses
  <2>1. ASSUME NEW t \in Tasks, Live(t)
        PROVE  PT[dir[t]][ustack[t]].present /\ \A p \in DataPages : PT[dir[t]][p].present
    <3>1. dir[t] \in Tasks /\ Owner(dir[t])
      BY <1>1, <2>1 DEF OwnersLive
    <3>2. \A p \in PrivatePages : PT[dir[t]][p].frame # 0 => PT[dir[t]][p].present
      BY <1>1, <3>1 DEF EntriesAgree
    <3>3. \A p \in DataPages : PT[dir[t]][p].present
      BY <1>1, <3>1, <3>2 DEF OwnersHaveData, PrivatePages
    <3>4. PT[dir[t]][ustack[t]].present
      BY <1>1, <2>1, <3>2, <3>3 DEF StacksMapped, PrivatePages
    <3> QED
      BY <3>3, <3>4
  <2> QED
    BY <1>1, <2>1 DEF SpacesAreProcesses, PIDsAgree
<1>4. StacksDisjoint
  BY <1>1 DEF StacksDisjoint, StacksApart
<1> QED
  BY <1>2, <1>3, <1>4

(* What free_frame keeps: the first frame after the kernel's is the first of the code. *)
LEMMA OnlyCodeIsNotFreed ==
    ASSUME NEW fs, NEW f \in Pages \ KernelPages, f \in fs, f \notin Freed(fs)
    PROVE  \E p \in CodePages : f = CodeFrame(p)
<1>1. /\ NUM_PAG_KERNEL \in Nat \ {0} /\ NUM_PAG_CODE \in Nat \ {0}
      /\ NUM_PAG_DATA \in Nat \ {0} /\ TOTAL_PAGES \in Nat
      /\ TOTAL_PAGES >= NUM_PAG_KERNEL + NUM_PAG_CODE + 2 * NUM_PAG_DATA
  BY PagesAssumption
<1>2. f = NUM_PAG_KERNEL
  BY <1>1 DEF Freed, Pages, KernelPages
<1> DEFINE c == InitFrames[0]
<1>3. c \in Pool /\ Cardinality({g \in Pool : g < c}) = 0
  <2>1. 0 \in 0 .. NUM_PAG_CODE + NUM_PAG_DATA - 1
    BY <1>1
  <2> QED
    BY <2>1, InitialFrames
<1>4. {g \in Pool : g < c} = {}
  <2>1. IsFiniteSet({g \in Pool : g < c})
    BY PoolFrames, FS_Subset
  <2> QED
    BY <1>3, <2>1, FS_EmptySet
<1>5. NUM_PAG_KERNEL \in Pool
  BY <1>1 DEF Pool
<1> HIDE DEF c
<1>6. c = NUM_PAG_KERNEL
  <2>1. c \in Nat /\ c >= NUM_PAG_KERNEL
    BY <1>1, <1>3 DEF Pool
  <2> QED
    BY <1>1, <1>4, <1>5, <2>1
<1>7. PAG_LOG_INIT_CODE \in CodePages /\ PAG_LOG_INIT_CODE - PAG_LOG_INIT_CODE = 0
  BY <1>1 DEF CodePages, PAG_LOG_INIT_CODE, PAG_LOG_INIT_DATA
<1> QED
  BY <1>2, <1>6, <1>7 DEF CodeFrame, c

(* What is known in a call of a disciplined program. *)
LEMMA Caller ==
    ASSUME DInv, CanCall
    PROVE  /\ SpacesOK /\ KTypeOK /\ IInv /\ Running /\ FramesOnce /\ UsedFrames
           /\ current \in Tasks /\ Live(current) /\ mydir \in Tasks /\ Owner(mydir)
           /\ dir[current] = mydir
           /\ dir \in [Tasks -> Tasks]
BY CallerIsLive DEF DInv, SpacesOK, KInv, MemoryOK, KTypeOK, OwnersLive, mydir

(* Deleting private pages and freeing their frames loses no frame. *)
LEMMA UnmapLosesNothing ==
    ASSUME DInv, Running, NEW d \in Tasks, NEW P \in SUBSET PrivatePages,
           PT' = [PT EXCEPT ![d] = [p \in Pages |-> IF p \in P THEN Empty ELSE PT[d][p]]],
           phys_mem' = phys_mem \ Freed({get_frame(d, p) : p \in P})
    PROVE  /\ EntriesAgree' /\ NothingLost'
           /\ \A e \in Tasks, p \in Pages :
                 PT'[e][p] = IF e = d /\ p \in P THEN Empty ELSE PT[e][p]
           /\ Empty.frame = 0
<1>1. EntriesAgree /\ NothingLost /\ PT \in [Tasks -> AddressSpaces] /\ phys_mem \subseteq Pages
  BY DEF DInv, SpacesOK, KInv, MemoryOK, KTypeOK
<1>2. \A e \in Tasks, p \in Pages : PT'[e][p] = IF e = d /\ p \in P THEN Empty ELSE PT[e][p]
  BY <1>1
<1>3. Empty.frame = 0 /\ Empty.present = FALSE
  BY DEF Empty
<1>4. \A p \in PrivatePages : p \in Pages
  BY AddressSpace
<1>5. EntriesAgree'
  <2> SUFFICES ASSUME NEW e \in Tasks, NEW p \in PrivatePages
               PROVE  PT'[e][p].present <=> PT'[e][p].frame # 0
    BY DEF EntriesAgree
  <2> QED
    BY <1>1, <1>2, <1>3, <1>4 DEF EntriesAgree
<1>6. NothingLost'
  <2> SUFFICES ASSUME NEW f \in phys_mem' \ KernelPages
               PROVE  \/ \E p \in CodePages : f = CodeFrame(p)
                      \/ \E e \in Tasks, p \in PrivatePages : PT'[e][p].frame = f
    BY DEF NothingLost, CodeFrame
  <2> DEFINE fs == {get_frame(d, p) : p \in P}
  <2>1. f \in phys_mem /\ f \in Pages \ KernelPages /\ f \notin Freed(fs)
    BY <1>1
  <2>2. CASE \E p \in CodePages : f = CodeFrame(p)
    BY <2>2
  <2>3. ASSUME NEW e \in Tasks, NEW p \in PrivatePages, PT[e][p].frame = f
        PROVE  \/ \E q \in CodePages : f = CodeFrame(q)
               \/ \E c \in Tasks, q \in PrivatePages : PT'[c][q].frame = f
    <3>1. CASE e = d /\ p \in P
      <4>1. f \in fs
        BY <2>3, <3>1 DEF get_frame
      <4> HIDE DEF fs
      <4> QED
        BY <2>1, <4>1, OnlyCodeIsNotFreed
    <3>2. CASE ~(e = d /\ p \in P)
      BY <1>2, <1>4, <2>3, <3>2
    <3> QED
      BY <3>1, <3>2
  <2> QED
    BY <1>1, <2>1, <2>2, <2>3 DEF NothingLost
<1> QED
  BY <1>2, <1>3, <1>5, <1>6

(* So does dealloc_k. *)
LEMMA DeallocLosesNothing ==
    ASSUME DInv, Running, mydir \in Tasks, NEW p \in AllocPages, dealloc_k(p)
    PROVE  /\ EntriesAgree' /\ NothingLost'
           /\ \A e \in Tasks, q \in Pages :
                 PT'[e][q] = IF e = mydir /\ q \in {p} THEN Empty ELSE PT[e][q]
           /\ Empty.frame = 0
<1>1. KTypeOK
  BY DEF DInv, KInv, MemoryOK
<1> DEFINE d == mydir  P == {p}
<1>2. /\ d \in Tasks /\ P \in SUBSET PrivatePages
      /\ PT' = [PT EXCEPT ![d] = [q \in Pages |-> IF q \in P THEN Empty ELSE PT[d][q]]]
      /\ phys_mem' = phys_mem \ Freed({get_frame(d, q) : q \in P})
  BY <1>1, DeallocUnmaps
<1> HIDE DEF d, P
<1>3. /\ EntriesAgree' /\ NothingLost' /\ Empty.frame = 0
      /\ \A e \in Tasks, q \in Pages :
            PT'[e][q] = IF e = d /\ q \in P THEN Empty ELSE PT[e][q]
  BY <1>2, UnmapLosesNothing
<1> QED
  BY <1>3 DEF d, P

(* Neither does alloc, which maps a page that was not in use. *)
LEMMA MapLosesNothing ==
    ASSUME DInv, Running, mydir \in Tasks, CanAllocPage, alloc_k
    PROVE  /\ EntriesAgree' /\ NothingLost'
           /\ FirstUnused \in AllocPages
           /\ PT[mydir][FirstUnused].frame = 0
           /\ \A e \in Tasks, p \in Pages :
                 IF e = mydir /\ p = FirstUnused
                 THEN PT'[e][p].frame # 0
                 ELSE PT'[e][p] = PT[e][p]
<1> DEFINE f == alloc_frame  pg == FirstUnused  d == mydir
<1>1. EntriesAgree /\ NothingLost /\ PT \in [Tasks -> AddressSpaces] /\ phys_mem \subseteq Pages
  BY DEF DInv, SpacesOK, KInv, MemoryOK, KTypeOK
<1>2. f \in Pages /\ f # 0
  BY AllocFrame, PoolFrames DEF CanAllocPage, FreeFrames
<1>3. pg \in AllocPages /\ PT[mydir][pg].frame = 0
  BY TheFirstUnused DEF CanAllocPage, Unused, get_frame
<1>4. Mapped(f).frame = f /\ Mapped(f).present = TRUE
  BY DEF Mapped
<1>5. PT' = [PT EXCEPT ![d][pg] = Mapped(f)] /\ phys_mem' = phys_mem \cup {f} /\ d \in Tasks
  BY DEF alloc_k
<1>6. (\A p \in PrivatePages : p \in Pages) /\ pg \in Pages /\ pg \in PrivatePages
  BY <1>3, AddressSpace DEF PrivatePages
<1> HIDE DEF f, pg, d
<1>7. \A e \in Tasks, p \in Pages :
         PT'[e][p] = IF e = d /\ p = pg THEN Mapped(f) ELSE PT[e][p]
  BY <1>1, <1>5 DEF AddressSpaces
<1>8. EntriesAgree'
  <2> SUFFICES ASSUME NEW e \in Tasks, NEW p \in PrivatePages
               PROVE  PT'[e][p].present <=> PT'[e][p].frame # 0
    BY DEF EntriesAgree
  <2> QED
    BY <1>1, <1>2, <1>4, <1>6, <1>7 DEF EntriesAgree
<1>9. NothingLost'
  <2> SUFFICES ASSUME NEW g \in phys_mem' \ KernelPages
               PROVE  \/ \E p \in CodePages : g = CodeFrame(p)
                      \/ \E e \in Tasks, p \in PrivatePages : PT'[e][p].frame = g
    BY DEF NothingLost, CodeFrame
  <2>1. CASE g = f
    BY <1>4, <1>5, <1>6, <1>7, <2>1
  <2>2. CASE g # f
    <3>1. g \in phys_mem \ KernelPages
      BY <1>5, <2>2
    <3>2. ASSUME NEW e \in Tasks, NEW p \in PrivatePages, PT[e][p].frame = g
          PROVE  \E c \in Tasks, q \in PrivatePages : PT'[c][q].frame = g
      <4>1. g # 0
        BY <3>1, AddressSpace
      <4>2. ~(e = d /\ p = pg)
        BY <1>3, <3>2, <4>1 DEF d, pg
      <4> QED
        BY <1>6, <1>7, <3>2, <4>2
    <3> QED
      BY <1>1, <3>1, <3>2 DEF NothingLost
  <2> QED
    BY <2>1, <2>2
<1> QED
  BY <1>2, <1>3, <1>4, <1>7, <1>8, <1>9 DEF f, pg, d

(* alloc and dealloc in a disciplined program: nobody's stack goes away. *)
LEMMA DisciplinedAlloc ==
    ASSUME Disciplined, DInv, CanCall, K_alloc \/ K_dealloc
    PROVE  SpacesOK'
<1>1. /\ SpacesOK /\ Running /\ mydir \in Tasks /\ Owner(mydir) /\ dir \in [Tasks -> Tasks]
  BY Caller
<1>2. /\ OwnersLive /\ StacksMapped /\ StacksApart /\ EntriesAgree /\ OwnersHaveData
      /\ OthersAreEmpty /\ PIDsAgree /\ NothingLost
  BY <1>1 DEF SpacesOK
<1>3. /\ dir' = dir /\ ustack' = ustack /\ PID' = PID /\ global_PID' = global_PID
      /\ \A t \in Tasks : Live(t)' <=> Live(t)
      /\ \A t \in Tasks : Owner(t)' <=> Owner(t)
  BY DEF K_alloc, K_dealloc, vars, Live, Free, Owner
<1>4. OwnersLive' /\ PIDsAgree' /\ StacksApart'
  BY <1>1, <1>2, <1>3 DEF OwnersLive, PIDsAgree, StacksApart
<1>5. /\ \A p \in PrivatePages : p \in Pages /\ p # 0
      /\ \A p \in DataPages : p \in PrivatePages /\ p \notin AllocPages
      /\ \A p \in AllocPages : p \in PrivatePages
      /\ 0 \in Pages
  BY AddressSpace DEF PrivatePages
<1>6. \A t \in Tasks : Live(t) => dir[t] \in Tasks
  BY <1>1
<1>7. CASE K_alloc
  <2>1. CanAllocPage /\ alloc_k
    BY <1>7 DEF K_alloc
  <2>2. /\ EntriesAgree' /\ NothingLost'
        /\ FirstUnused \in AllocPages
        /\ \A e \in Tasks, p \in Pages :
              IF e = mydir /\ p = FirstUnused THEN PT'[e][p].frame # 0 ELSE PT'[e][p] = PT[e][p]
    BY <1>1, <2>1, MapLosesNothing
  <2>3. OwnersHaveData'
    BY <1>2, <1>3, <1>5, <2>2 DEF OwnersHaveData
  <2>4. OthersAreEmpty'
    BY <1>1, <1>2, <1>3, <1>5, <2>2 DEF OthersAreEmpty
  <2>5. StacksMapped'
    <3> SUFFICES ASSUME NEW t \in Tasks, Live(t), dir[t] # t
                 PROVE  \/ ustack[t] \in AllocPages /\ PT'[dir[t]][ustack[t]].frame # 0
                        \/ ustack[t] = 0 /\ PT'[dir[t]][0].present
      BY <1>2, <1>3 DEF StacksMapped
    <3> QED
      BY <1>2, <1>5, <1>6, <2>2 DEF StacksMapped
  <2> QED
    BY <1>4, <2>2, <2>3, <2>4, <2>5 DEF SpacesOK
<1>8. CASE K_dealloc
  <2>1. PICK p \in Pages : /\ p \notin StackPages
                           /\ p \in AllocPages
                           /\ dealloc_k(p)
    BY <1>8 DEF K_dealloc, MayCall, Deallocable, Disciplined, DisciplinedCalls
  <2>2. /\ EntriesAgree' /\ NothingLost' /\ Empty.frame = 0
        /\ \A e \in Tasks, q \in Pages :
              PT'[e][q] = IF e = mydir /\ q \in {p} THEN Empty ELSE PT[e][q]
    BY <1>1, <2>1, DeallocLosesNothing
  <2>3. OwnersHaveData'
    BY <1>2, <1>3, <1>5, <2>1, <2>2 DEF OwnersHaveData
  <2>4. OthersAreEmpty'
    BY <1>1, <1>2, <1>3, <1>5, <2>2 DEF OthersAreEmpty
  <2>5. StacksMapped'
    <3> SUFFICES ASSUME NEW t \in Tasks, Live(t), dir[t] # t
                 PROVE  \/ ustack[t] \in AllocPages /\ PT'[dir[t]][ustack[t]].frame # 0
                        \/ ustack[t] = 0 /\ PT'[dir[t]][0].present
      BY <1>2, <1>3 DEF StacksMapped
    <3>1. dir[t] = mydir => ustack[t] # p
      BY <2>1 DEF StackPages
    <3> QED
      BY <1>2, <1>5, <1>6, <2>1, <2>2, <3>1 DEF StacksMapped
  <2> QED
    BY <1>4, <2>2, <2>3, <2>4, <2>5 DEF SpacesOK
<1> QED
  BY <1>7, <1>8

(* exit of a disciplined program: the last task of the space is its owner. *)
LEMMA DisciplinedExit ==
    ASSUME Disciplined, DInv, CanCall, K_exit
    PROVE  SpacesOK'
<1>1. /\ SpacesOK /\ Running /\ IInv /\ current \in Tasks /\ Live(current)
      /\ dir[current] = mydir /\ mydir \in Tasks /\ Owner(mydir) /\ dir \in [Tasks -> Tasks]
  BY Caller
<1>2. /\ OwnersLive /\ StacksMapped /\ StacksApart /\ EntriesAgree /\ OwnersHaveData
      /\ OthersAreEmpty /\ PIDsAgree /\ NothingLost /\ KTypeOK
  BY <1>1, Caller DEF SpacesOK
<1>3. ~SharedSpace /\ BareSpace
  BY DEF K_exit, MayExit, MayCall, Disciplined, DisciplinedCalls
<1>4. /\ freequeue' = Append(freequeue, current)
      /\ dir' = dir /\ ustack' = ustack /\ global_PID' = global_PID
      /\ PID' = [PID EXCEPT ![current] = -1]
      /\ PT' = [PT EXCEPT ![mydir] =
                   [p \in Pages |-> IF p \in DataPages THEN Empty ELSE PT[mydir][p]]]
      /\ phys_mem' = phys_mem \ Freed({get_frame(mydir, p) : p \in DataPages})
  BY DEF K_exit, LeaveForGood
<1>5. \A t \in Tasks : Live(t)' <=> Live(t) /\ t # current
  BY <1>1, <1>4, LeavesSlot
<1>6. /\ EntriesAgree' /\ NothingLost' /\ Empty.frame = 0
      /\ \A e \in Tasks, p \in Pages :
            PT'[e][p] = IF e = mydir /\ p \in DataPages THEN Empty ELSE PT[e][p]
  <2> DEFINE d == mydir  P == DataPages
  <2>1. /\ d \in Tasks /\ P \in SUBSET PrivatePages
        /\ PT' = [PT EXCEPT ![d] = [p \in Pages |-> IF p \in P THEN Empty ELSE PT[d][p]]]
        /\ phys_mem' = phys_mem \ Freed({get_frame(d, p) : p \in P})
    <3>1. d \in Tasks
      BY <1>1
    <3>2. P \in SUBSET PrivatePages
      BY DEF PrivatePages
    <3>3. PT' = [PT EXCEPT ![d] = [p \in Pages |-> IF p \in P THEN Empty ELSE PT[d][p]]]
      BY <1>4, Zenon
    <3>4. phys_mem' = phys_mem \ Freed({get_frame(d, p) : p \in P})
      BY <1>4, Zenon
    <3> HIDE DEF d, P
    <3> QED
      BY ONLY <3>1, <3>2, <3>3, <3>4
  <2> HIDE DEF d, P
  <2>2. /\ EntriesAgree' /\ NothingLost' /\ Empty.frame = 0
        /\ \A e \in Tasks, p \in Pages :
              PT'[e][p] = IF e = d /\ p \in P THEN Empty ELSE PT[e][p]
    <3>1. DInv /\ Running
      BY <1>1
    <3> QED
      BY ONLY <2>1, <3>1, UnmapLosesNothing
  <2> QED
    BY <2>2 DEF d, P
<1>7. mydir = current
  BY <1>1, <1>3 DEF SharedSpace, Owner
<1>8. \A t \in Tasks : Live(t) /\ t # current => dir[t] # mydir
  BY <1>3 DEF SharedSpace
<1>9. \A t \in Tasks : Owner(t)' <=> Owner(t) /\ t # current
  BY <1>4, <1>5 DEF Owner
<1>10. /\ \A p \in PrivatePages : p \in Pages
       /\ \A p \in DataPages : p \in PrivatePages
       /\ 0 \in Pages
       /\ \A p \in AllocPages : PT[mydir][p].frame = 0
  BY <1>3, AddressSpace DEF PrivatePages, BareSpace, Unused, get_frame
<1>11. OwnersLive'
  BY <1>1, <1>2, <1>4, <1>5, <1>7, <1>8, <1>9 DEF OwnersLive
<1>12. StacksMapped'
  <2> SUFFICES ASSUME NEW t \in Tasks, Live(t), t # current
               PROVE  \/ dir[t] = t /\ ustack[t] \in DataPages
                      \/ /\ dir[t] # t
                         /\ \/ ustack[t] \in AllocPages /\ PT'[dir[t]][ustack[t]].frame # 0
                            \/ ustack[t] = 0 /\ PT'[dir[t]][0].present
    BY <1>4, <1>5 DEF StacksMapped
  <2>1. dir[t] \in Tasks /\ dir[t] # mydir
    BY <1>1, <1>8
  <2>2. \A p \in AllocPages : p \in Pages
    BY AddressSpace DEF PrivatePages
  <2> QED
    BY <1>2, <1>6, <1>10, <2>1, <2>2 DEF StacksMapped
<1>13. StacksApart'
  BY <1>2, <1>4, <1>5 DEF StacksApart
<1>14. OwnersHaveData'
  BY <1>2, <1>6, <1>7, <1>9, <1>10 DEF OwnersHaveData
<1>15. OthersAreEmpty'
  <2> SUFFICES ASSUME NEW d \in Tasks, ~Owner(d) \/ d = current, NEW p \in PrivatePages
               PROVE  PT'[d][p].frame = 0
    BY <1>9 DEF OthersAreEmpty
  <2> QED
    BY <1>2, <1>6, <1>7, <1>10 DEF OthersAreEmpty, PrivatePages
<1>16. PIDsAgree'
  <2>1. PID \in [Tasks -> Int] /\ global_PID \in Nat
    BY <1>2 DEF KTypeOK
  <2> QED
    BY <1>1, <1>2, <1>4, <1>5, <2>1 DEF PIDsAgree
<1> QED
  BY <1>6, <1>11, <1>12, <1>13, <1>14, <1>15, <1>16 DEF SpacesOK

(* terminatethread: the stack of a thread, which no other task uses, goes with it. *)
LEMMA DisciplinedTerminate ==
    ASSUME Disciplined, DInv, CanCall, K_terminatethread
    PROVE  SpacesOK'
<1>1. /\ SpacesOK /\ Running /\ IInv /\ current \in Tasks /\ Live(current)
      /\ dir[current] = mydir /\ mydir \in Tasks /\ Owner(mydir) /\ dir \in [Tasks -> Tasks]
  BY Caller
<1>2. /\ OwnersLive /\ StacksMapped /\ StacksApart /\ EntriesAgree /\ OwnersHaveData
      /\ OthersAreEmpty /\ PIDsAgree /\ NothingLost /\ KTypeOK
  BY <1>1, Caller DEF SpacesOK
<1> DEFINE s == ustack[current]
<1>3. /\ freequeue' = Append(freequeue, current)
      /\ dir' = dir /\ ustack' = ustack /\ global_PID' = global_PID /\ PID' = PID
      /\ s \in AllocPages /\ dealloc_k(s)
  BY DEF K_terminatethread, LeaveForGood, Deallocable
<1>4. \A t \in Tasks : Live(t)' <=> Live(t) /\ t # current
  BY <1>1, <1>3, LeavesSlot
<1>5. /\ EntriesAgree' /\ NothingLost' /\ Empty.frame = 0
      /\ \A e \in Tasks, p \in Pages :
            PT'[e][p] = IF e = mydir /\ p \in {s} THEN Empty ELSE PT[e][p]
  <2> HIDE DEF s
  <2> QED
    BY <1>1, <1>3, DeallocLosesNothing
<1>6. /\ \A p \in PrivatePages : p \in Pages
      /\ \A p \in DataPages : p \in PrivatePages /\ p \notin AllocPages
      /\ 0 \in Pages /\ 0 \notin AllocPages /\ \A p \in AllocPages : p \in Pages
  BY AddressSpace DEF PrivatePages
<1>7. ~Owner(current)
  BY <1>1, <1>2, <1>3, <1>6 DEF StacksMapped, Owner
<1>8. \A t \in Tasks : Owner(t)' <=> Owner(t)
  BY <1>3, <1>4, <1>7 DEF Owner
<1>9. \A t \in Tasks : Live(t) => dir[t] \in Tasks /\ Owner(dir[t])
  BY <1>1, <1>2 DEF OwnersLive
<1>10. OwnersLive' /\ PIDsAgree' /\ StacksApart'
  <2>1. OwnersLive'
    BY <1>3, <1>4, <1>8, <1>9 DEF OwnersLive
  <2> QED
    BY <1>2, <1>3, <1>4, <2>1 DEF PIDsAgree, StacksApart
<1>11. OwnersHaveData' /\ OthersAreEmpty'
  BY <1>2, <1>3, <1>5, <1>6, <1>8 DEF OwnersHaveData, OthersAreEmpty
<1>12. StacksMapped'
  <2> SUFFICES ASSUME NEW t \in Tasks, Live(t), t # current, dir[t] # t
               PROVE  \/ ustack[t] \in AllocPages /\ PT'[dir[t]][ustack[t]].frame # 0
                      \/ ustack[t] = 0 /\ PT'[dir[t]][0].present
    BY <1>2, <1>3, <1>4 DEF StacksMapped
  <2>1. dir[t] = mydir => ustack[t] # s \/ ustack[t] = 0
    BY <1>1, <1>2 DEF StacksApart
  <2>2. dir[t] \in Tasks
    BY <1>9
  <2> HIDE DEF s
  <2> QED
    BY <1>2, <1>3, <1>5, <1>6, <2>1, <2>2 DEF StacksMapped
<1> QED
  BY <1>5, <1>10, <1>11, <1>12 DEF SpacesOK

(* The slot and the frames that fork takes for its child. *)
Child == Head(freequeue)
NewFrames == alloc_frames(phys_mem, NUM_PAG_DATA)

(* fork of a disciplined program: the caller owns its space and has nothing but CODE and
   DATA, so the copy is possible, and fork's temporary pages were free. *)
LEMMA DisciplinedForkTables ==
    ASSUME Disciplined, DInv, CanCall, freequeue # <<>>, MayFork, CanAlloc(NUM_PAG_DATA),
           ForkDone(Head(freequeue))
    PROVE  /\ StartChild
           /\ ustack[current] \in DataPages
           /\ phys_mem' = phys_mem \cup Range(NewFrames)
           /\ \A i \in 0 .. NUM_PAG_DATA - 1 : NewFrames[i] \in Pages /\ NewFrames[i] # 0
           /\ Range(NewFrames) = {NewFrames[i] : i \in 0 .. NUM_PAG_DATA - 1}
           /\ \A p \in DataPages : PT'[Child][p] = Mapped(NewFrames[p - PAG_LOG_INIT_DATA])
           /\ \A d \in Tasks, p \in Pages :
                 \/ PT'[d][p] = PT[d][p]
                 \/ d = Child /\ p \notin AllocPages
                 \/ p \in AllocPages /\ PT'[d][p] = Empty /\ PT[d][p].frame = 0
           /\ CopyIds(Child, Child, global_PID + 1, ustack[current])
           /\ global_PID' = global_PID + 1
<1> DEFINE u == Head(freequeue)
           new == alloc_frames(phys_mem, NUM_PAG_DATA)
           PT1 == [PT EXCEPT ![u] = ChildTable(u, new)]
<1>1. /\ SpacesOK /\ Running /\ IInv /\ KTypeOK /\ mydir \in Tasks /\ Owner(mydir)
      /\ dir \in [Tasks -> Tasks]
  BY Caller
<1>2. EntriesAgree /\ OwnersHaveData /\ OthersAreEmpty
  BY <1>1 DEF SpacesOK
<1>3. BareSpace /\ ustack[current] \in DataPages
  BY DEF MayFork, MayCall, Disciplined, DisciplinedCalls
<1>4. u \in Tasks /\ ~Live(u)
  <2>1. freequeue' = Tail(freequeue)
    BY DEF ForkDone, StartChild, NewTaskFaults
  <2> QED
    BY <1>1, <2>1, TakesSlot
<1>5. u # mydir /\ ~Owner(u)
  BY <1>1, <1>4 DEF Owner
<1>6. /\ \A i \in 0 .. NUM_PAG_DATA - 1 : new[i] \in FreeFrames(phys_mem)
      /\ DOMAIN new = 0 .. NUM_PAG_DATA - 1
  BY AllocFrames, PagesAssumption DEF CanAlloc
<1>7. /\ \A i \in 0 .. NUM_PAG_DATA - 1 : new[i] \in Pages /\ new[i] # 0
      /\ Range(new) = {new[i] : i \in 0 .. NUM_PAG_DATA - 1}
  BY <1>6, PoolFrames DEF FreeFrames, Range
<1>8. /\ ChildTable(u, new) \in AddressSpaces
      /\ \A p \in DataPages : ChildTable(u, new)[p] = Mapped(new[p - PAG_LOG_INIT_DATA])
      /\ \A p \in AllocPages : ChildTable(u, new)[p] = PT[u][p]
  BY <1>1, <1>4, <1>7, ChildsTable
<1>9. /\ \A p \in DataPages : p \in PrivatePages /\ p \in Pages /\ p \notin AllocPages
      /\ \A p \in AllocPages : p \in PrivatePages /\ p \in Pages
      /\ \A p \in TempPages : p \in AllocPages
  BY AddressSpace DEF PrivatePages
<1>10. PT1[mydir] = PT[mydir] /\ \A p \in DataPages : PT1[mydir][p].present
  <2>1. PT1[mydir] = PT[mydir]
    BY <1>1, <1>5 DEF KTypeOK
  <2>2. \A p \in DataPages : PT[mydir][p].present
    BY <1>1, <1>2, <1>9 DEF EntriesAgree, OwnersHaveData
  <2> QED
    BY <2>1, <2>2
<1>11. /\ StartChild /\ phys_mem' = phys_mem \cup Range(new) /\ global_PID' = global_PID + 1
       /\ CopyIds(u, u, global_PID + 1, ustack[current])
       /\ PT' = [PT1 EXCEPT ![mydir] =
                    [p \in Pages |-> IF p \in TempPages THEN Empty ELSE PT1[mydir][p]]]
  BY <1>3, <1>10 DEF ForkDone
<1> HIDE DEF u, new
<1>12. \A d \in Tasks, p \in Pages :
          PT'[d][p] = IF d = u THEN ChildTable(u, new)[p]
                      ELSE IF d = mydir /\ p \in TempPages THEN Empty ELSE PT[d][p]
  <2>1. PT \in [Tasks -> AddressSpaces]
    BY <1>1 DEF KTypeOK
  <2> QED
    BY <1>1, <1>4, <1>5, <1>8, <1>11, <2>1
<1>13. \A p \in AllocPages : PT[mydir][p].frame = 0
  BY <1>3, <1>9 DEF BareSpace, Unused, get_frame
<1>14. \A p \in DataPages : PT'[u][p] = Mapped(new[p - PAG_LOG_INIT_DATA])
  BY <1>4, <1>8, <1>9, <1>12
<1>15. \A d \in Tasks, p \in Pages :
          \/ PT'[d][p] = PT[d][p]
          \/ d = u /\ p \notin AllocPages
          \/ p \in AllocPages /\ PT'[d][p] = Empty /\ PT[d][p].frame = 0
  BY <1>8, <1>9, <1>12, <1>13
<1> QED
  BY <1>3, <1>7, <1>11, <1>14, <1>15 DEF u, new, Child, NewFrames

LEMMA DisciplinedForkDone ==
    ASSUME Disciplined, DInv, CanCall, freequeue # <<>>, MayFork, CanAlloc(NUM_PAG_DATA),
           ForkDone(Head(freequeue))
    PROVE  SpacesOK'
<1>1. /\ SpacesOK /\ Running /\ IInv /\ current \in Tasks /\ Live(current)
      /\ dir[current] = mydir /\ mydir \in Tasks /\ Owner(mydir) /\ dir \in [Tasks -> Tasks]
  BY Caller
<1>2. /\ OwnersLive /\ StacksMapped /\ StacksApart /\ EntriesAgree /\ OwnersHaveData
      /\ OthersAreEmpty /\ PIDsAgree /\ NothingLost
      /\ ustack \in [Tasks -> Pages] /\ PID \in [Tasks -> Int] /\ global_PID \in Nat
  BY <1>1, Caller DEF SpacesOK, KTypeOK
<1> DEFINE u == Child  new == NewFrames
<1>3. /\ u = Head(freequeue) /\ freequeue' = Tail(freequeue)
      /\ phys_mem' = phys_mem \cup Range(new)
      /\ \A i \in 0 .. NUM_PAG_DATA - 1 : new[i] \in Pages /\ new[i] # 0
      /\ Range(new) = {new[i] : i \in 0 .. NUM_PAG_DATA - 1}
      /\ \A p \in DataPages : PT'[u][p] = Mapped(new[p - PAG_LOG_INIT_DATA])
      /\ \A d \in Tasks, p \in Pages :
            \/ PT'[d][p] = PT[d][p]
            \/ d = u /\ p \notin AllocPages
            \/ p \in AllocPages /\ PT'[d][p] = Empty /\ PT[d][p].frame = 0
      /\ global_PID' = global_PID + 1
      /\ dir' = [dir EXCEPT ![u] = u]
      /\ PID' = [PID EXCEPT ![u] = global_PID + 1]
      /\ ustack' = [ustack EXCEPT ![u] = ustack[current]]
      /\ ustack[current] \in DataPages
  BY DisciplinedForkTables DEF StartChild, CopyIds, Child
<1> HIDE DEF u, new
<1>4. /\ u \in Tasks /\ u # current /\ ~Live(u) /\ ~Owner(u) /\ u # mydir
      /\ \A t \in Tasks : Live(t)' <=> Live(t) \/ t = u
  BY <1>1, <1>3, TakesSlot DEF Owner
<1>5. \A t \in Tasks : Live(t) => dir[t] \in Tasks /\ Owner(dir[t]) /\ dir[t] # u
  BY <1>1, <1>2, <1>4 DEF OwnersLive
<1>6. \A t \in Tasks : dir'[t] = IF t = u THEN u ELSE dir[t]
  BY <1>1, <1>3
<1>7. \A t \in Tasks : Owner(t)' <=> Owner(t) \/ t = u
  BY <1>4, <1>6 DEF Owner
<1>8. /\ \A p \in PrivatePages : p \in Pages /\ p # 0 /\ (p \in DataPages \/ p \in AllocPages)
      /\ \A p \in DataPages : p \in PrivatePages /\ p \notin AllocPages
                              /\ p - PAG_LOG_INIT_DATA \in 0 .. NUM_PAG_DATA - 1
      /\ \A p \in AllocPages : p \in Pages /\ p \in PrivatePages
      /\ 0 \in Pages /\ 0 \notin AllocPages
  BY AddressSpace DEF PrivatePages
<1>9. /\ Empty.frame = 0 /\ Empty.present = FALSE
      /\ \A f : Mapped(f).frame = f /\ Mapped(f).present = TRUE
  BY DEF Empty, Mapped
<1>10. \A d \in Tasks, p \in PrivatePages :
          \/ d = u /\ p \in DataPages
          \/ PT'[d][p] = PT[d][p]
          \/ p \in AllocPages /\ PT'[d][p] = Empty /\ PT[d][p].frame = 0
  BY <1>3, <1>8
<1>11. EntriesAgree'
  <2> SUFFICES ASSUME NEW d \in Tasks, NEW p \in PrivatePages
               PROVE  PT'[d][p].present <=> PT'[d][p].frame # 0
    BY DEF EntriesAgree
  <2>1. CASE d = u /\ p \in DataPages
    BY <1>3, <1>8, <1>9, <2>1
  <2>2. CASE ~(d = u /\ p \in DataPages)
    BY <1>2, <1>9, <1>10, <2>2 DEF EntriesAgree
  <2> QED
    BY <2>1, <2>2
<1>12. OwnersHaveData'
  <2> SUFFICES ASSUME NEW d \in Tasks, Owner(d) \/ d = u, NEW p \in DataPages
               PROVE  PT'[d][p].frame # 0
    BY <1>7 DEF OwnersHaveData
  <2>1. CASE d = u
    BY <1>3, <1>8, <1>9, <2>1
  <2>2. CASE d # u
    BY <1>2, <1>8, <1>10, <2>2 DEF OwnersHaveData
  <2> QED
    BY <2>1, <2>2
<1>13. OthersAreEmpty'
  BY <1>2, <1>7, <1>9, <1>10 DEF OthersAreEmpty
<1>14. OwnersLive'
  BY <1>4, <1>5, <1>6, <1>7 DEF OwnersLive
<1>15. \A t \in Tasks : ustack'[t] = IF t = u THEN ustack[current] ELSE ustack[t]
  BY <1>2, <1>3
<1>16. StacksMapped'
  <2> SUFFICES ASSUME NEW t \in Tasks, Live(t) \/ t = u
               PROVE  \/ dir'[t] = t /\ ustack'[t] \in DataPages
                      \/ /\ dir'[t] # t
                         /\ \/ ustack'[t] \in AllocPages /\ PT'[dir'[t]][ustack'[t]].frame # 0
                            \/ ustack'[t] = 0 /\ PT'[dir'[t]][0].present
    BY <1>4 DEF StacksMapped
  <2>1. CASE t = u
    BY <1>3, <1>6, <1>15, <2>1
  <2>2. CASE t # u
    <3>1. dir'[t] = dir[t] /\ ustack'[t] = ustack[t] /\ dir[t] \in Tasks /\ dir[t] # u /\ Live(t)
      BY <1>5, <1>6, <1>15, <2>2
    <3>2. PT'[dir[t]][0] = PT[dir[t]][0]
      BY <1>3, <1>8, <3>1
    <3>3. \A p \in AllocPages : PT[dir[t]][p].frame # 0 => PT'[dir[t]][p].frame # 0
      BY <1>8, <1>10, <3>1
    <3> QED
      BY <1>2, <3>1, <3>2, <3>3 DEF StacksMapped
  <2> QED
    BY <2>1, <2>2
<1>17. StacksApart'
  BY <1>2, <1>4, <1>5, <1>6, <1>15 DEF StacksApart
<1>18. PIDsAgree'
  <2>1. \A t \in Tasks : PID'[t] = IF t = u THEN global_PID + 1 ELSE PID[t]
    BY <1>2, <1>3
  <2>2. \A t \in Tasks : PID[t] \in Int /\ PID[t] <= global_PID
    BY <1>2 DEF PIDsAgree
  <2>3. \A t \in Tasks : PID'[t] <= global_PID'
    BY <1>2, <1>3, <2>1, <2>2
  <2>4. ASSUME NEW t \in Tasks, NEW v \in Tasks, Live(t)', Live(v)'
        PROVE  dir'[t] = dir'[v] <=> PID'[t] = PID'[v]
    <3>1. CASE t # u /\ v # u
      BY <1>2, <1>4, <1>6, <2>1, <2>4, <3>1 DEF PIDsAgree
    <3>2. CASE t = u /\ v # u
      BY <1>2, <1>4, <1>5, <1>6, <2>1, <2>2, <2>4, <3>2
    <3>3. CASE t # u /\ v = u
      BY <1>2, <1>4, <1>5, <1>6, <2>1, <2>2, <2>4, <3>3
    <3>4. CASE t = u /\ v = u
      BY <3>4
    <3> QED
      BY <3>1, <3>2, <3>3, <3>4
  <2> QED
    BY <2>3, <2>4 DEF PIDsAgree
<1>19. NothingLost'
  <2> SUFFICES ASSUME NEW f \in phys_mem' \ KernelPages
               PROVE  \/ \E p \in CodePages : f = CodeFrame(p)
                      \/ \E d \in Tasks, p \in PrivatePages : PT'[d][p].frame = f
    BY DEF NothingLost, CodeFrame
  <2>1. CASE f \in Range(new)
    <3>1. PICK i \in 0 .. NUM_PAG_DATA - 1 : f = new[i]
      BY <1>3, <2>1
    <3>2. i + PAG_LOG_INIT_DATA \in DataPages /\ (i + PAG_LOG_INIT_DATA) - PAG_LOG_INIT_DATA = i
      BY PagesAssumption DEF DataPages, PAG_LOG_INIT_DATA
    <3> QED
      BY <1>3, <1>4, <1>8, <1>9, <3>1, <3>2
  <2>2. CASE f \notin Range(new)
    <3>1. f \in phys_mem \ KernelPages /\ f # 0
      BY <1>3, <2>2, AddressSpace
    <3>2. ASSUME NEW d \in Tasks, NEW p \in PrivatePages, PT[d][p].frame = f
          PROVE  PT'[d][p].frame = f
      <4>1. d # u
        BY <1>2, <1>4, <3>1, <3>2 DEF OthersAreEmpty
      <4> QED
        BY <1>10, <3>1, <3>2, <4>1
    <3> QED
      BY <1>2, <3>1, <3>2 DEF NothingLost
  <2> QED
    BY <2>1, <2>2
<1> QED
  BY <1>11, <1>12, <1>13, <1>14, <1>16, <1>17, <1>18, <1>19 DEF SpacesOK

(* fork without frames for its child: the slot stays free and its table has no private page. *)
LEMMA DisciplinedForkUndone ==
    ASSUME DInv, ForkNoFrame, ForkUndone(Head(freequeue))
    PROVE  SpacesOK'
<1>0. CanCall /\ freequeue # <<>> /\ freequeue' = Append(Tail(freequeue), Head(freequeue))
  BY DEF ForkNoFrame
<1>1. /\ SpacesOK /\ Running /\ IInv /\ current \in Tasks /\ dir \in [Tasks -> Tasks]
  BY <1>0, Caller
<1>2. /\ OwnersLive /\ StacksMapped /\ StacksApart /\ EntriesAgree /\ OwnersHaveData
      /\ OthersAreEmpty /\ PIDsAgree /\ NothingLost /\ PT \in [Tasks -> AddressSpaces]
      /\ ustack \in [Tasks -> Pages] /\ PID \in [Tasks -> Int]
  BY <1>0, <1>1, Caller DEF SpacesOK, KTypeOK
<1> DEFINE u == Head(freequeue)
           touched == {p \in DataPages :
                          p - PAG_LOG_INIT_DATA < Cardinality(FreeFrames(phys_mem))}
<1>3. u \in Tasks /\ ~Live(u)
  <2>1. freequeue \in Seq(Tasks)
    BY <1>1 DEF IInv, TypeOK
  <2> QED
    BY <1>0, <2>1, DelFirst DEF Live, Free
<1>4. \A t \in Tasks : Live(t)' <=> Live(t)
  BY <1>0, <1>1, KeepsSlot
<1>5. /\ PT' = [PT EXCEPT ![u] = [p \in Pages |-> IF p \in touched THEN Empty ELSE PT[u][p]]]
      /\ phys_mem' = phys_mem /\ global_PID' = global_PID
      /\ dir' = [dir EXCEPT ![u] = u]
      /\ PID' = [PID EXCEPT ![u] = PID[current]]
      /\ ustack' = [ustack EXCEPT ![u] = ustack[current]]
  BY DEF ForkUndone, CopyIds
<1>6. touched \subseteq DataPages
  OBVIOUS
<1> HIDE DEF u, touched
<1>7. /\ \A t \in Tasks : t # u => dir'[t] = dir[t] /\ ustack'[t] = ustack[t] /\ PID'[t] = PID[t]
      /\ PID'[u] = PID[current]
  BY <1>1, <1>2, <1>3, <1>5
<1>8. \A t \in Tasks : Owner(t)' <=> Owner(t)
  BY <1>3, <1>4, <1>7 DEF Owner
<1>9. /\ \A p \in PrivatePages : p \in Pages /\ p # 0
      /\ \A p \in DataPages : p \in PrivatePages
      /\ \A p \in AllocPages : p \in PrivatePages
      /\ 0 \in Pages /\ 0 \notin touched
  BY <1>6, AddressSpace DEF PrivatePages
<1>10. /\ \A d \in Tasks, p \in PrivatePages :
             \/ PT'[d][p] = PT[d][p]
             \/ PT'[d][p] = Empty /\ PT[d][p].frame = 0
       /\ \A d \in Tasks : PT'[d][0] = PT[d][0]
  <2>1. \A d \in Tasks, p \in Pages :
           PT'[d][p] = IF d = u /\ p \in touched THEN Empty ELSE PT[d][p]
    BY <1>2, <1>3, <1>5
  <2>2. \A p \in PrivatePages : PT[u][p].frame = 0
    BY <1>2, <1>3 DEF OthersAreEmpty, Owner
  <2> QED
    BY <1>9, <2>1, <2>2
<1>11. Empty.frame = 0 /\ Empty.present = FALSE
  BY DEF Empty
<1>12. \A d \in Tasks, p \in PrivatePages : PT'[d][p].frame = PT[d][p].frame
  BY <1>10, <1>11
<1>13. EntriesAgree'
  <2> SUFFICES ASSUME NEW d \in Tasks, NEW p \in PrivatePages
               PROVE  PT'[d][p].present <=> PT'[d][p].frame # 0
    BY DEF EntriesAgree
  <2> QED
    BY <1>2, <1>10, <1>11 DEF EntriesAgree
<1>14. OwnersHaveData' /\ OthersAreEmpty'
  BY <1>2, <1>8, <1>9, <1>12 DEF OwnersHaveData, OthersAreEmpty
<1>15. OwnersLive' /\ StacksApart'
  <2>1. OwnersLive'
    BY <1>1, <1>2, <1>3, <1>4, <1>7, <1>8 DEF OwnersLive
  <2>2. StacksApart'
    BY <1>2, <1>3, <1>4, <1>7 DEF StacksApart
  <2> QED
    BY <2>1, <2>2
<1>16. StacksMapped'
  <2> SUFFICES ASSUME NEW t \in Tasks, Live(t)
               PROVE  \/ dir'[t] = t /\ ustack'[t] \in DataPages
                      \/ /\ dir'[t] # t
                         /\ \/ ustack'[t] \in AllocPages /\ PT'[dir'[t]][ustack'[t]].frame # 0
                            \/ ustack'[t] = 0 /\ PT'[dir'[t]][0].present
    BY <1>4 DEF StacksMapped
  <2>1. dir'[t] = dir[t] /\ ustack'[t] = ustack[t] /\ dir[t] \in Tasks
    BY <1>1, <1>3, <1>7
  <2> QED
    BY <1>2, <1>9, <1>10, <1>12, <2>1 DEF StacksMapped
<1>17. PIDsAgree'
  <2>1. \A t \in Tasks : PID'[t] <= global_PID'
    BY <1>1, <1>2, <1>3, <1>5, <1>7 DEF PIDsAgree
  <2>2. \A t, v \in Tasks : Live(t)' /\ Live(v)' => (dir'[t] = dir'[v] <=> PID'[t] = PID'[v])
    BY <1>2, <1>3, <1>4, <1>7 DEF PIDsAgree
  <2> QED
    BY <2>1, <2>2 DEF PIDsAgree
<1>18. NothingLost'
  <2> SUFFICES ASSUME NEW f \in phys_mem \ KernelPages
               PROVE  \/ \E p \in CodePages : f = CodeFrame(p)
                      \/ \E d \in Tasks, p \in PrivatePages : PT'[d][p].frame = f
    BY <1>5 DEF NothingLost, CodeFrame
  <2> QED
    BY <1>2, <1>12 DEF NothingLost
<1> QED
  BY <1>13, <1>14, <1>15, <1>16, <1>17, <1>18 DEF SpacesOK

(* createthread: the thread joins the process of its creator, with the page that alloc gave
   it as its stack or, where page 0 is mapped, that page. *)
LEMMA DisciplinedCreate ==
    ASSUME DInv, K_createthread, Running'
    PROVE  SpacesOK'
<1> DEFINE u == Head(freequeue)
<1>0. /\ StartChild /\ UNCHANGED global_PID
      /\ \/ CanAllocPage /\ alloc_k /\ CopyIds(u, mydir, PID[current], FirstUnused)
         \/ /\ PT[mydir][0].present /\ CopyIds(u, mydir, PID[current], 0)
            /\ PT' = PT /\ phys_mem' = phys_mem
  <2>1. ~NewTaskFaults
    BY DEF NewTaskFaults, Running
  <2> QED
    BY <2>1 DEF K_createthread
<1>1. /\ CanCall /\ freequeue # <<>> /\ freequeue' = Tail(freequeue)
      /\ SpacesOK /\ Running /\ IInv /\ current \in Tasks /\ Live(current)
      /\ dir[current] = mydir /\ mydir \in Tasks /\ Owner(mydir) /\ dir \in [Tasks -> Tasks]
  BY <1>0, Caller DEF StartChild
<1>2. /\ OwnersLive /\ StacksMapped /\ StacksApart /\ EntriesAgree /\ OwnersHaveData
      /\ OthersAreEmpty /\ PIDsAgree /\ NothingLost /\ PT \in [Tasks -> AddressSpaces]
      /\ ustack \in [Tasks -> Pages] /\ PID \in [Tasks -> Int]
  BY <1>1, Caller DEF SpacesOK, KTypeOK
<1>3. /\ u \in Tasks /\ u # current /\ ~Live(u) /\ u # mydir
      /\ \A t \in Tasks : Live(t)' <=> Live(t) \/ t = u
  BY <1>1, TakesSlot DEF Owner
<1>4. PICK s : /\ dir' = [dir EXCEPT ![u] = mydir] /\ PID' = [PID EXCEPT ![u] = PID[current]]
               /\ ustack' = [ustack EXCEPT ![u] = s]
               /\ \/ CanAllocPage /\ alloc_k /\ s = FirstUnused
                  \/ s = 0 /\ PT[mydir][0].present /\ PT' = PT /\ phys_mem' = phys_mem
  BY <1>0 DEF CopyIds
<1>5. /\ \A p \in PrivatePages : p \in Pages /\ p # 0
      /\ \A p \in DataPages : p \in PrivatePages /\ p \notin AllocPages
      /\ \A p \in AllocPages : p \in PrivatePages
      /\ 0 \in Pages
  BY AddressSpace DEF PrivatePages
<1>6. /\ EntriesAgree' /\ NothingLost'
      /\ \/ s \in AllocPages /\ PT[mydir][s].frame = 0
         \/ s = 0 /\ PT[mydir][0].present
      /\ \A e \in Tasks, p \in Pages :
            \/ PT'[e][p] = PT[e][p]
            \/ e = mydir /\ p = s /\ p \in AllocPages
      /\ s \in AllocPages => PT'[mydir][s].frame # 0
  <2>1. CASE CanAllocPage /\ alloc_k /\ s = FirstUnused
    <3>1. /\ EntriesAgree' /\ NothingLost'
          /\ s \in AllocPages /\ PT[mydir][s].frame = 0
          /\ \A e \in Tasks, p \in Pages :
                IF e = mydir /\ p = s THEN PT'[e][p].frame # 0 ELSE PT'[e][p] = PT[e][p]
      BY <1>1, <2>1, MapLosesNothing
    <3> QED
      BY <1>1, <1>5, <3>1
  <2>2. CASE s = 0 /\ PT[mydir][0].present /\ PT' = PT /\ phys_mem' = phys_mem
    <3>1. EntriesAgree' /\ NothingLost'
      BY <1>2, <2>2 DEF EntriesAgree, NothingLost, CodeFrame
    <3> QED
      BY <1>5, <2>2, <3>1
  <2> QED
    BY <1>4, <2>1, <2>2
<1> HIDE DEF u
<1>7. /\ \A t \in Tasks : /\ dir'[t] = IF t = u THEN mydir ELSE dir[t]
                          /\ PID'[t] = IF t = u THEN PID[current] ELSE PID[t]
                          /\ ustack'[t] = IF t = u THEN s ELSE ustack[t]
  BY <1>1, <1>2, <1>4
<1>8. \A t \in Tasks : Owner(t)' <=> Owner(t)
  BY <1>3, <1>7 DEF Owner
<1>9. OwnersLive'
  BY <1>1, <1>2, <1>3, <1>7, <1>8 DEF OwnersLive
<1>10. OwnersHaveData' /\ OthersAreEmpty'
  <2>1. OwnersHaveData'
    <3>1. \A d \in Tasks, p \in DataPages : PT'[d][p] = PT[d][p]
      BY <1>5, <1>6
    <3> QED
      BY <1>2, <1>8, <3>1 DEF OwnersHaveData
  <2>2. OthersAreEmpty'
    <3>1. \A d \in Tasks, p \in PrivatePages : d # mydir => PT'[d][p] = PT[d][p]
      BY <1>5, <1>6
    <3> QED
      BY <1>1, <1>2, <1>8, <3>1 DEF OthersAreEmpty
  <2> QED
    BY <2>1, <2>2
<1>11. \A d \in Tasks, p \in AllocPages : PT[d][p].frame # 0 => PT'[d][p].frame # 0
  BY <1>5, <1>6
<1>12. StacksMapped'
  <2> SUFFICES ASSUME NEW t \in Tasks, Live(t) \/ t = u
               PROVE  \/ dir'[t] = t /\ ustack'[t] \in DataPages
                      \/ /\ dir'[t] # t
                         /\ \/ ustack'[t] \in AllocPages /\ PT'[dir'[t]][ustack'[t]].frame # 0
                            \/ ustack'[t] = 0 /\ PT'[dir'[t]][0].present
    BY <1>3 DEF StacksMapped
  <2>1. \A d \in Tasks : PT'[d][0] = PT[d][0]
    BY <1>5, <1>6
  <2>2. CASE t = u
    BY <1>1, <1>3, <1>6, <1>7, <2>1, <2>2
  <2>3. CASE t # u
    <3>1. dir'[t] = dir[t] /\ ustack'[t] = ustack[t] /\ dir[t] \in Tasks /\ Live(t)
      BY <1>1, <1>7, <2>3
    <3> QED
      BY <1>2, <1>11, <2>1, <3>1 DEF StacksMapped
  <2> QED
    BY <2>2, <2>3
<1>13. StacksApart'
  <2>1. \A t \in Tasks : Live(t) /\ dir[t] = mydir => ustack[t] # s \/ s = 0
    BY <1>2, <1>5, <1>6 DEF StacksMapped
  <2> QED
    BY <1>2, <1>3, <1>7, <2>1 DEF StacksApart
<1>14. PIDsAgree'
  <2>1. \A t \in Tasks : PID'[t] <= global_PID'
    BY <1>0, <1>1, <1>2, <1>7 DEF PIDsAgree
  <2>2. \A t, v \in Tasks : Live(t)' /\ Live(v)' => (dir'[t] = dir'[v] <=> PID'[t] = PID'[v])
    <3> SUFFICES ASSUME NEW t \in Tasks, NEW v \in Tasks, Live(t)', Live(v)'
                 PROVE  dir'[t] = dir'[v] <=> PID'[t] = PID'[v]
      OBVIOUS
    <3> DEFINE a == IF t = u THEN current ELSE t  b == IF v = u THEN current ELSE v
    <3>1. /\ a \in Tasks /\ Live(a) /\ dir'[t] = dir[a] /\ PID'[t] = PID[a]
          /\ b \in Tasks /\ Live(b) /\ dir'[v] = dir[b] /\ PID'[v] = PID[b]
      BY <1>1, <1>3, <1>7
    <3> HIDE DEF a, b
    <3> QED
      BY <1>2, <3>1 DEF PIDsAgree
  <2> QED
    BY <2>1, <2>2 DEF PIDsAgree
<1> QED
  BY <1>6, <1>9, <1>10, <1>12, <1>13, <1>14 DEF SpacesOK

(* The spaces when init starts: its own, and tables with nothing in them. *)
LEMMA InitSpaces == KInit => SpacesOK
<1> SUFFICES ASSUME KInit PROVE SpacesOK
  OBVIOUS
<1>1. /\ init_task \in Tasks
      /\ \A t \in Tasks : Live(t) <=> t = init_task
      /\ \A t \in Tasks : dir[t] = t /\ ustack[t] = FIRST_ALLOC - 1 /\ PID[t] <= global_PID
  <2>1. init_task \in Tasks
    BY SizesAssumption DEF init_task, Tasks
  <2> QED
    BY <2>1, OnlyInitLives DEF KInit
<1>2. \A t \in Tasks : Owner(t) <=> t = init_task
  BY <1>1 DEF Owner
<1>3. /\ \A p \in PrivatePages : p \in Pages /\ p \notin KernelPages /\ p \notin CodePages
      /\ \A p \in DataPages : p \in PrivatePages
      /\ FIRST_ALLOC - 1 \in DataPages
  BY AddressSpace DEF PrivatePages
<1>4. \A d \in Tasks, p \in PrivatePages :
         PT[d][p] = IF d = init_task /\ p \in DataPages THEN Mapped(CodeFrame(p)) ELSE Empty
  <2>1. \A d \in Tasks, p \in Pages :
           PT[d][p] = IF d = init_task /\ p \in CodePages \cup DataPages
                      THEN Mapped(CodeFrame(p)) ELSE KernelTable[p]
    BY DEF KInit, CodeFrame
  <2>2. \A p \in PrivatePages : KernelTable[p] = Empty
    BY <1>3 DEF KernelTable
  <2> QED
    BY <1>3, <2>1, <2>2
<1>5. \A p \in DataPages : CodeFrame(p) # 0
  <2>1. \A p \in DataPages : p - PAG_LOG_INIT_CODE \in 0 .. NUM_PAG_CODE + NUM_PAG_DATA - 1
    BY AddressSpace
  <2> QED
    BY <2>1, InitialFrames, PoolFrames DEF CodeFrame
<1>6. /\ \A f : Mapped(f).frame = f /\ Mapped(f).present = TRUE
      /\ Empty.frame = 0 /\ Empty.present = FALSE
  BY DEF Mapped, Empty
<1>7. EntriesAgree /\ OwnersHaveData /\ OthersAreEmpty
  <2>1. EntriesAgree
    BY <1>4, <1>5, <1>6 DEF EntriesAgree
  <2>2. OwnersHaveData
    BY <1>2, <1>3, <1>4, <1>5, <1>6 DEF OwnersHaveData
  <2>3. OthersAreEmpty
    BY <1>2, <1>4, <1>6 DEF OthersAreEmpty
  <2> QED
    BY <2>1, <2>2, <2>3
<1>8. OwnersLive /\ StacksMapped /\ StacksApart /\ PIDsAgree
  BY <1>1, <1>2, <1>3 DEF OwnersLive, StacksMapped, StacksApart, PIDsAgree
<1>9. NothingLost
  <2> SUFFICES ASSUME NEW f \in phys_mem \ KernelPages
               PROVE  \/ \E p \in CodePages : f = CodeFrame(p)
                      \/ \E d \in Tasks, p \in PrivatePages : PT[d][p].frame = f
    BY DEF NothingLost
  <2>1. f \in Range(InitFrames)
    BY DEF KInit
  <2>2. PICK i \in 0 .. NUM_PAG_CODE + NUM_PAG_DATA - 1 : f = InitFrames[i]
    BY <2>1, InitialFrames DEF Range
  <2> DEFINE p == i + PAG_LOG_INIT_CODE
  <2>3. p \in CodePages \cup DataPages /\ p - PAG_LOG_INIT_CODE = i
    BY PagesAssumption DEF CodePages, DataPages, PAG_LOG_INIT_CODE, PAG_LOG_INIT_DATA
  <2>4. f = CodeFrame(p)
    BY <2>2, <2>3 DEF CodeFrame
  <2> HIDE DEF p
  <2> QED
    BY <1>1, <1>3, <1>4, <1>6, <2>3, <2>4
<1> QED
  BY <1>7, <1>8, <1>9 DEF SpacesOK

(* Every handler keeps the spaces of disciplined programs as SpacesOK says. *)
LEMMA SpacesStep ==
    ASSUME Disciplined, DInv, [KNext]_kvars, Running'
    PROVE  SpacesOK'
<1>1. CASE K_tick \/ K_yield \/ K_sem \/ K_wait_return \/ K_page_fault \/ UNCHANGED kvars
  <2>1. /\ PT' = PT /\ phys_mem' = phys_mem /\ dir' = dir /\ ustack' = ustack
        /\ PID' = PID /\ global_PID' = global_PID
        /\ \A t \in Tasks : Live(t)' <=> Live(t)
        /\ SpacesOK
    BY <1>1, MemoryAlone DEF DInv
  <2>2. \A t \in Tasks : Owner(t)' <=> Owner(t)
    BY <2>1 DEF Owner
  <2>3. /\ OwnersLive /\ StacksMapped /\ StacksApart /\ EntriesAgree /\ OwnersHaveData
        /\ OthersAreEmpty /\ PIDsAgree /\ NothingLost /\ dir \in [Tasks -> Tasks]
    BY <2>1 DEF SpacesOK, DInv, KInv, MemoryOK, KTypeOK
  <2>4. OwnersLive' /\ StacksMapped' /\ StacksApart'
    BY <2>1, <2>2, <2>3 DEF OwnersLive, StacksMapped, StacksApart
  <2>5. EntriesAgree' /\ NothingLost' /\ OwnersHaveData' /\ OthersAreEmpty'
    BY <2>1, <2>2, <2>3
    DEF EntriesAgree, NothingLost, CodeFrame, OwnersHaveData, OthersAreEmpty
  <2>6. PIDsAgree'
    BY <2>1, <2>3 DEF PIDsAgree
  <2> QED
    BY <2>4, <2>5, <2>6 DEF SpacesOK
<1>2. CASE K_fork
  BY <1>2, DisciplinedForkDone, DisciplinedForkUndone DEF K_fork
<1>3. CASE K_exit
  BY <1>3, DisciplinedExit DEF K_exit, LeaveForGood
<1>4. CASE K_alloc \/ K_dealloc
  BY <1>4, DisciplinedAlloc DEF K_alloc, K_dealloc
<1>5. CASE K_createthread
  BY <1>5, DisciplinedCreate
<1>6. CASE K_terminatethread
  BY <1>6, DisciplinedTerminate DEF K_terminatethread, LeaveForGood
<1> QED
  BY <1>1, <1>2, <1>3, <1>4, <1>5, <1>6 DEF KNext

LEMMA DInvariant ==
    ASSUME Disciplined
    PROVE  KSpec => []DInv
<1>1. KInit => DInv
  BY InitMemory, InitSpaces DEF DInv
<1>2. KInv /\ [KNext]_kvars => KInv'
  <2>1. KInv => IInv
    BY DEF KInv
  <2> QED
    BY <2>1, MemoryStep, StepOfSched, NextInv DEF KInv
<1>3. DInv /\ [KNext]_kvars => DInv'
  BY <1>2, SpacesStep DEF DInv
<1> QED
  BY <1>1, <1>3, PTL DEF KSpec

(* Memory comes back: while all programs are disciplined, a used frame above the kernel's is
   code or is mapped by a live task, after whatever sequence of fork, exit and thread calls. *)
THEOREM MemoryComesBack ==
    ASSUME Disciplined
    PROVE  KSpec => []NoLeak
BY DInvImplies, DInvariant, PTL

(* While all programs are disciplined, tasks share an address space exactly when they are
   threads of one process, and a live task has its stack and its data. *)
THEOREM ProcessesHaveTheirSpaces ==
    ASSUME Disciplined
    PROVE  KSpec => []SpacesAreProcesses
BY DInvImplies, DInvariant, PTL

(* While all programs are disciplined, threads have stacks of their own, but for those that
   sys_createthread had no page for. *)
THEOREM ThreadsHaveTheirStacks ==
    ASSUME Disciplined
    PROVE  KSpec => []StacksDisjoint
BY DInvImplies, DInvariant, PTL

(* While all programs are disciplined, the kernel or a program touches an unmapped page only
   when sys_createthread has no page for the stack: fork can copy its caller's data. *)
THEOREM FaultsNeedFullMemory ==
    ASSUME Disciplined
    PROVE  KSpec => FaultsOnlyWithoutFrames
<1>1. DInv /\ [KNext]_kvars =>
          [fault' = "page" /\ fault # "page" => K_createthread /\ ~CanAllocPage]_kvars
  <2> SUFFICES ASSUME DInv, KNext, fault' = "page", fault # "page"
               PROVE  K_createthread /\ ~CanAllocPage
    OBVIOUS
  <2>1. ~(K_tick \/ K_yield \/ K_exit \/ K_terminatethread)
    BY DEF K_tick, K_yield, K_exit, K_terminatethread, ClockTick, sys_yield, LeaveForGood,
           force_task_switch, sched_next_rr, task_switch
  <2>2. ~(K_sem \/ K_wait_return)
    BY DEF K_sem, K_wait_return, SemCall, SemWaitReturn, sys_sem_init, sys_sem_wait,
           sys_sem_signal, sys_sem_destroy, WaitPass, WaitBlock, SignalPost, SignalWake,
           sched_next_rr, task_switch
  <2>3. ~(K_alloc \/ K_dealloc)
    BY DEF K_alloc, K_dealloc, vars
  <2>4. ~StartChild
    BY DEF StartChild
  <2>5. ~K_fork
    BY <2>4, DisciplinedForkTables DEF K_fork, ForkNoFrame
  <2>6. ~K_page_fault
    <3> SUFFICES ASSUME CanCall PROVE StackMapped /\ DataMapped
      BY DEF K_page_fault, page_fault
    <3>1. /\ SpacesOK /\ Running /\ current \in Tasks /\ Live(current) /\ dir[current] = mydir
      BY Caller
    <3> QED
      BY <3>1, DInvImplies DEF SpacesAreProcesses, StackMapped, DataMapped
  <2>7. K_createthread
    BY <2>1, <2>2, <2>3, <2>5, <2>6 DEF KNext
  <2> QED
    BY <2>4, <2>7 DEF K_createthread
<1> QED
  BY <1>1, DInvariant, PTL DEF KSpec, FaultsOnlyWithoutFrames
=============================================================================
