------------------------------- MODULE Kernel -------------------------------
(***************************************************************************)
(* Processes, threads and their memory: module Sched composed with the     *)
(* frame map phys_mem, the page tables and the process identifiers         *)
(* (zeos/mm.c, and fork, exit, alloc, dealloc, createthread and            *)
(* terminatethread of zeos/sys.c).  Every action is the scheduler's action *)
(* for the same handler, with the outcome of its allocations decided by    *)
(* the frames there are, conjoined with what the handler does to memory.   *)
(*                                                                         *)
(* A page table belongs to a slot of the task array, not to a process: a   *)
(* thread's task_struct points (dir) to the table of the slot whose        *)
(* process created it.  Contents of frames and the TLB are left out.       *)
(***************************************************************************)
EXTENDS Sched

CONSTANTS
    TOTAL_PAGES,        \* frames, and pages of an address space
    NUM_PAG_KERNEL,     \* the first pages, identity-mapped in every address space
    NUM_PAG_CODE,       \* then the code of the program, shared by its children
    NUM_PAG_DATA,       \* then its data and stack, private
    GuardPages,         \* the kernel pages on both sides of the task array
    MAX_PID,            \* bound: the last PID that the model gives out
    Calls               \* the calls that the programs of this instance make

ASSUME PagesAssumption ==
    /\ NUM_PAG_KERNEL \in Nat \ {0} /\ NUM_PAG_CODE \in Nat \ {0} /\ NUM_PAG_DATA \in Nat \ {0}
    /\ TOTAL_PAGES \in Nat /\ TOTAL_PAGES >= NUM_PAG_KERNEL + NUM_PAG_CODE + 2 * NUM_PAG_DATA
    /\ TOTAL_PAGES >= NUM_PAG_KERNEL + 2 * (NUM_PAG_CODE + NUM_PAG_DATA)
    /\ GuardPages \subseteq 1 .. NUM_PAG_KERNEL - 1

(***************************************************************************)
(* "fork_bare", "exit_last" and "dealloc_own" are fork, exit and dealloc   *)
(* as disciplined programs make them: the first task of a process forks    *)
(* while its address space has only CODE and DATA, its last task exits     *)
(* when that is so again, and a live thread's stack is not deallocated.    *)
(***************************************************************************)
AllCalls == {"yield", "fork", "fork_bare", "exit", "exit_last", "alloc", "dealloc",
             "dealloc_own", "createthread", "terminatethread", "sem"}

DisciplinedCalls == AllCalls \ {"fork", "exit", "dealloc"}

ASSUME CallsAssumption == Calls \subseteq AllCalls /\ MAX_PID \in Nat

Pages == 0 .. TOTAL_PAGES - 1
KernelPages == 0 .. NUM_PAG_KERNEL - 1
PAG_LOG_INIT_CODE == NUM_PAG_KERNEL
PAG_LOG_INIT_DATA == NUM_PAG_KERNEL + NUM_PAG_CODE
CodePages == PAG_LOG_INIT_CODE .. PAG_LOG_INIT_DATA - 1
DataPages == PAG_LOG_INIT_DATA .. PAG_LOG_INIT_DATA + NUM_PAG_DATA - 1
FIRST_ALLOC == PAG_LOG_INIT_DATA + NUM_PAG_DATA
AllocPages == FIRST_ALLOC .. TOTAL_PAGES - 1

(* The frames alloc_frame tries: every second one after the kernel's. *)
Pool == {f \in NUM_PAG_KERNEL .. TOTAL_PAGES - 1 : (f - NUM_PAG_KERNEL) % 2 = 0}

VARIABLES
    phys_mem,   \* the set of frames marked USED_FRAME
    PT,         \* PT[d][p]: entry of page p in pagusr_table[d]
    dir,        \* dir[t]: the slot whose tables task[t].dir_pages_baseAddr points to
    ustack,     \* the page the user stack pointer of the task is in
    PID,        \* task[t].PID
    global_PID

mvars == <<phys_mem, PT, dir, ustack, PID, global_PID>>
kvars == <<vars, mvars>>

-----------------------------------------------------------------------------
(* mm.c *)

Empty == [frame |-> 0, present |-> FALSE]
Mapped(f) == [frame |-> f, present |-> TRUE]    \* what set_ss_pag writes

get_frame(d, p) == PT[d][p].frame

(* What n calls of alloc_frame return when the frames "used" are used: the free frames of the
   pool in increasing order. *)
FreeFrames(used) == Pool \ used
alloc_frames(used, n) ==
    [i \in 0 .. n - 1 |->
        CHOOSE f \in FreeFrames(used) : Cardinality({g \in FreeFrames(used) : g < f}) = i]
CanAlloc(n) == Cardinality(FreeFrames(phys_mem)) >= n
alloc_frame == alloc_frames(phys_mem, 1)[0]

(* free_frame on each of fs; the comparison with NUM_PAG_KERNEL is strict. *)
Freed(fs) == {f \in fs : f > NUM_PAG_KERNEL /\ f < TOTAL_PAGES}

(* init_table_pages *)
KernelTable ==
    [p \in Pages |-> IF p \in KernelPages \ {0}
                     THEN [frame |-> p, present |-> p \notin GuardPages]
                     ELSE Empty]

(* init_frames, then set_user_pages for the init process. *)
InitFrames == alloc_frames(KernelPages, NUM_PAG_CODE + NUM_PAG_DATA)

KInit ==
    /\ Init
    /\ phys_mem = KernelPages \cup Range(InitFrames)
    /\ PT = [d \in Tasks |->
                IF d = init_task
                THEN [p \in Pages |-> IF p \in CodePages \cup DataPages
                                      THEN Mapped(InitFrames[p - PAG_LOG_INIT_CODE])
                                      ELSE KernelTable[p]]
                ELSE KernelTable]
    /\ dir = [t \in Tasks |-> t]
    /\ ustack = [t \in Tasks |-> FIRST_ALLOC - 1]       \* USER_ESP is in the last data page
    /\ PID = [t \in Tasks |-> IF t = idle_task THEN 0 ELSE IF t = init_task THEN 1 ELSE -1]
    /\ global_PID = 1000

mydir == dir[current]           \* get_PT(current())

Live(t) == ~Free(t) /\ t # idle_task
SharedSpace == \E t \in Tasks \ {current} : Live(t) /\ dir[t] = mydir

(* The current program can run: its stack is mapped.  Every library call pushes on it. *)
StackMapped == PT[mydir][ustack[current]].present
DataMapped == \A p \in DataPages : PT[mydir][p].present
MayCall(call) == call \in Calls /\ StackMapped

(* The pages alloc_k may take, and whether nothing but CODE and DATA is mapped. *)
Unused == {p \in AllocPages : get_frame(mydir, p) = 0}
BareSpace == Unused = AllocPages
MayFork == MayCall("fork") \/ (MayCall("fork_bare") /\ BareSpace /\ ustack[current] \in DataPages)
MayExit == MayCall("exit") \/ (MayCall("exit_last") /\ ~SharedSpace /\ BareSpace)

-----------------------------------------------------------------------------
(* fork and exit *)

(* The fields that copy_data brings into slot u from current. *)
CopyIds(u, newdir, newpid, newstack) ==
    /\ dir' = [dir EXCEPT ![u] = newdir]
    /\ PID' = [PID EXCEPT ![u] = newpid]
    /\ ustack' = [ustack EXCEPT ![u] = newstack]

(* Mutant of the child's page table: the last page of DATA, the stack, is not mapped. *)
ChildTable_NoStack(u, new) ==
    [p \in Pages |->
        CASE p \in DataPages \ {FIRST_ALLOC - 1} -> Mapped(new[p - PAG_LOG_INIT_DATA])
          [] p \in KernelPages \cup CodePages -> Mapped(get_frame(mydir, p))
          [] OTHER -> PT[u][p]]

(* The page table of child slot u: new frames for DATA, the parent's kernel and code. *)
ChildTable(u, new) ==
    [p \in Pages |->
        CASE p \in DataPages -> Mapped(new[p - PAG_LOG_INIT_DATA])
          [] p \in KernelPages \cup CodePages -> Mapped(get_frame(mydir, p))
          [] OTHER -> PT[u][p]]

(* The pages through which sys_fork reaches the child's DATA, unmapped when it is done. *)
TempPages == {p + NUM_PAG_DATA : p \in DataPages}

(* Mutant of fork: the child keeps the PID of its parent. *)
ForkDone_SamePid(u) ==
    LET new == alloc_frames(phys_mem, NUM_PAG_DATA)
    IN  /\ StartChild
        /\ phys_mem' = phys_mem \cup Range(new)
        /\ PT' = [PT EXCEPT ![u] = ChildTable(u, new)]
        /\ global_PID' = global_PID + 1
        /\ CopyIds(u, u, PID[current], ustack[current])

(* fork with the frames for its child.  The child has its parent's user stack pointer, into
   whatever its own table has there: a copy if the stack is in DATA, page 0 as its parent, and
   of the dynamic pages those that the slot's last process left behind, or all those of the
   parent if an orphan forks into the slot whose table it uses.  If the parent's DATA is not
   mapped, because another thread of its address space has exited, the kernel faults on the
   first page it copies. *)
ForkDone(u) ==
    LET new == alloc_frames(phys_mem, NUM_PAG_DATA)
        PT1 == [PT EXCEPT ![u] = ChildTable(u, new)]
    IN  /\ phys_mem' = phys_mem \cup Range(new)
        /\ \/ /\ \A p \in DataPages : PT1[mydir][p].present
              /\ StartChild
              /\ PT' = [PT1 EXCEPT ![mydir] =
                           [p \in Pages |-> IF p \in TempPages THEN Empty ELSE PT1[mydir][p]]]
              /\ global_PID' = global_PID + 1
              /\ CopyIds(u, u, global_PID + 1, ustack[current])
           \/ /\ \E p \in DataPages : ~PT1[mydir][p].present
              /\ NewTaskFaults
              /\ PT' = [PT1 EXCEPT ![mydir][FIRST_ALLOC] = Mapped(new[0])]
              /\ CopyIds(u, u, PID[current], ustack[current])
              /\ UNCHANGED global_PID

(* Mutant of the -EAGAIN path: the frames it got stay used. *)
ForkUndone_Leak(u) ==
    /\ phys_mem' = phys_mem \cup FreeFrames(phys_mem)
    /\ CopyIds(u, u, PID[current], ustack[current])
    /\ UNCHANGED <<PT, global_PID>>

(* -EAGAIN: the frames are given back and the entries they were put in are deleted. *)
ForkUndone(u) ==
    LET touched == {p \in DataPages :
                       p - PAG_LOG_INIT_DATA < Cardinality(FreeFrames(phys_mem))}
    IN  /\ PT' = [PT EXCEPT ![u] = [p \in Pages |-> IF p \in touched THEN Empty ELSE PT[u][p]]]
        /\ CopyIds(u, u, PID[current], ustack[current])
        /\ UNCHANGED <<phys_mem, global_PID>>

K_fork ==
    /\ MayFork
    /\ global_PID < MAX_PID
    /\ CanCall /\ freequeue # <<>>
    /\ \/ /\ CanAlloc(NUM_PAG_DATA)
          /\ ForkDone(Head(freequeue))
       \/ /\ ~CanAlloc(NUM_PAG_DATA)
          /\ ForkNoFrame
          /\ ForkUndone(Head(freequeue))

(* Mutants of exit: the entries of the freed frames are not deleted; CODE goes with DATA. *)
K_exit_StaleMap ==
    /\ MayExit
    /\ LeaveForGood
    /\ phys_mem' = phys_mem \ Freed({get_frame(mydir, p) : p \in DataPages})
    /\ PID' = [PID EXCEPT ![current] = -1]
    /\ UNCHANGED <<PT, dir, ustack, global_PID>>

K_exit_Code ==
    LET freed == DataPages \cup CodePages
    IN  /\ MayExit
        /\ LeaveForGood
        /\ phys_mem' = phys_mem \ Freed({get_frame(mydir, p) : p \in freed})
        /\ PT' = [PT EXCEPT ![mydir] = [p \in Pages |-> IF p \in freed THEN Empty ELSE PT[mydir][p]]]
        /\ PID' = [PID EXCEPT ![current] = -1]
        /\ UNCHANGED <<dir, ustack, global_PID>>

K_exit ==
    /\ MayExit
    /\ LeaveForGood
    /\ phys_mem' = phys_mem \ Freed({get_frame(mydir, p) : p \in DataPages})
    /\ PT' = [PT EXCEPT ![mydir] =
                 [p \in Pages |-> IF p \in DataPages THEN Empty ELSE PT[mydir][p]]]
    /\ PID' = [PID EXCEPT ![current] = -1]
    /\ UNCHANGED <<dir, ustack, global_PID>>

-----------------------------------------------------------------------------
(* alloc, dealloc and threads *)

FirstUnused == CHOOSE p \in Unused : \A q \in Unused : p <= q
CanAllocPage == Unused # {} /\ CanAlloc(1)

(* alloc_k when it succeeds, and dealloc_k(p). *)
alloc_k ==
    /\ phys_mem' = phys_mem \cup {alloc_frame}
    /\ PT' = [PT EXCEPT ![mydir][FirstUnused] = Mapped(alloc_frame)]

Deallocable(p) == p \in AllocPages /\ get_frame(mydir, p) # 0

(* Mutant of dealloc_k: the frame is freed and stays mapped. *)
dealloc_k_StaleMap(p) ==
    /\ phys_mem' = phys_mem \ Freed({get_frame(mydir, p)})
    /\ UNCHANGED PT

dealloc_k(p) ==
    /\ phys_mem' = phys_mem \ Freed({get_frame(mydir, p)})
    /\ PT' = [PT EXCEPT ![mydir][p] = Empty]

K_alloc ==
    /\ CanCall
    /\ MayCall("alloc")
    /\ CanAllocPage
    /\ alloc_k
    /\ UNCHANGED <<vars, dir, ustack, PID, global_PID>>

StackPages == {ustack[t] : t \in {u \in Tasks : Live(u) /\ dir[u] = mydir}}

K_dealloc ==
    /\ CanCall
    /\ \E p \in Pages :
          /\ MayCall("dealloc") \/ (MayCall("dealloc_own") /\ p \notin StackPages)
          /\ Deallocable(p)
          /\ dealloc_k(p)
    /\ UNCHANGED <<vars, dir, ustack, PID, global_PID>>

(* Mutant of createthread: the thread runs on its creator's stack. *)
K_createthread_SameStack ==
    /\ MayCall("createthread")
    /\ CanAllocPage
    /\ StartChild
    /\ alloc_k
    /\ CopyIds(Head(freequeue), mydir, PID[current], ustack[current])
    /\ UNCHANGED global_PID

(* sys_createthread.  Without a page for the user stack its three words go through address
   -ENOMEM, which wraps to page 0: a fault in the address space init was given, a write to
   frame 0 and a thread with its stack there in one made by fork. *)
K_createthread ==
    /\ MayCall("createthread")
    /\ \/ /\ CanAllocPage
          /\ StartChild
          /\ alloc_k
          /\ CopyIds(Head(freequeue), mydir, PID[current], FirstUnused)
       \/ /\ ~CanAllocPage
          /\ IF PT[mydir][0].present THEN StartChild ELSE NewTaskFaults
          /\ CopyIds(Head(freequeue), mydir, PID[current],
                     IF PT[mydir][0].present THEN 0 ELSE ustack[current])
          /\ UNCHANGED <<phys_mem, PT>>
    /\ UNCHANGED global_PID

K_terminatethread ==
    /\ MayCall("terminatethread")
    /\ Deallocable(ustack[current])
    /\ LeaveForGood
    /\ dealloc_k(ustack[current])
    /\ UNCHANGED <<dir, ustack, PID, global_PID>>

-----------------------------------------------------------------------------
K_sem == MayCall("sem") /\ SemCall /\ UNCHANGED mvars
K_yield == MayCall("yield") /\ sys_yield /\ UNCHANGED mvars

(* Programs touch no other unmapped pages than their own stack and data. *)
K_page_fault == ~(StackMapped /\ DataMapped) /\ page_fault /\ UNCHANGED mvars

K_tick == ClockTick /\ UNCHANGED mvars
K_wait_return == SemWaitReturn /\ UNCHANGED mvars

KNext ==
    \/ K_tick \/ K_yield \/ K_fork \/ K_exit
    \/ K_alloc \/ K_dealloc \/ K_createthread \/ K_terminatethread
    \/ K_sem \/ K_wait_return \/ K_page_fault

KSpec == KInit /\ [][KNext]_kvars

-----------------------------------------------------------------------------
(* Properties *)

PrivatePages == DataPages \cup AllocPages
PrivateMaps == {m \in Tasks \X PrivatePages : get_frame(m[1], m[2]) # 0}

(* A frame is the private memory of one page of one address space: no sequence of fork, exit,
   alloc, dealloc and thread calls, in whatever order and by whatever tasks, makes a frame
   back two pages, except while fork copies a page. *)
NoFrameTwice ==
    Running =>
    \A m, n \in PrivateMaps : get_frame(m[1], m[2]) = get_frame(n[1], n[2]) => m = n

(* The frame behind a private page is marked used, so alloc_frame cannot hand it out again,
   and is not one of the kernel's. *)
MappedIsUsed ==
    \A m \in PrivateMaps : get_frame(m[1], m[2]) \in phys_mem \ KernelPages

(* Programs share their code and nothing else: every live task runs the frames that init was
   loaded in, which stay used and never become private memory. *)
CodeIsKept ==
    /\ \A t \in Tasks : Live(t) =>
          \A p \in CodePages : PT[dir[t]][p] = Mapped(InitFrames[p - PAG_LOG_INIT_CODE])
    /\ \A p \in CodePages :
          LET f == InitFrames[p - PAG_LOG_INIT_CODE]
          IN  f \in phys_mem /\ \A m \in PrivateMaps : get_frame(m[1], m[2]) # f

(* With disciplined programs, memory comes back: a used frame above the kernel's is code or
   is mapped by a live task. *)
NoLeak ==
    Running =>
    \A f \in phys_mem \ KernelPages :
        \/ \E p \in CodePages : f = InitFrames[p - PAG_LOG_INIT_CODE]
        \/ \E t \in Tasks : Live(t) /\ \E p \in PrivatePages : get_frame(dir[t], p) = f

(* With disciplined programs, two live tasks share an address space exactly when they are
   threads of one process, and a live task has its stack and its data. *)
SpacesAreProcesses ==
    Running =>
    /\ \A t, u \in Tasks : Live(t) /\ Live(u) => (dir[t] = dir[u] <=> PID[t] = PID[u])
    /\ \A t \in Tasks : Live(t) => /\ PT[dir[t]][ustack[t]].present
                                  /\ \A p \in DataPages : PT[dir[t]][p].present

(* With disciplined programs nobody ever touches an unmapped page, and the one way for the
   kernel to do so is sys_createthread when it has no page for the thread's stack. *)
FaultsOnlyWithoutFrames ==
    [][fault' = "page" /\ fault # "page" => K_createthread /\ ~CanAllocPage]_kvars

(* Threads of one address space have stacks of their own, but for those that sys_createthread
   had no page for: in a process made by fork they all get page 0. *)
StacksDisjoint ==
    Running =>
    \A t, u \in Tasks : Live(t) /\ Live(u) /\ t # u /\ dir[t] = dir[u] =>
        ustack[t] # ustack[u] \/ ustack[t] = 0

-----------------------------------------------------------------------------
(* What comments of the source say, and the code does not do *)

(* "We will use TOTAL_PAGES-1 as a temp logical page to map to" (sys.c): fork changes no
   other entry of its caller's page table. *)
ForkKeepsParentPages ==
    [][ K_fork /\ Head(freequeue) # mydir =>
        \A p \in Pages \ {TOTAL_PAGES - 1} : PT'[mydir][p] = PT[mydir][p] ]_kvars

(* "Deny access to the child's memory space" (sys.c): after fork no other live task maps a
   private frame of the child. *)
ChildIsPrivate ==
    [][ K_fork /\ Running' =>
        \A c, t \in Tasks :
            Ready(c)' /\ ~Ready(c) /\ Live(t)' /\ t # c => dir'[t] # dir'[c] ]_kvars
=============================================================================
