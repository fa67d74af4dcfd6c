# ZeOS in TLA+

ZeOS (`src/zeos`) is a small 32-bit x86 kernel that boots in Bochs and runs one
user program, an 8-bit Space Invaders (`user.c`). It has processes (`fork`,
`exit`), threads (`createthread`, `terminatethread`), dynamic pages (`alloc`,
`dealloc`), semaphores, a keyboard buffer, a colour screen and per-process
statistics. This directory models its scheduler, semaphores, processes, threads,
memory, keyboard, lists, statistics and console, and the two threads and the rules
of its game, in TLA+, checks the models with TLC, and proves all their safety
properties with TLAPS, for every number of tasks, semaphores, pages, nodes and buffer
entries and every size of the screen, of its blocks and words, and of the game's board.

## 1. Inventory

| component | state | operations | what makes it hard |
|---|---|---|---|
| Scheduler (`sched.c`, `kernel-utils.S`, clock part of `interrupt.c`) | `freequeue`, `readyqueue`, `current()`, `remaining_quantum`, `task[t].state`, `register_esp` | `schedule` on each tick, `force_task_switch`, `sched_next_rr`, `task_switch` | one list node per task_struct; `state` decides whether it is unlinked; idle is outside the queues; a task may switch to itself |
| Semaphores (`sys.c` 408-480) | `list_sem[s]` (`isInit`, `counter`, `blocked`), `task[t].destroyed` | `sem_init`, `sem_wait`, `sem_signal`, `sem_destroy` | `sem_wait` is cut in two by a task switch; sign of the counter against length of the queue; destroy under waiters, re-creation before they resume |
| Processes and threads (`sys.c` 62-154, 194-214, 305-370) | the task array: `PID`, `dir_pages_baseAddr`, the user stack pointer in the saved context | `fork`, `exit`, `createthread`, `terminatethread`, `yield` | running out of frames half way; slots reused while threads still use the slot's page table |
| Memory (`mm.c`, `sys.c` 244-303) | `phys_mem`, `pagusr_table`, `dir_pages` | `alloc_frame`, `free_frame`, `set_ss_pag`, `del_ss_pag`, `alloc_k`, `dealloc_k` | frames shared or leaked, temporary mappings, a strict comparison in `free_frame` |
| Lists (`list.c`) | `next`, `prev` of every `list_head` | `INIT_LIST_HEAD`, `list_add_tail`, `list_del`, `list_empty` | preconditions nobody tests |
| Keyboard (`io.c` 102-129, `interrupt.c` 44-51, `sys_get_key`) | circular buffer, `Head`, `Tail`, `IsFull_Flag` | `write_to_buffer` in the interrupt, `read_from_buffer` in the call | full against empty, wrap-around |
| Statistics (`p_stats.c` and its callers in `sys.c`, `sched.c`, `entry.S`) | six counters per task | `update_stats` at mode changes and switches, `sys_get_stats` | sums over interleavings; threads start as copies; stale PIDs in free slots |
| Console (`io.c` 27-99, `devices.c`, `sys_write`, `sys_dump_screen`) | cursor `x`, `y`, screen | `printc`, `printcc`, `printcc_xy`, `printk`, blocks of a write | wraps at the end of lines and of the screen; a cursor saved and restored; blocks and words |
| User memory checks (`utils.c`) | none | `access_ok`, `copy_*` | page arithmetic that wraps; the page past the data |
| Game threads (`user.c` 57-107, 133-245, 435-500) | the frame queue, its pages, `total_frames`, `fps`, `pfd` | `main` draws and pushes, `thread_dump` reads, shows and frees, one semaphore | preemption between any two accesses; a full queue; unchecked calls |
| Game rules (`user.c` 108-132, 247-434, 468-500) | `objects`, the fleet, the ship, shots, the aim of the aliens | `ia_move`, `move_shoots`, `move_aliens`, `cancel_shoots`, the keys | the board is changed in place while it is scanned |
| Entry, boot, hardware, user library (`entry.S`, `sys_call_table.S`, `bootsect.S`, `build.c`, `system.c`, `hardware.c`, `libc.c`, `user-utils.S`) | machine registers | set-up and dispatch | straight-line code |

**How they interact.** There is one CPU. The kernel is not preemptive: `sysenter`
and the interrupt gates clear the interrupt flag, and only user code and
`cpu_idle` run with interrupts enabled. So a system call or an interrupt is one
atomic step, with one exception: a call that blocks (`sem_wait`) switches to
another task in the middle and resumes much later on its own kernel stack. All
the concurrency of the kernel is in the order of calls and interrupts, in that
split, and in what the calls of one task leave behind for another: list nodes,
counters, flags, page tables, frames.

**Correctness of each part.**

- Scheduler: a task_struct is in one place; none is lost; order of arrival; nobody starves.
- Semaphores: counting semaphores with FIFO waiters; `-1` for exactly those whose semaphore was destroyed.
- Processes, threads, memory: private frames are private and marked used; frames come back; tasks share an address space only as threads of one process.
- Lists: doubly linked, and equivalent to sequences. Keyboard: a bounded FIFO.
- Statistics: each tick of a task is charged once, and user + system is the CPU time it had but for the switches from it; a ready task waits a bounded time.
- Console: a write prints its bytes once and in order wherever blocks, words and lines end; a dump draws its matrix and leaves the cursor.
- Game threads: one thread at a time at the frame queue, no page shared, lost or freed early, frames shown in order. Game rules: fleet, ship and shots move whole, one cell at a time; nothing dies without a cause; the game ends.

The hazards behind these properties, each at its line, are in `PROJECT.json`.

## 2. Modules

```
Semaphores   (abstract)  <-- SchedRefinement <-- Sched <-- Kernel
     ^                                             ^
     +--- Frames             Queues   <-- Lists    +-- Stats
                             KeyFifo  <-- Keyboard
                             Loops    <-- Console, Invaders
Proofs:  QueueLemmas <-- SchedProofs <-- KernelProofs, StatsProofs
         QueueLemmas <-- ListsProofs, FramesProofs, InvadersProofs
         QueueLemmas <-- IoProofs (Keyboard and Console, both of io.c)
```

Arrows point to the module that is extended, instantiated or implemented.

### Sched
One action per call, interrupt or resumption. The state is that of the code: the
three kinds of lists are sequences (justified by module Lists), `counter`,
`isInit`, `destroyed`, `state` and `remaining_quantum` are the C variables.
Three variables stand for something less direct:

- `in_wait` is the set of tasks whose kernel stack is suspended in the middle of
  `sys_sem_wait`. A task in it does not make calls; when it is dispatched its
  only step is `SemWaitReturn`, the lines after `sched_next_rr()`.
- `saved_esp` is the set of tasks whose `register_esp` has been given a value.
  `inner_task_switch` reads the new task's `register_esp` *before* `switch_stack`
  saves the current one, so a task that switches to itself (a `yield` with nobody
  else ready) resumes at an older esp: `task_switch` leaves open whether the frame
  there is still good, and makes it a fault when there has never been one.
- `fault` says that the kernel did something after which nothing can be said of
  it: a list operation on NULL pointers, a stack pointer that names no frame, a
  page fault (`page_fault_routine` reports and loops for ever). No action is
  enabled afterwards.

Calls that return an error before changing anything are stuttering steps.
`force_task_switch`, `sched_next_rr` and `task_switch` are operators that actions
are made of, as in the code. fork, createthread, exit and terminatethread appear
with what they do to queues; whether an allocation succeeds is left open.
`sys_sem_signal` stops at `INT_MAX`, where the C increment overflows.

### Semaphores and SchedRefinement
Semaphores is what the calls promise: units, a FIFO of waiters, and for each task
an outcome, decided at the moment of the signal or destroy and delivered later.
SchedRefinement maps the kernel to it: a positive counter is the units; the
outcome of a suspended wait is "waiting" while queued, then "refused" if the
destroyed flag is up, else "granted".

### Kernel
Sched composed with memory. Each action conjoins the scheduler's action for the
same handler with what it does to `phys_mem`, the page tables `PT`, and the
identifiers, and decides by the free frames which outcome the scheduler's action
has. A page table belongs to a *slot* of the task array; `dir[t]` is the slot a
task's directory pointer names, so threads have `dir[t] # t`. `ustack[t]` is the
page of the user stack; a forked child has its parent's user stack pointer, into
whatever its own table has there: a copy if the stack is in DATA, page 0 (which fork
makes present in every child), a dynamic page that the slot's last process left in the
table, or the parent's own page if an orphan forks into the slot whose table it uses. A
task whose stack page is not mapped faults when it runs. A frame is a number, a page-table entry a frame and a
present bit; contents, the rw bit and the TLB are left out. `Calls` limits an
instance to some calls; `fork_bare`, `exit_last` and `dealloc_own` are the same
handlers as called by disciplined programs (the first task of a process forks while
its address space is only code and data; the last one exits when that is so again;
nobody deallocates a stack in use).

### Lists and Queues
list.c pointer by pointer. `Content(h)` walks the pointers from a head;
`ImplementsQueues` says that the walk is always the sequence of nodes added and
not deleted. The rules the callers must keep (add a free node, delete a linked
one) are guards here and are shown to be kept in Sched (`OneQueue`, `ListsSound`).

### Keyboard and KeyFifo
The interrupt handler stores the character of a released key, the call reads one.
The table `char_map` is shorter than the range of its index; beyond it, any
character. A `get_key` with an address that `access_ok` refuses returns -EFAULT and
leaves the buffer alone. The circular buffer refines a bounded FIFO that drops new keys
when full. What is shown is what becomes of the keys that are stored; that a key is
stored whenever there is room is the guard of `write_to_buffer` and no property.

### Stats
Sched composed with `p_stats` and the clock. Each action is a step of Sched (so
`StatsSpec => Spec`, which is proved) with what its handler does to the counters:
`user_to_system` and `system_to_user` in the interrupt handlers only, the two
updates of `sched_next_rr`, `init_stats` in fork, and in createthread, where that
call is commented out, the copy of the creator's record. `now` is what
`get_ticks()` returns. A handler that reads the clock several times may find it one
tick further at each reading (`After`): between its entry and its return, and in a
switch between the entry, the update of the task that leaves and that of the one that
enters. User code takes any time.
`ran` and `birth` are the histories that the counters are compared with: `ran` is the
CPU time of a task, but for what passes between the two readings of a switch from it.
`waited` counts the clock interrupts since a task joined the ready queue.

### Console
`con` is `x`, `y` and the video memory. The functions of `io.c` are operators on
it; `sys_write`, `sys_dump_screen` and a page that is mapped or unmapped between calls
(`Remap`) are the actions. Any page from the data on may go: `exit` deletes the data of a
page table that other threads still use, and these are the calls of such a thread, too.
Code stays, which is `CodeIsKept` of Kernel. An address is a number modulo `ADDRESSES`, so that a buffer may wrap;
a page fault prints its message and halts. Reading user memory is byte by byte as
the loops of `copy_from_user` do it: words, then the rest. The loops over characters,
blocks and cells are a `Scan`. What the properties compare the screen with, `ShowsText`,
does not mention them: it counts, for each character of the whole buffer, the column
since the last newline and the rows passed.

### Frames
One action for each access of either thread to what they share: the test, the
write and the flag of `push_frame`, the test, the read, the index and the flag of
`read_frame`, the two halves of `sem_wait`. The semaphore is the abstract one of
module Semaphores, which Sched implements; what the game relies on is therefore what
the kernel has been shown to do. A page is a number, a picture the number of its
frame. A thread that runs out of pages writes at address -1: `fault`, and the
kernel stops.

### Invaders
The rules as `main` runs them: a key, then a look at the clock, then `ia_move` if it
is time. An object is the set of the cells where its int is 1. A function that
scans the board and changes it at once is a `Scan` over rows or columns in the order
of its loops: that order is the point.

### Loops
`Scan(F, b, is)`, a recursive function: what a loop makes of `b` when its body is `F`
and its index runs through `is`.

### MCSched, MCKernel, MCKeyboard, MCLists, MCStats, MCConsole, MCFrames, MCInvaders
Values of the constants for TLC.

Definitions whose comment begins with "Mutant" are variants of the one that
follows them, in which the property named for them in `PROJECT.json` fails.

## 3. What the runs check

| run | instance | checks | states |
|---|---|---|---|
| Sched | 4 tasks (idle, init, 2 more), 2 semaphores, quantum 2, counters up to 1 | TypeOK, OneQueue, NoTaskLost, CounterCountsWaiters, DestroyedIsPending, WaitersKeepTheirStack, ListsSound, IdleRunsLast; NoOvertaking; ImplementsSemaphores; under fairness ReadyTaskRuns, DestroyedWaitReturns | 23 000 |
| Kernel | 4 tasks, 9 pages (7 above the kernel's; `alloc_frame` tries 4 of them, init has 2), one fork | NoFrameTwice, MappedIsUsed, CodeIsKept, for arbitrary programs | 4.2 million |
| KernelDisciplined | 4 tasks, 13 pages, 2 data pages, two forks; programs that keep the rules | NoLeak, SpacesAreProcesses, StacksDisjoint, FaultsOnlyWithoutFrames | 2.2 million |
| Keyboard | 4 entries, 3 characters, 4 scan codes | ImplementsFifo | 6 800 |
| Lists | 4 nodes, 2 lists | ImplementsQueues | 400 |
| Stats | 4 tasks, 1 semaphore, quantum 2, clock up to 2 | CpuTimeIsCharged, TicksAddUp, BoundedWait | 3.8 million |
| Console | 3 x 2 screen, 8 pages of 16 bytes, words of 2, blocks of 4 bytes | WritesWholeBuffer, DumpShowsMatrix, FaultsAreExact | 22 000 |
| Frames | a queue of 3 frames, 5 pages, 7 frames | Exclusion, PagesAccounted, FramesInOrder, CountersAreTrue, FaultNeedsLoss; FramesAreShown, MainGetsIn | 157 000 |
| Invaders | 11 x 10 board, 3 aliens (3 columns, 2 rows), 2 shields, 3 keys | PiecesInPlace, AimOnBoard; ShotsGoOneCell, AliensDieByShots, HitLoses; GameEnds | 123 000 |

**Why the bounds are enough.** Three tasks besides idle can be, at the same time,
one running, one waiting on each of two semaphores, or two waiters on one: order
among waiters, a destroy with several waiters and re-creation before they resume
all happen. A quantum of 2 distinguishes its last tick from the others. In Kernel
one page of code and one or two of data leave just enough frames for fork and
alloc to fail after partial success; four tasks are what it takes for a thread
to outlive its process and for the slot to be taken again by a fork of that thread
or of another task. Two data pages (KernelDisciplined) are needed for a fork that
gets some of its frames; MAX_PID bounds the number of forks.

In Stats MAX_TICKS bounds the clock, not the number of steps: a handler may take no
time, so any number of calls, switches and interrupts happens within two ticks, and
two are enough for the running task, a ready one and a copied record to have last been
updated at different times, and for a tick to pass between the two readings of a switch
with another one before or after it. It takes two tasks ahead of the last in the queue to
fill the bound on waiting, hence four tasks. That the waiting bound and the counters do
not depend on these numbers is proved.

The screen of Console has the two borders where the cursor wraps, with a write
longer than the screen and one of exactly two blocks; its buffers start and end at,
before and after each kind of page boundary and block, at odd and even offsets, and around the end of the
address space. MAX_FRAMES is more than twice the queue of Frames, so that both
indices go round twice and meet full and empty; with 5 pages and 3 entries `alloc`
fails in the run, after two pages were lost by pushes on a full queue and not earlier
(`FaultNeedsLoss`). MAX_KEYS of Invaders
bounds the keys: with three a game can be won, a shield shot through, and the ship
moved into a shot; the board is just large enough for the fleet to turn at both
walls and to come down before it loses.

Deadlock is not an error in the runs of Sched, Kernel, Stats, Console and Frames:
after a fault nothing runs, on purpose. In Frames and Invaders `main()` ends in
`while(1)` after the last frame and the end of the game.

**Fairness.** Sched: `WF(ClockTick)`: the timer interrupts user code and `cpu_idle`
again and again. `WF(SemWaitReturn)`: the CPU executes the kernel code it is in. No
call of a program is fair: a program may compute for ever. That is all that
`ReadyTaskRuns` and `DestroyedWaitReturns` need.
Frames: weak fairness of each thread. Neither ever stops being ready except in
`sem_wait`, and round robin gives a ready task a quantum within a bounded time
(`BoundedWait`). Invaders: the loop of `main` goes on (`WF`), and `ia_move` is taken if
it is possible again and again (`SF`): `gettime()` advances while the loop spins, so the
test of line 490 succeeds sooner or later.

**Disagreements between the code and its comments.** Each of these runs stops at a
counterexample:

- SchedYield: a `yield` with nobody else ready switches to the task itself with a
  stale `register_esp`; for task 1, zero (`sys.c` 217, `sched.c` 256).
- KernelForkTemp: `fork` says that it maps the child's data at `TOTAL_PAGES-1` and
  uses the pages after its own data, which `alloc` gives out first: the parent
  loses its allocated pages (`sys.c` 118).
- KernelOrphan: a thread that outlives its process can fork into the slot whose
  page table it uses; parent and child then share all memory (`sys.c` 80, 126).

**Seen while reading** and not given a run, because no test or comment says what
should happen or the consequence is plain:

- Kernel: the state of a blocked task stays `ST_RUN` (`sys.c` 444). `exit` says
  that it deallocates "all the propietary physical pages" and keeps those obtained
  with `alloc` (`sys.c` 200). `fork` makes page 0 and the guard pages of the task array
  present in the child (`sys.c` 112, `mm.c` 65 and 72). `entry.S` 108 lets call number
  MAX_SYSCALL through. `terminatethread` and a failed fork leave a PID in a free slot,
  where `sys_get_stats` finds it.
- `access_ok`: the case VERIFY_WRITE falls through to VERIFY_READ (`utils.c` 76-83),
  so code counts as writable; the page after the data is let through, and data that
  another thread's exit has unmapped; a matrix that
  does not start a page may make the kernel itself fault in `dump_screen`.
- Statistics: a thread starts with a copy of its creator's counters. What passes between
  the two updates of a switch is ready time of the task that leaves (`sched.c` 143).
- Game: a push on a full queue loses its page. Shots that meet at an even distance
  pass through each other (`user.c` 356 and 372). Aliens in columns left of
  `last_shoot` do not shoot. `errno` is shared by threads.

## 4. What is proved

All by TLAPS, for every value of the constants that satisfies the ASSUMEs of the
modules: at least two task slots, a positive quantum, enough pages for two processes,
a buffer of two frames or more, a board that the fleet fits on, a page that a matrix
fits in, sizes that are signed integers of the width of an address, and so on. TLC
evaluates them on every run, and `user.c` and `include/*.h` satisfy them. Two results
have a hypothesis besides, which is stated in the theorem: `SemValuesFit` and
`Disciplined`, explained below. The inductive invariants of the kernel and the game
were checked by TLC, on the instance of the component's run, before they were proved.

- `QueueLemmas`. What list_add_tail, list_del of the first or of any node, joining and
  moving lists do to a sequence without repetitions; and what the models need of
  finite sets of numbers: a least element (`Least`), and from it induction along the
  numbers up to n (`UpTo`); an element at each position in order of size (`Positions`);
  the size of a set in two parts (`CountedApart`); and the values a loop goes through
  (`Iterates`).
- `SchedProofs`. The inductive invariant `IInv` is the conjunction of TypeOK,
  OneQueue, NoTaskLost, IdleAvailable, CounterCountsWaiters, DestroyedIsPending,
  WaitersKeepTheirStack, ListsSound and CurrentIsRun (the running task is in state
  ST_RUN, which is why `update_process_state_rr` does not unlink it). None of the
  first ones is inductive alone: that a forked child does not inherit a raised
  destroyed flag needs DestroyedIsPending and the fact that the caller is not in
  `in_wait`; that a freed slot is nobody's suspended stack needs
  WaitersKeepTheirStack; that signal finds a waiter needs CounterCountsWaiters.
  There is one lemma per handler. CounterCountsWaiters and ListsSound
  carry the hypothesis `SemValuesFit`: the initial values given to `sem_init` fit
  an int. Without it `counter = value` (`sys.c` 433) makes a negative counter.
  Theorems: TypeCorrect, QueuesPartitionTheTasks, NoTaskIsLost, CounterIsSound,
  WaitProtocol, ListsAreSound, and IdleIsTheLast: idle is chosen only from an empty
  ready queue. As no interrupt wakes a task, that queue then stays empty, and idle once
  dispatched has the CPU for good. ReadyQueueIsFifo: the action property NoOvertaking.
  SemaphoresArePromised: under `SemValuesFit` the scheduler implements Semaphores.
  Initial states map to initial states; each handler maps to the abstract call or, when
  it fails or only moves the ready queue, to a stutter. The lemmas of the mapping say
  what a queue, a flag and a member of `in_wait` contribute to `outcome`; the step that
  is not obvious is `sem_destroy`, which must refuse exactly the queued waiters, and
  fork and createthread, where a slot that is taken again must have no outcome left.
- `KernelProofs`. `KSpec => Spec`: whatever memory decides, every handler does to
  queues and semaphores what Sched says. All theorems above hold in the kernel,
  the refinement too (KernelKeepsPromises).
  Memory, for arbitrary programs: `MemoryOK` is the types, UsedFrames (a mapped private
  frame is used and not the kernel's), FramesOnce (each backs one entry of one table),
  CodeTables and CodeFrames (code is mapped in every space and by no private entry).
  They hold together or not at all: `alloc_frame` gives a frame nobody maps only
  because mapped frames are used, and `free_frame` leaves the other mappings alone only
  because no frame is mapped twice. The work is in fork, which takes frames one by one
  and may give them back half way (`AllocFrames`: n calls give n different free
  frames). Theorems MemoryTypes, MappedFramesAreUsed, FramesArePrivate, CodeStays.
  Memory, for programs that keep the rules: NoLeak, SpacesAreProcesses, StacksDisjoint
  and FaultsOnlyWithoutFrames are false for arbitrary programs (KernelOrphan,
  KernelForkTemp, or a `dealloc` of a stack in use), so their theorems assume
  `Disciplined`: the calls that the instance allows do not include the undisciplined
  forms of fork, exit and dealloc, which is what the run KernelDisciplined sets. The
  invariant adds to MemoryOK that every live task runs in the space of a live owner,
  that owners have all their data and no other table has any private page, that a
  thread's stack is a page given by `alloc` or page 0, that PIDs agree with spaces, and
  that every used frame is code or mapped (`SpacesOK`). Theorems MemoryComesBack,
  ProcessesHaveTheirSpaces, ThreadsHaveTheirStacks, FaultsNeedFullMemory.
- `StatsProofs`. First `StatsSpec => Spec`, so all of SchedProofs holds.
  WaitIsBounded: a ready task is dispatched before the clock has interrupted
  NR_TASKS - 2 quanta. The invariant is a budget, WaitBudget: what the task at
  place `i` has waited, plus what is left of the quantum, plus a quantum for each place
  ahead, is at most the bound. Every step either appends at the tail and pays for its
  interrupts from the quantum, or dispatches the head with a fresh one
  (`QueueStep`); a new entry is within the bound because the queue has at most
  NR_TASKS - 2 entries: it is injective, and idle and the running task are not in it.
  CountersAreTrueToTheClock: StatsTypeOK (no counter is ever negative), CpuTimeIsCharged
  and TicksAddUp (also TicksAreCharged), together inductive. The CPU time of a task is
  not exactly its user and system ticks: `sched_next_rr` reads the clock once to close
  those of the task that leaves and again to open those of the next (`sched.c` 143 and
  144), and what passes in between becomes ready time of the first. CpuTimeIsCharged
  says that nothing else is missing. The proof is by what an update keeps (`Charged`):
  the difference of all ticks and the last update for every task, that of the CPU time
  and the last update for the running one, the CPU time for the others. Steps compose; a
  switch must leave nothing pending in both its tasks (`DispatchCharges`,
  `SwitchCharges`), and a slot that is taken starts balanced (`SlotStep`).
- `IoProofs`, the keyboard. For every buffer size, Keyboard implements KeyFifo
  (BufferIsFifo). The index arithmetic modulo BUFF_SIZE is reduced to a case distinction
  once (`RemainderBelow`).
- `IoProofs`, the console. For every screen, memory, page size, block and word. The
  invariant is only that the cursor is on the screen and cells hold characters
  (CursorStaysOnScreen); the work is in what one call does.
  `printk` goes through one screen per character, and in one way only (`Prints`,
  `PrintkIs`). By induction along the text the cursor is where the reference puts it
  (`CursorAt`, from `ColumnNext` and `RowNext`: a full line and a newline both lead to
  column 0, and to a new row) and a cell shows the last character written there
  (`CellAt`). A copy has the bytes of the buffer, words or not (`CopyIs`); the blocks
  follow each other from its start to its end (`BlockAt`); so each block takes the
  screen from one state of the chain of the whole buffer to a later one (`PrintsOn`),
  and what the last block leaves is the end of that chain: WritePrintsBuffer.
  A dump is an induction over cells, where quotient and remainder name each cell once
  (`CellOf`): DumpDrawsMatrix. KernelStopsWhenItMust: the kernel stops exactly when a page of
  the buffer, or the last page of the matrix, is not mapped. That an accepted buffer lies
  in user memory rests on what `access_ok` decides (`Accepted`): an end that wrapped
  around would lie at least a page below the start, as a size is less than half of the
  address space, so the test of line 71 finds it. That the pages the blocks touch are
  those of the buffer is `BlockAt` and `ReadableSplit`; a matrix is no longer than a
  page, so it lies in that of its first byte, which the call tests, and that of its last
  (`MatrixReadable`).
- `ListsProofs`. DoublyLinked is inductive for any number of nodes and lists.
  ListsAreQueues: the pointers implement Queues. `Content` follows pointers, so the
  proof does not reason about it first: `Holds(next, q)` says, place by place, that
  `next` links the nodes of the sequences `q` and closes the circle, that no node is in
  two places, and that a linked node is in some list. Each operation of list.c keeps it
  for the sequences that Queues says. Then a walk of any length exists and is unique
  (`WalkExists`), so on pointers that hold `q` it reads `q` (`WalkFinds`). Both are
  inductions along the walk, which `UpTo` takes from the least number left out.
- `FramesProofs`. For every buffer size, every finite set of pages and every number of
  frames. `FramesInv` has six parts, each with one lemma: TypesOK; LockOK (one thread
  has the lock, from a signal that grants it to its own signal, and the value and the
  queue of the semaphore say which); BufferOK (between the test of the flag and its
  change, which are several steps apart, indices and flag agree as far as the line each
  thread is at requires); CountersOK; PagesOK (a page is in the buffer, held by one of
  the threads or lost, in one of these places only); OrderOK (the pictures in the buffer
  increase, lie after the last one shown and up to the last one drawn). The places of
  the circular buffer are compared through `SlotOf`, without modulo. Theorems
  LockExcludes, PagesHaveTheirPlace, FramesComeInOrder, CountersTellTheTruth, and
  PagesRunOutByLoss: alloc, whose result is not tested, fails only when all pages but
  those that fill the buffer were lost by pushes on a full buffer.
- `InvadersProofs`. For every board, fleet and number of keys. A loop over the board
  goes from a board to the next for each row or column (`Iterates` and a lemma for each
  function that scans). By induction along the loop, what it leaves in the rows
  already passed and in those to come is known, so the effect of the whole loop is:
  the fleet is shifted by one (`FleetRight`, `FleetLeft`, `FleetDown`), every shot goes
  one cell or is taken away (`AlienShotsMove`, `ShipShotsMove`). This is where the
  order counts: in the other direction a shot would be met, and moved, again. The
  invariant `InvadersInv` places the fleet between its turning points, aliens in its
  formation, the ship in its columns and shots in the rows they may be in; a fleet that
  has come down to LOSE_ROW ends the game, which is why it never leaves the board.
  BoardAssumption asks of the constants that LOSE_ROW leaves room for the fleet and
  RIGHT_END is beyond LEFT_END; the values of `user.c` do (18 of 25 rows, 29 and 2).
  Theorems PiecesStayInPlace, AimStaysOnBoard; AliensDieByShotsOnly, HitsLose,
  ShotsMoveOneCell for the action properties.

Only model-checked:

- Liveness (ReadyTaskRuns, DestroyedWaitReturns, FramesAreShown, MainGetsIn, GameEnds),
  out of the prover's reach like ENABLED. Of ReadyTaskRuns the safety half is proved:
  WaitIsBounded.

## 5. Not modelled

- Boot, segmentation and hardware set-up, the image builder (`build.c`) and the
  register saving of `entry.S`: straight-line code executed before there are tasks, or
  around handlers; they enter as the initial state and as the atomicity of actions. One
  window is left out: between `enable_int()` and `return_gate()` in `main()` a tick may
  arrive on the boot stack, with a full quantum left.
- `libzeos.a`, `libauxjp.a` and `libuser.a` are object code: `page_fault_routine` and
  `get_ticks` are used as the sources use them. `libc.c` and `user-utils.S` load
  registers and set `errno`; the start and end of a thread belong to createthread and
  terminatethread.
- Statistics: `total_trans`, `remaining_ticks` and `blocked_ticks`, which nothing in
  the kernel reads, `sys_get_stats`, which copies a record out, the overflow of the
  counters, and page faults, after which no time is charged.
- `copy_data` and `copy_to_user`: the loops of `copy_from_user` on data that no property
  is about. `printc_xy`, `list_add`, `list_is_last` and `free_user_pages` are never
  called from the sources.
- What the frames of the game look like: borders, texts and colours.
  `TESTING_SPRITE_INICI` is a picture tool.

## 6. Plan

Done: every component of the kernel's own logic and both halves of the game, with
every safety property, action property and refinement of the runs a theorem. What could
be added is outside the kernel's logic or of little use to it: the parts of section 5,
and the counters of `p_stats` that nothing reads.
