------------------------------- MODULE Frames -------------------------------
(***************************************************************************)
(* The two threads of the game (zeos/user.c): main draws a frame into a    *)
(* page from alloc and pushes it (welcome, thread_push, game_win,          *)
(* game_over); thread_dump takes frames off the circular buffer, shows     *)
(* them with dump_screen and frees their pages.  Semaphore 0 protects the  *)
(* buffer; it is the abstract one of module Semaphores, which Sched        *)
(* implements.  Threads are preempted between any two of the steps below,  *)
(* each of which touches the shared memory once.                           *)
(*                                                                         *)
(* A picture is the number of its frame: what main draws is in module      *)
(* Invaders.  Head and Tail of user.c are called head and tail here.       *)
(***************************************************************************)
EXTENDS Integers, Sequences, FiniteSets, Functions

CONSTANTS
    BUFF_SIZE,      \* entries of frame_buff
    Pages,          \* the pages alloc may return, an interval
    MAX_FRAMES      \* bound: the frames that main draws, the last one with the result

ASSUME FramesAssumption ==
    /\ BUFF_SIZE \in Nat \ {0, 1}
    /\ Pages \subseteq Nat /\ IsFiniteSet(Pages)
    /\ MAX_FRAMES \in Nat \ {0, 1}

VARIABLES
    main, dump,                         \* where the threads are
    frame_buff, head, tail, IsFull_Flag,
    mat, tmp,                           \* main's page (a global) and thread_dump's
    total_frames, fps, pfd,
    open, value, queue, outcome,        \* semaphore 0
    mapped,                             \* the pages that are allocated
    picture,                            \* what each page shows: a frame, or Garbage
    drawn,                              \* history: the frames that were begun
    shown,                              \* history: what dump_screen showed last
    dumps, reported,                    \* history: the frames shown, and those that fps told of
    dropped                             \* history: pages that push_frame did not keep

lock == <<open, value, queue, outcome>>
buffer == <<frame_buff, head, tail, IsFull_Flag>>
counters == <<total_frames, fps, pfd>>
memory == <<mapped, picture>>
history == <<drawn, shown, dumps, reported, dropped>>
frvars == <<main, dump, buffer, mat, tmp, counters, lock, memory, history>>

Threads == {"main", "dump"}
Sem == INSTANCE Semaphores WITH Clients <- Threads, Names <- {0}, Values <- {1}

Nothing == -1           \* NULL, and a pointer before its first assignment
Garbage == 0            \* a page that is not, or not wholly, drawn
Slots == 0 .. BUFF_SIZE - 1
Following(i) == (i + 1) % BUFF_SIZE

FramesInit ==
    /\ main = "setup" /\ dump = "off"
    /\ frame_buff = [i \in Slots |-> Nothing] /\ head = 0 /\ tail = 0 /\ IsFull_Flag = 0
    /\ mat = Nothing /\ tmp = Nothing
    /\ total_frames = 0 /\ fps = 0 /\ pfd = 0
    /\ Sem!AbsInit
    /\ mapped = {} /\ picture = [p \in Pages |-> Garbage]
    /\ drawn = 0 /\ shown = 0 /\ dumps = 0 /\ reported = 0 /\ dropped = {}

MainGoes(from, to) == main = from /\ main' = to
DumpGoes(from, to) == dump = from /\ dump' = to

(* sem_wait(0) and sem_signal(0) of thread t.  They do not fail: nobody destroys the semaphore. *)
Waits(t) == Sem!Enter(0, t)
Granted(t) == outcome[t] = "granted" /\ Sem!Return(t)

-----------------------------------------------------------------------------
(* main *)

(* setup: sem_init and createthread. *)
setup ==
    /\ MainGoes("setup", "wait")
    /\ DumpGoes("off", "wait")
    /\ Sem!Create(0, 1)
    /\ UNCHANGED <<buffer, mat, tmp, counters, memory, history>>

(* Mutant: main does not wait for the semaphore. *)
main_wait_No ==
    /\ MainGoes("wait", "alloc")
    /\ UNCHANGED <<dump, buffer, mat, tmp, counters, lock, memory, history>>

main_wait ==
    /\ \/ MainGoes("wait", "alloc") /\ Sem!Take(0)
       \/ MainGoes("wait", "blocked") /\ Waits("main")
       \/ MainGoes("blocked", "alloc") /\ Granted("main")
    /\ UNCHANGED <<dump, buffer, mat, tmp, counters, memory, history>>

(* alloc_k takes the first free page; the result is not checked, and main draws to it. *)
main_alloc ==
    /\ \/ /\ mapped # Pages
          /\ MainGoes("alloc", "fps")
          /\ mat' = CHOOSE p \in Pages \ mapped : \A q \in Pages \ mapped : p <= q
          /\ mapped' = mapped \cup {mat'}
          /\ picture' = [picture EXCEPT ![mat'] = Garbage]
          /\ drawn' = drawn + 1
       \/ /\ mapped = Pages
          /\ MainGoes("alloc", "fault")
          /\ mat' = Nothing
          /\ UNCHANGED <<memory, drawn>>
    /\ UNCHANGED <<dump, buffer, tmp, counters, lock, shown, dumps, reported, dropped>>

(* welcome draws the first frame, a picture of its own. *)
welcome ==
    /\ drawn = 1
    /\ MainGoes("fps", "push")
    /\ picture' = [picture EXCEPT ![mat] = drawn]
    /\ UNCHANGED <<dump, buffer, mat, tmp, counters, lock, mapped, history>>

(* board_to_screen draws the others: compute_fps, in two steps, once a second; pending_frames;
   the board. *)
compute_fps ==
    /\ drawn > 1
    /\ \/ MainGoes("fps", "reset") /\ fps' = total_frames /\ UNCHANGED <<total_frames, reported>>
       \/ MainGoes("fps", "pfd") /\ UNCHANGED <<fps, total_frames, reported>>
       \/ /\ MainGoes("reset", "pfd")
          /\ total_frames' = 0 /\ reported' = reported + fps /\ UNCHANGED fps
    /\ UNCHANGED <<dump, buffer, mat, tmp, pfd, lock, memory, drawn, shown, dumps, dropped>>

(* Mutant of pending_frames: the indices are not unwrapped. *)
pending_frames_Unwrapped ==
    IF head # tail THEN head - tail
    ELSE IF IsFull_Flag = 1 THEN BUFF_SIZE ELSE 0

pending_frames ==
    IF head < tail THEN (head + BUFF_SIZE) - tail
    ELSE IF head > tail THEN head - tail
    ELSE IF IsFull_Flag = 1 THEN BUFF_SIZE ELSE 0

main_pfd ==
    /\ MainGoes("pfd", "draw")
    /\ pfd' = pending_frames
    /\ UNCHANGED <<dump, buffer, mat, tmp, total_frames, fps, lock, memory, history>>

(* The frame is whole, but for the last one: game_win and game_over write on it. *)
board_to_screen ==
    /\ \/ /\ MainGoes("draw", "push")
          /\ drawn < MAX_FRAMES
          /\ picture' = [picture EXCEPT ![mat] = drawn]
       \/ /\ MainGoes("draw", "text")
          /\ drawn = MAX_FRAMES
          /\ UNCHANGED picture
    /\ UNCHANGED <<dump, buffer, mat, tmp, counters, lock, mapped, history>>

game_over ==
    /\ MainGoes("text", "push")
    /\ picture' = [picture EXCEPT ![mat] = drawn]
    /\ UNCHANGED <<dump, buffer, mat, tmp, counters, lock, mapped, history>>

(* Mutant of push_frame: the flag is not looked at. *)
push_frame_Over ==
    /\ \/ /\ MainGoes("push", "head")
          /\ frame_buff' = [frame_buff EXCEPT ![head] = mat]
          /\ UNCHANGED <<head, IsFull_Flag>>
       \/ /\ MainGoes("head", "flag")
          /\ head' = Following(head)
          /\ UNCHANGED <<frame_buff, IsFull_Flag>>
       \/ /\ MainGoes("flag", "signal")
          /\ IsFull_Flag' = IF head = tail THEN 1 ELSE IsFull_Flag
          /\ UNCHANGED <<frame_buff, head>>
    /\ UNCHANGED <<dump, tail, mat, tmp, counters, lock, memory, history>>

push_frame ==
    /\ \/ /\ MainGoes("push", "signal")
          /\ IsFull_Flag # 0
          /\ dropped' = dropped \cup {mat}
          /\ UNCHANGED <<frame_buff, head, IsFull_Flag>>
       \/ /\ MainGoes("push", "head")
          /\ IsFull_Flag = 0
          /\ frame_buff' = [frame_buff EXCEPT ![head] = mat]
          /\ UNCHANGED <<head, IsFull_Flag, dropped>>
       \/ /\ MainGoes("head", "flag")
          /\ head' = Following(head)
          /\ UNCHANGED <<frame_buff, IsFull_Flag, dropped>>
       \/ /\ MainGoes("flag", "signal")
          /\ IsFull_Flag' = IF head = tail THEN 1 ELSE IsFull_Flag
          /\ UNCHANGED <<frame_buff, head, dropped>>
    /\ UNCHANGED <<dump, tail, mat, tmp, counters, lock, memory, drawn, shown, dumps, reported>>

(* Mutant: thread_push returns without the signal. *)
main_signal_No ==
    /\ MainGoes("signal", "play")
    /\ UNCHANGED <<dump, buffer, mat, tmp, counters, lock, memory, history>>

main_signal ==
    /\ MainGoes("signal", "play")
    /\ Sem!Post(0)
    /\ UNCHANGED <<dump, buffer, mat, tmp, counters, memory, history>>

(* The delay of setup, and the loop of main: a key or the time makes it push a frame, until
   the game is over; the last frame is that of game_win or game_over, and then while(1). *)
main_play ==
    /\ \/ MainGoes("play", "wait") /\ drawn < MAX_FRAMES
       \/ MainGoes("play", "end") /\ drawn = MAX_FRAMES
    /\ UNCHANGED <<dump, buffer, mat, tmp, counters, lock, memory, history>>

-----------------------------------------------------------------------------
(* thread_dump *)

dump_wait ==
    /\ \/ DumpGoes("wait", "test") /\ Sem!Take(0)
       \/ DumpGoes("wait", "blocked") /\ Waits("dump")
       \/ DumpGoes("blocked", "test") /\ Granted("dump")
    /\ UNCHANGED <<main, buffer, mat, tmp, counters, memory, history>>

(* Mutant of read_frame: the flag stays up. *)
read_frame_FlagStays ==
    /\ \/ /\ DumpGoes("test", "signal")
          /\ head = tail /\ IsFull_Flag # 1
          /\ tmp' = Nothing
          /\ UNCHANGED <<tail, IsFull_Flag>>
       \/ /\ DumpGoes("test", "slot")
          /\ head # tail \/ IsFull_Flag = 1
          /\ UNCHANGED <<tmp, tail, IsFull_Flag>>
       \/ DumpGoes("slot", "tail") /\ tmp' = frame_buff[tail] /\ UNCHANGED <<tail, IsFull_Flag>>
       \/ DumpGoes("tail", "dump") /\ tail' = Following(tail) /\ UNCHANGED <<tmp, IsFull_Flag>>
    /\ UNCHANGED <<main, frame_buff, head, mat, counters, lock, memory, history>>

read_frame ==
    /\ \/ /\ DumpGoes("test", "signal")
          /\ head = tail /\ IsFull_Flag # 1
          /\ tmp' = Nothing
          /\ UNCHANGED <<tail, IsFull_Flag>>
       \/ /\ DumpGoes("test", "slot")
          /\ head # tail \/ IsFull_Flag = 1
          /\ UNCHANGED <<tmp, tail, IsFull_Flag>>
       \/ DumpGoes("slot", "tail") /\ tmp' = frame_buff[tail] /\ UNCHANGED <<tail, IsFull_Flag>>
       \/ DumpGoes("tail", "lower") /\ tail' = Following(tail) /\ UNCHANGED <<tmp, IsFull_Flag>>
       \/ DumpGoes("lower", "dump") /\ IsFull_Flag' = 0 /\ UNCHANGED <<tmp, tail>>
    /\ UNCHANGED <<main, frame_buff, head, mat, counters, lock, memory, history>>

(* dump_screen refuses a page that is not mapped; thread_dump goes on in any case. *)
dump_screen ==
    /\ DumpGoes("dump", "count")
    /\ shown' = IF tmp \in mapped THEN picture[tmp] ELSE shown
    /\ dumps' = dumps + 1
    /\ UNCHANGED <<main, buffer, mat, tmp, counters, lock, memory, drawn, reported, dropped>>

dump_count ==
    /\ DumpGoes("count", "dealloc")
    /\ total_frames' = total_frames + 1
    /\ UNCHANGED <<main, buffer, mat, tmp, fps, pfd, lock, memory, history>>

(* Mutant: the page that was shown is not freed. *)
dealloc_No ==
    /\ DumpGoes("dealloc", "signal")
    /\ UNCHANGED <<main, buffer, mat, tmp, counters, lock, memory, history>>

dealloc ==
    /\ DumpGoes("dealloc", "signal")
    /\ mapped' = mapped \ {tmp}
    /\ UNCHANGED <<main, buffer, mat, tmp, counters, lock, picture, history>>

(* Mutant: the semaphore is signalled only when there was a frame. *)
dump_signal_IfShown ==
    /\ DumpGoes("signal", "wait")
    /\ IF tmp = Nothing THEN UNCHANGED lock ELSE Sem!Post(0)
    /\ UNCHANGED <<main, buffer, mat, tmp, counters, memory, history>>

dump_signal ==
    /\ DumpGoes("signal", "wait")
    /\ Sem!Post(0)
    /\ UNCHANGED <<main, buffer, mat, tmp, counters, memory, history>>

-----------------------------------------------------------------------------

(* A page fault of main stops the kernel, and with it thread_dump. *)
Halted == main = "fault"

MainStep ==
    \/ setup \/ main_wait \/ main_alloc \/ welcome \/ compute_fps \/ main_pfd \/ board_to_screen
    \/ game_over \/ push_frame \/ main_signal \/ main_play
DumpStep ==
    /\ ~Halted
    /\ \/ dump_wait \/ read_frame \/ dump_screen \/ dump_count \/ dealloc \/ dump_signal

FramesNext == MainStep \/ DumpStep

(* Both threads are ready or wait for the semaphore, and the scheduler gives every ready task
   a quantum in turn (BoundedWait of module Stats). *)
FramesSpec ==
    FramesInit /\ [][FramesNext]_frvars /\ WF_frvars(MainStep) /\ WF_frvars(DumpStep)

-----------------------------------------------------------------------------
(* Properties *)

MainInside ==
    main \in {"alloc", "fault", "fps", "reset", "pfd", "draw", "text", "push", "head", "flag",
              "signal"}
DumpInside == dump \in {"test", "slot", "tail", "lower", "dump", "count", "dealloc", "signal"}

(* The pages in the buffer, oldest first: a push counts from the move of head, a read from
   that of tail. *)
IsFull == head = tail /\ (IsFull_Flag = 1 \/ main = "flag")
Count == IF IsFull THEN BUFF_SIZE
         ELSE IF head >= tail THEN head - tail ELSE head - tail + BUFF_SIZE
frames == [i \in 1 .. Count |-> frame_buff[(tail + i - 1) % BUFF_SIZE]]

MainHolds == IF main \in {"fps", "reset", "pfd", "draw", "text", "push", "head"} THEN {mat} ELSE {}
DumpHolds == IF dump \in {"lower", "dump", "count", "dealloc"} THEN {tmp} ELSE {}

(* Only one thread is between sem_wait and sem_signal, and the semaphore counts it
   (user.c:188-192, 197-206). *)
Exclusion ==
    /\ ~(MainInside /\ DumpInside)
    /\ main # "setup" => value[0] = IF MainInside \/ DumpInside \/ "granted" \in Range(outcome)
                                    THEN 0 ELSE 1

(* Every allocated page is drawn by main, or shown by thread_dump, or waits in the buffer,
   once, or was lost by a push on a full buffer: no page is shared by two frames, none
   is freed before it is shown, none else is lost (user.c:73-92, 187-206). *)
PagesAccounted ==
    /\ mapped = Range(frames) \cup MainHolds \cup DumpHolds \cup dropped
    /\ Cardinality(mapped) = Count + Cardinality(MainHolds) + Cardinality(DumpHolds)
                             + Cardinality(dropped)

(* What dump_screen is about to show is a whole frame, later than every frame shown before
   (user.c:198-201). *)
FramesInOrder ==
    dump = "dump" => tmp \in mapped /\ picture[tmp] > shown

(* What the frames say is true: the pfd drawn on a frame is the number of frames before it, at
   any turn of the buffer (user.c:65-72), and every frame shown is told of by fps, once
   (user.c:99-107, 202). *)
CountersAreTrue ==
    /\ main = "draw" => pfd = Len(frames)
    /\ reported + total_frames = dumps - (IF dump = "count" THEN 1 ELSE 0)

(* alloc, whose result is not tested (user.c:189), finds no page only when all pages but those
   that fill the buffer have been lost by pushes on a full buffer, over any number of frames. *)
FaultNeedsLoss == main = "fault" => Cardinality(Pages) <= BUFF_SIZE + Cardinality(dropped)

(* A frame in the buffer is shown, and main, when it waits for the semaphore, gets it, unless
   alloc finds no page first (user.c:187-207). *)
FramesAreShown ==
    \A n \in 1 .. MAX_FRAMES :
        (\E i \in DOMAIN frames : picture[frames[i]] = n) ~> (shown = n \/ Halted)
MainGetsIn == (main \in {"wait", "blocked"}) ~> (MainInside \/ Halted)

=============================================================================
