---------------------------- MODULE FramesProofs ----------------------------
(***************************************************************************)
(* The two threads of the game, for every size of the frame buffer, every  *)
(* interval of pages and every number of frames: the semaphore excludes    *)
(* them, the pages are accounted for, frames are shown whole and in order, *)
(* and what they tell of the counters is true.                             *)
(***************************************************************************)
EXTENDS Frames, QueueLemmas

MainPlaces ==
    {"setup", "wait", "blocked", "alloc", "fault", "fps", "reset", "pfd", "draw", "text", "push",
     "head", "flag", "signal", "play", "end"}
DumpPlaces ==
    {"off", "wait", "blocked", "test", "slot", "tail", "lower", "dump", "count", "dealloc",
     "signal"}

TypesOK ==
    /\ main \in MainPlaces /\ dump \in DumpPlaces
    /\ frame_buff \in [Slots -> Pages \cup {Nothing}]
    /\ head \in Slots /\ tail \in Slots /\ IsFull_Flag \in {0, 1}
    /\ mat \in Pages \cup {Nothing} /\ tmp \in Pages \cup {Nothing}
    /\ main \in {"fps", "reset", "pfd", "draw", "text", "push", "head"} => mat \in Pages
    /\ total_frames \in Nat /\ fps \in Nat /\ dumps \in Nat /\ reported \in Nat
    /\ mapped \subseteq Pages /\ dropped \subseteq Pages
    /\ picture \in [Pages -> Nat] /\ drawn \in Nat /\ shown \in Nat

(* A thread has the lock between its sem_wait and its sem_signal, and as soon as a signal of
   the other one gives it to it. *)
MainHas == MainInside \/ outcome["main"] = "granted"
DumpHas == DumpInside \/ outcome["dump"] = "granted"

LockOK ==
    /\ value \in [{0} -> {0, 1}]
    /\ queue \in [{0} -> {<<>>, <<"main">>, <<"dump">>}]
    /\ outcome \in [Threads -> {"none", "waiting", "granted"}]
    /\ main = "setup" <=> dump = "off"
    /\ open = IF main = "setup" THEN {} ELSE {0}
    /\ outcome["main"] # "none" <=> main = "blocked"
    /\ outcome["dump"] # "none" <=> dump = "blocked"
    /\ queue[0] = <<"main">> <=> outcome["main"] = "waiting"
    /\ queue[0] = <<"dump">> <=> outcome["dump"] = "waiting"
    /\ main # "setup" => (value[0] = 0 <=> MainHas \/ DumpHas)
    /\ ~(MainHas /\ DumpHas)

(* The queues of at most one thread. *)
LEMMA Lines ==
    /\ \A t : Append(<<>>, t) = <<t>> /\ Head(<<t>>) = t /\ Tail(<<t>>) = <<>> /\ <<t>> # <<>>
    /\ <<"main">> # <<"dump">>
OBVIOUS

(* What the steps of the two threads do to the lock.  A thread walks without touching it,
   inside or outside of its critical section, or calls sem_wait or sem_signal. *)
MainWalks ==
    /\ main \notin {"setup", "blocked"} /\ main' \notin {"setup", "blocked"}
    /\ MainInside' <=> MainInside
    /\ dump' = dump /\ UNCHANGED lock
DumpWalks ==
    /\ dump \notin {"off", "blocked"} /\ dump' \notin {"off", "blocked"}
    /\ DumpInside' <=> DumpInside
    /\ main' = main /\ UNCHANGED lock

LEMMA MainMoves ==
    ASSUME MainStep
    PROVE  setup \/ main_wait \/ main_signal \/ MainWalks
<1>1. ASSUME main_alloc \/ welcome \/ compute_fps \/ main_pfd
      PROVE  MainWalks
  BY <1>1 DEF main_alloc, welcome, compute_fps, main_pfd, MainWalks, MainGoes, MainInside
<1>2. ASSUME board_to_screen \/ game_over \/ push_frame \/ main_play
      PROVE  MainWalks
  BY <1>2 DEF board_to_screen, game_over, push_frame, main_play, MainWalks, MainGoes, MainInside
<1> QED
  BY <1>1, <1>2 DEF MainStep

LEMMA DumpMoves ==
    ASSUME DumpStep
    PROVE  dump_wait \/ dump_signal \/ DumpWalks
<1>1. ASSUME read_frame \/ dump_screen \/ dump_count \/ dealloc
      PROVE  DumpWalks
  BY <1>1 DEF read_frame, dump_screen, dump_count, dealloc, DumpWalks, DumpGoes, DumpInside
<1> QED
  BY <1>1 DEF DumpStep

(* The lock is kept by whatever the threads do. *)
LEMMA LockStep == LockOK /\ [FramesNext]_frvars => LockOK'
<1> SUFFICES ASSUME LockOK, [FramesNext]_frvars PROVE LockOK'
  OBVIOUS
<1>1. CASE setup
  BY <1>1 DEF setup, MainGoes, DumpGoes, Sem!Create, LockOK, MainHas, DumpHas, MainInside,
              DumpInside, Threads
<1>2. CASE main_wait
  <2>1. CASE MainGoes("wait", "alloc") /\ Sem!Take(0)
    BY <1>2, <2>1 DEF main_wait, MainGoes, Sem!Take, LockOK, MainHas, DumpHas, MainInside,
                      DumpInside, Threads
  <2>2. CASE MainGoes("wait", "blocked") /\ Waits("main")
    <3>1. /\ main = "wait" /\ main' = "blocked" /\ dump' = dump
          /\ value[0] = 0 /\ outcome["main"] = "none"
          /\ queue' = [queue EXCEPT ![0] = Append(@, "main")]
          /\ outcome' = [outcome EXCEPT !["main"] = "waiting"]
          /\ open' = open /\ value' = value
      BY <1>2, <2>2 DEF main_wait, MainGoes, Waits, Sem!Enter
    <3>2. queue[0] = <<>>
      BY <3>1, Lines DEF LockOK, MainHas, DumpHas, MainInside, DumpInside, Threads
    <3>3. queue' = [queue EXCEPT ![0] = <<"main">>]
      BY <3>1, <3>2, Lines
    <3> QED
      BY <3>1, <3>2, <3>3, Lines DEF LockOK, MainHas, DumpHas, MainInside, DumpInside, Threads
  <2>3. CASE MainGoes("blocked", "alloc") /\ Granted("main")
    BY <1>2, <2>3 DEF main_wait, MainGoes, Granted, Sem!Return, LockOK, MainHas, DumpHas,
                      MainInside, DumpInside, Threads
  <2> QED
    BY <1>2, <2>1, <2>2, <2>3 DEF main_wait
<1>3. CASE main_signal
  <2>1. /\ main = "signal" /\ main' = "play" /\ dump' = dump /\ open' = open
        /\ IF queue[0] = <<>>
           THEN value' = [value EXCEPT ![0] = @ + 1] /\ UNCHANGED <<queue, outcome>>
           ELSE /\ queue' = [queue EXCEPT ![0] = Tail(@)]
                /\ outcome' = [outcome EXCEPT ![Head(queue[0])] = "granted"]
                /\ value' = value
    BY <1>3 DEF main_signal, MainGoes, Sem!Post
  <2>2. CASE queue[0] = <<>>
    BY <2>1, <2>2, Lines DEF LockOK, MainHas, DumpHas, MainInside, DumpInside, Threads
  <2>3. CASE queue[0] # <<>>
    <3>1. queue[0] = <<"dump">>
      BY <2>1, <2>3 DEF LockOK
    <3>2. /\ queue' = [queue EXCEPT ![0] = <<>>]
          /\ outcome' = [outcome EXCEPT !["dump"] = "granted"]
          /\ value' = value
      BY <2>1, <2>3, <3>1, Lines
    <3> QED
      BY <2>1, <3>1, <3>2, Lines DEF LockOK, MainHas, DumpHas, MainInside, DumpInside, Threads
  <2> QED
    BY <2>2, <2>3
<1>4. CASE MainWalks
  BY <1>4 DEF MainWalks, lock, LockOK, MainHas, DumpHas, DumpInside
<1>5. CASE dump_wait
  <2>1. CASE DumpGoes("wait", "test") /\ Sem!Take(0)
    BY <1>5, <2>1 DEF dump_wait, DumpGoes, Sem!Take, LockOK, MainHas, DumpHas, MainInside,
                      DumpInside, Threads
  <2>2. CASE DumpGoes("wait", "blocked") /\ Waits("dump")
    <3>1. /\ dump = "wait" /\ dump' = "blocked" /\ main' = main
          /\ value[0] = 0 /\ outcome["dump"] = "none"
          /\ queue' = [queue EXCEPT ![0] = Append(@, "dump")]
          /\ outcome' = [outcome EXCEPT !["dump"] = "waiting"]
          /\ open' = open /\ value' = value
      BY <1>5, <2>2 DEF dump_wait, DumpGoes, Waits, Sem!Enter
    <3>2. queue[0] = <<>>
      BY <3>1, Lines DEF LockOK, MainHas, DumpHas, MainInside, DumpInside, Threads
    <3>3. queue' = [queue EXCEPT ![0] = <<"dump">>]
      BY <3>1, <3>2, Lines
    <3> QED
      BY <3>1, <3>2, <3>3, Lines DEF LockOK, MainHas, DumpHas, MainInside, DumpInside, Threads
  <2>3. CASE DumpGoes("blocked", "test") /\ Granted("dump")
    BY <1>5, <2>3 DEF dump_wait, DumpGoes, Granted, Sem!Return, LockOK, MainHas, DumpHas,
                      MainInside, DumpInside, Threads
  <2> QED
    BY <1>5, <2>1, <2>2, <2>3 DEF dump_wait
<1>6. CASE dump_signal
  <2>1. /\ dump = "signal" /\ dump' = "wait" /\ main' = main /\ open' = open
        /\ IF queue[0] = <<>>
           THEN value' = [value EXCEPT ![0] = @ + 1] /\ UNCHANGED <<queue, outcome>>
           ELSE /\ queue' = [queue EXCEPT ![0] = Tail(@)]
                /\ outcome' = [outcome EXCEPT ![Head(queue[0])] = "granted"]
                /\ value' = value
    BY <1>6 DEF dump_signal, DumpGoes, Sem!Post
  <2>2. CASE queue[0] = <<>>
    BY <2>1, <2>2, Lines DEF LockOK, MainHas, DumpHas, MainInside, DumpInside, Threads
  <2>3. CASE queue[0] # <<>>
    <3>1. queue[0] = <<"main">>
      BY <2>1, <2>3 DEF LockOK
    <3>2. /\ queue' = [queue EXCEPT ![0] = <<>>]
          /\ outcome' = [outcome EXCEPT !["main"] = "granted"]
          /\ value' = value
      BY <2>1, <2>3, <3>1, Lines
    <3> QED
      BY <2>1, <3>1, <3>2, Lines DEF LockOK, MainHas, DumpHas, MainInside, DumpInside, Threads
  <2> QED
    BY <2>2, <2>3
<1>7. CASE DumpWalks
  BY <1>7 DEF DumpWalks, lock, LockOK, MainHas, DumpHas, MainInside
<1>8. CASE UNCHANGED frvars
  BY <1>8 DEF frvars, lock, LockOK, MainHas, DumpHas, MainInside, DumpInside
<1> QED
  BY <1>1, <1>2, <1>3, <1>4, <1>5, <1>6, <1>7, <1>8, MainMoves, DumpMoves DEF FramesNext

LEMMA LockInit == FramesInit => LockOK
BY DEF FramesInit, Sem!AbsInit, LockOK, MainHas, DumpHas, MainInside, DumpInside, Threads

(* Only one of the two threads is between its sem_wait and its sem_signal, and the value of the
   semaphore says whether one is. *)
THEOREM LockExcludes == FramesSpec => []Exclusion
<1>1. LockOK => Exclusion
  <2>1. LockOK => \A t : t \in Range(outcome) <=> t = outcome["main"] \/ t = outcome["dump"]
    BY DEF LockOK, Threads, Range
  <2> QED
    BY <2>1 DEF LockOK, Exclusion, MainHas, DumpHas
<1> QED
  BY <1>1, LockInit, LockStep, PTL DEF FramesSpec

-----------------------------------------------------------------------------
(* The circular buffer *)

(* A remainder of a sum of two indices, without the remainder. *)
LEMMA Wrap ==
    \A b \in Nat \ {0} : \A x \in 0 .. 2 * b - 1 : x % b = IF x < b THEN x ELSE x - b
OBVIOUS

(* The index after i is another index. *)
LEMMA FollowingSlot ==
    ASSUME NEW i \in Slots
    PROVE  /\ Following(i) \in Slots /\ Following(i) # i
           /\ Following(i) = IF i = BUFF_SIZE - 1 THEN 0 ELSE i + 1
<1> DEFINE x == i + 1
<1>1. BUFF_SIZE \in Nat \ {0, 1} /\ x \in 0 .. 2 * BUFF_SIZE - 1
  BY FramesAssumption DEF Slots
<1> HIDE DEF x
<1>2. x % BUFF_SIZE = IF x < BUFF_SIZE THEN x ELSE x - BUFF_SIZE
  BY <1>1, Wrap
<1> QED
  BY <1>1, <1>2 DEF Slots, Following, x

(* The slot of the i-th frame. *)
SlotOf(i) == IF tail + i - 1 < BUFF_SIZE THEN tail + i - 1 ELSE tail + i - 1 - BUFF_SIZE

(* The buffer holds Count pages, the i-th of them i - 1 slots after tail. *)
Layout ==
    /\ Count \in 0 .. BUFF_SIZE
    /\ Count = BUFF_SIZE <=> IsFull
    /\ frames \in Seq(Pages \cup {Nothing}) /\ Len(frames) = Count
    /\ \A i \in 1 .. Count : SlotOf(i) \in Slots /\ frames[i] = frame_buff[SlotOf(i)]

LEMMA FramesAt == TypesOK => Layout
<1> SUFFICES ASSUME TypesOK PROVE Layout
  OBVIOUS
<1>1. /\ BUFF_SIZE \in Nat \ {0, 1} /\ head \in Slots /\ tail \in Slots
      /\ frame_buff \in [Slots -> Pages \cup {Nothing}]
  BY FramesAssumption DEF TypesOK
<1>2. Count \in 0 .. BUFF_SIZE /\ (Count = BUFF_SIZE <=> IsFull)
  BY <1>1 DEF Count, IsFull, Slots
<1>3. ASSUME NEW i \in 1 .. Count
      PROVE  (tail + i - 1) % BUFF_SIZE = SlotOf(i) /\ SlotOf(i) \in Slots
  <2> DEFINE x == tail + i - 1
  <2>1. x \in 0 .. 2 * BUFF_SIZE - 1
    BY <1>1, <1>2 DEF Slots
  <2> HIDE DEF x
  <2>2. x % BUFF_SIZE = IF x < BUFF_SIZE THEN x ELSE x - BUFF_SIZE
    BY <1>1, <2>1, Wrap
  <2> QED
    BY <1>1, <2>1, <2>2 DEF Slots, SlotOf, x
<1> DEFINE n == Count
<1>4. frames = [i \in 1 .. n |-> frame_buff[(tail + i - 1) % BUFF_SIZE]]
  BY DEF frames
<1> HIDE DEF n
<1>5. n \in Nat /\ \A i \in 1 .. n : frame_buff[(tail + i - 1) % BUFF_SIZE] \in Pages \cup {Nothing}
  BY <1>1, <1>2, <1>3 DEF n
<1>6. frames \in Seq(Pages \cup {Nothing}) /\ Len(frames) = n
  BY <1>4, <1>5
<1> QED
  BY <1>2, <1>3, <1>4, <1>6 DEF n, Layout

(* main's alloc returns a page that is not in use. *)
LEMMA FirstFree ==
    ASSUME mapped \subseteq Pages, mapped # Pages
    PROVE  (CHOOSE p \in Pages \ mapped : \A q \in Pages \ mapped : p <= q) \in Pages \ mapped
<1>1. IsFiniteSet(Pages) /\ Pages \subseteq Nat
  BY FramesAssumption
<1>2. IsFiniteSet(Pages \ mapped)
  BY <1>1, FS_Subset
<1>3. Pages \ mapped \subseteq Int
  BY <1>1
<1>4. Pages \ mapped # {}
  OBVIOUS
<1> QED
  BY <1>2, <1>3, <1>4, Least

LEMMA TypesStep == TypesOK /\ [FramesNext]_frvars => TypesOK'
<1> SUFFICES ASSUME TypesOK, [FramesNext]_frvars PROVE TypesOK'
  OBVIOUS
<1>1. CASE setup \/ main_wait \/ main_signal \/ main_play \/ dump_wait \/ dump_signal
  BY <1>1 DEF setup, main_wait, main_signal, main_play, dump_wait, dump_signal, MainGoes, DumpGoes,
              TypesOK, MainPlaces, DumpPlaces, buffer, counters, memory, history
<1>2. CASE main_alloc
  <2>1. CASE mapped # Pages
    <3>1. /\ mat' \in Pages /\ mapped' = mapped \cup {mat'} /\ drawn' = drawn + 1
          /\ picture' = [picture EXCEPT ![mat'] = 0]
          /\ main' = "fps" /\ dump' = dump
          /\ UNCHANGED <<buffer, tmp, counters, shown, dumps, reported, dropped>>
      BY <1>2, <2>1, FirstFree DEF main_alloc, MainGoes, TypesOK, Garbage
    <3> QED
      BY <3>1 DEF TypesOK, MainPlaces, buffer, counters
  <2>2. CASE mapped = Pages
    BY <1>2, <2>2 DEF main_alloc, MainGoes, TypesOK, MainPlaces, buffer, counters, memory
  <2> QED
    BY <2>1, <2>2
<1>3. CASE welcome \/ board_to_screen \/ game_over
  BY <1>3 DEF welcome, board_to_screen, game_over, MainGoes, TypesOK, MainPlaces, buffer,
              counters, history
<1>4. CASE compute_fps \/ main_pfd
  BY <1>4 DEF compute_fps, main_pfd, MainGoes, TypesOK, MainPlaces, buffer, memory, history
<1>5. CASE push_frame
  BY <1>5, FollowingSlot DEF push_frame, MainGoes, TypesOK, MainPlaces, counters, memory
<1>6. CASE read_frame
  BY <1>6, FollowingSlot DEF read_frame, DumpGoes, TypesOK, DumpPlaces, counters, memory, history
<1>7. CASE dump_screen \/ dump_count \/ dealloc
  BY <1>7 DEF dump_screen, dump_count, dealloc, DumpGoes, TypesOK, DumpPlaces, buffer, counters,
              memory, history
<1>8. CASE UNCHANGED frvars
  BY <1>8 DEF frvars, TypesOK, buffer, counters, memory, history
<1> QED
  BY <1>1, <1>2, <1>3, <1>4, <1>5, <1>6, <1>7, <1>8 DEF FramesNext, MainStep, DumpStep

-----------------------------------------------------------------------------
(* The flag of the buffer, and the pages on their way *)

(* The flag is up in a full buffer, but for the moment between the two writes of read_frame;
   main has read the flag before it writes, thread_dump has looked for a frame. *)
BufferOK ==
    /\ main \in {"head", "flag"} => IsFull_Flag = 0
    /\ IsFull_Flag = 1 => (head = tail <=> dump # "lower")
    /\ dump \in {"slot", "tail"} => head # tail \/ IsFull_Flag = 1
    /\ main = "head" => frame_buff[head] = mat
    /\ dump = "tail" => frame_buff[tail] = tmp

(* Main inside its critical section, thread_dump is not in the parts of its own that move the
   buffer; and the other way about. *)
LEMMA Apart ==
    ASSUME LockOK
    PROVE  /\ MainInside => dump \notin {"test", "slot", "tail", "lower", "dump", "count", "dealloc"}
           /\ DumpInside => main \notin {"fps", "reset", "pfd", "draw", "text", "push", "head", "flag"}
BY DEF LockOK, MainHas, DumpHas, MainInside, DumpInside

LEMMA BufferStep == TypesOK /\ LockOK /\ BufferOK /\ [FramesNext]_frvars => BufferOK'
<1> SUFFICES ASSUME TypesOK, LockOK, BufferOK, [FramesNext]_frvars PROVE BufferOK'
  OBVIOUS
<1>1. CASE setup \/ main_wait \/ main_signal \/ main_play \/ dump_wait \/ dump_signal
  BY <1>1 DEF setup, main_wait, main_signal, main_play, dump_wait, dump_signal, MainGoes, DumpGoes,
              BufferOK, buffer
<1>2. CASE main_alloc \/ welcome \/ board_to_screen \/ game_over
  BY <1>2 DEF main_alloc, welcome, board_to_screen, game_over, MainGoes, BufferOK, buffer
<1>3. CASE compute_fps \/ main_pfd
  BY <1>3 DEF compute_fps, main_pfd, MainGoes, BufferOK, buffer
<1>4. CASE push_frame
  <2>1. dump \notin {"slot", "tail", "lower"} /\ dump' = dump /\ tail' = tail /\ mat' = mat
    BY <1>4, Apart DEF push_frame, MainGoes, MainInside
  <2> QED
    BY <1>4, <2>1 DEF push_frame, MainGoes, BufferOK, TypesOK
<1>5. CASE read_frame
  <2>1. /\ main \notin {"head", "flag"} /\ main' = main /\ head' = head /\ mat' = mat
        /\ frame_buff' = frame_buff
    BY <1>5, Apart DEF read_frame, DumpGoes, DumpInside
  <2>2. Following(tail) # tail
    BY FollowingSlot DEF TypesOK
  <2> QED
    BY <1>5, <2>1, <2>2 DEF read_frame, DumpGoes, BufferOK, TypesOK
<1>6. CASE dump_screen \/ dump_count \/ dealloc
  BY <1>6 DEF dump_screen, dump_count, dealloc, DumpGoes, BufferOK, buffer
<1>7. CASE UNCHANGED frvars
  BY <1>7 DEF frvars, BufferOK, buffer
<1> QED
  BY <1>1, <1>2, <1>3, <1>4, <1>5, <1>6, <1>7 DEF FramesNext, MainStep, DumpStep

(* What the frames say of the counters, and what compute_fps is about to reset. *)
CountersOK ==
    /\ main = "reset" => fps = total_frames
    /\ main = "draw" => pfd = Count
    /\ reported + total_frames = dumps - (IF dump = "count" THEN 1 ELSE 0)

LEMMA CountersStep ==
    TypesOK /\ LockOK /\ CountersOK /\ [FramesNext]_frvars => CountersOK'
<1> SUFFICES ASSUME TypesOK, LockOK, CountersOK, [FramesNext]_frvars PROVE CountersOK'
  OBVIOUS
<1>1. CASE setup \/ main_wait \/ main_signal \/ main_play \/ dump_wait \/ dump_signal
  BY <1>1 DEF setup, main_wait, main_signal, main_play, dump_wait, dump_signal, MainGoes, DumpGoes,
              CountersOK, counters, history, Count, IsFull, buffer
<1>2. CASE main_alloc \/ welcome \/ board_to_screen \/ game_over
  BY <1>2 DEF main_alloc, welcome, board_to_screen, game_over, MainGoes, CountersOK, counters,
              history
<1>3. CASE compute_fps
  BY <1>3 DEF compute_fps, MainGoes, CountersOK, TypesOK
<1>4. CASE main_pfd
  <2>1. /\ main = "pfd" /\ main' = "draw" /\ dump' = dump /\ pfd' = pending_frames
        /\ UNCHANGED <<buffer, total_frames, fps, history>>
    BY <1>4 DEF main_pfd, MainGoes
  <2>2. Count' = Count
    BY <2>1 DEF Count, IsFull, buffer
  <2>3. pending_frames = Count
    BY <2>1, FramesAssumption DEF pending_frames, Count, IsFull, TypesOK, Slots
  <2> QED
    BY <2>1, <2>2, <2>3 DEF CountersOK, history
<1>5. CASE push_frame
  BY <1>5 DEF push_frame, MainGoes, CountersOK, counters
<1>6. CASE read_frame \/ dump_screen \/ dump_count \/ dealloc
  <2>1. main \notin {"draw", "reset"} /\ main' = main
    BY <1>6, Apart DEF read_frame, dump_screen, dump_count, dealloc, DumpGoes, DumpInside
  <2> QED
    BY <1>6, <2>1 DEF read_frame, dump_screen, dump_count, dealloc, DumpGoes, CountersOK, counters,
                      history, TypesOK
<1>7. CASE UNCHANGED frvars
  BY <1>7 DEF frvars, CountersOK, counters, history, Count, IsFull, buffer
<1> QED
  BY <1>1, <1>2, <1>3, <1>4, <1>5, <1>6, <1>7 DEF FramesNext, MainStep, DumpStep

-----------------------------------------------------------------------------
(* What the steps do to the queue of frames *)

LEMMA SameFrames ==
    ASSUME TypesOK, TypesOK', head' = head, tail' = tail, IsFull' <=> IsFull,
           \A i \in 1 .. Count : frame_buff'[SlotOf(i)] = frame_buff[SlotOf(i)]
    PROVE  frames' = frames
<1> DEFINE f == frames  n == Count
<1>1. /\ n \in Nat /\ f \in Seq(Pages \cup {Nothing}) /\ Len(f) = n
      /\ \A i \in 1 .. n : f[i] = frame_buff[SlotOf(i)]
  BY FramesAt, FramesAssumption DEF Layout
<1>2. n' = n
  BY DEF Count
<1>3. Layout'
  BY FramesAt, PTL
<1>4. /\ f' \in Seq(Pages \cup {Nothing}) /\ Len(f') = n
      /\ \A i \in 1 .. n : f'[i] = frame_buff'[SlotOf(i)']
  BY <1>2, <1>3 DEF Layout
<1>5. \A i : SlotOf(i)' = SlotOf(i)
  BY DEF SlotOf
<1>6. \A i \in 1 .. n : f'[i] = f[i]
  BY <1>1, <1>4, <1>5
<1> HIDE DEF f, n
<1>7. f' = f
  BY <1>1, <1>4, <1>6
<1> QED
  BY <1>7 DEF f

(* push_frame moves head: the page written at the old head is the last of the queue. *)
LEMMA PushAdds ==
    ASSUME TypesOK, TypesOK', BufferOK, main = "head", main' = "flag",
           head' = Following(head), UNCHANGED <<tail, IsFull_Flag, frame_buff>>
    PROVE  frames' = Append(frames, mat)
<1>1. /\ BUFF_SIZE \in Nat \ {0, 1} /\ head \in Slots /\ tail \in Slots
      /\ IsFull_Flag = 0 /\ frame_buff[head] = mat
      /\ head' = IF head = BUFF_SIZE - 1 THEN 0 ELSE head + 1
  BY FramesAssumption, FollowingSlot DEF TypesOK, BufferOK
<1>2. Count \in Nat /\ Count < BUFF_SIZE /\ Count' = Count + 1
  BY <1>1 DEF Count, IsFull, Slots
<1>3. head = SlotOf(Count + 1)
  BY <1>1 DEF Count, IsFull, Slots, SlotOf
<1> DEFINE f == frames  n == Count
<1>4. /\ n \in Nat /\ f \in Seq(Pages \cup {Nothing}) /\ Len(f) = n
      /\ \A i \in 1 .. n : f[i] = frame_buff[SlotOf(i)]
  BY <1>2, FramesAt DEF Layout
<1>5. Layout'
  BY FramesAt, PTL
<1>6. \A i : SlotOf(i)' = SlotOf(i)
  BY DEF SlotOf
<1>7. /\ f' \in Seq(Pages \cup {Nothing}) /\ Len(f') = n + 1
      /\ \A i \in 1 .. n + 1 : f'[i] = frame_buff[SlotOf(i)]
  BY <1>2, <1>5, <1>6 DEF Layout
<1>8. f'[n + 1] = mat /\ mat \in Pages \cup {Nothing}
  <2>1. n + 1 \in 1 .. n + 1
    BY ONLY <1>4
  <2>2. f'[n + 1] = frame_buff[SlotOf(n + 1)]
    BY <1>7, <2>1
  <2>3. frame_buff[SlotOf(n + 1)] = mat
    BY <1>1, <1>3
  <2>4. mat \in Pages \cup {Nothing}
    BY DEF TypesOK
  <2> QED
    BY <2>2, <2>3, <2>4
<1> HIDE DEF f, n
<1>9. \A i \in 1 .. n : f'[i] = f[i]
  BY <1>4, <1>7
<1>10. f' = Append(f, mat)
  BY <1>4, <1>7, <1>8, <1>9
<1> QED
  BY <1>10 DEF f

(* read_frame moves tail: the queue loses its first page. *)
LEMMA ReadTakes ==
    ASSUME TypesOK, TypesOK', BufferOK, main \notin {"flag"}, main' = main,
           dump = "tail", dump' = "lower",
           tail' = Following(tail), UNCHANGED <<head, IsFull_Flag, frame_buff>>
    PROVE  frames # <<>> /\ tmp = Head(frames) /\ frames' = Tail(frames)
<1>1. /\ BUFF_SIZE \in Nat \ {0, 1} /\ head \in Slots /\ tail \in Slots
      /\ IsFull_Flag \in {0, 1} /\ frame_buff[tail] = tmp
      /\ tail' = IF tail = BUFF_SIZE - 1 THEN 0 ELSE tail + 1
      /\ head # tail \/ IsFull_Flag = 1
      /\ IsFull_Flag = 1 => head = tail
  BY FramesAssumption, FollowingSlot DEF TypesOK, BufferOK
<1>2. Count \in Nat \ {0} /\ Count' = Count - 1
  BY <1>1 DEF Count, IsFull, Slots
<1>3. tail = SlotOf(1)
  BY <1>1 DEF Slots, SlotOf
<1>4. ASSUME NEW i \in 1 .. Count - 1 PROVE SlotOf(i)' = SlotOf(i + 1)
  <2>1. i \in 1 .. BUFF_SIZE - 1
    BY <1>1, <1>2, FramesAt DEF Layout
  <2>2. SlotOf(i)' = IF tail' + i - 1 < BUFF_SIZE THEN tail' + i - 1 ELSE tail' + i - 1 - BUFF_SIZE
    BY DEF SlotOf
  <2>3. SlotOf(i + 1) = IF tail + i < BUFF_SIZE THEN tail + i ELSE tail + i - BUFF_SIZE
    BY <1>1, <2>1 DEF SlotOf, Slots
  <2> QED
    BY <1>1, <2>1, <2>2, <2>3 DEF Slots
<1> DEFINE f == frames  n == Count
<1>5. /\ n \in Nat \ {0} /\ f \in Seq(Pages \cup {Nothing}) /\ Len(f) = n
      /\ \A i \in 1 .. n : f[i] = frame_buff[SlotOf(i)]
  BY <1>2, FramesAt DEF Layout
<1>6. Layout'
  BY FramesAt, PTL
<1>7. /\ f' \in Seq(Pages \cup {Nothing}) /\ Len(f') = n - 1
      /\ \A i \in 1 .. n - 1 : f'[i] = frame_buff[SlotOf(i + 1)]
  BY <1>2, <1>4, <1>6 DEF Layout
<1>8. f[1] = tmp
  BY <1>1, <1>3, <1>5
<1> HIDE DEF f, n
<1>9. \A i \in 1 .. n - 1 : f'[i] = f[i + 1]
  BY <1>5, <1>7
<1>10. f # <<>> /\ tmp = Head(f)
  BY <1>5, <1>8
<1>11. f' = Tail(f)
  BY <1>5, <1>7, <1>9
<1> QED
  BY <1>10, <1>11 DEF f

(* push_frame writes the slot at head, which is in no frame of a buffer that is not full. *)
LEMMA WriteIsOutside ==
    ASSUME TypesOK, TypesOK', main = "push", main' = "head", IsFull_Flag = 0,
           UNCHANGED <<head, tail, IsFull_Flag>>, frame_buff' = [frame_buff EXCEPT ![head] = mat]
    PROVE  frames' = frames
<1>1. /\ BUFF_SIZE \in Nat \ {0, 1} /\ head \in Slots /\ tail \in Slots
      /\ frame_buff \in [Slots -> Pages \cup {Nothing}]
  BY FramesAssumption DEF TypesOK
<1>2. ~IsFull /\ ~IsFull'
  BY DEF IsFull
<1>3. \A i \in 1 .. Count : SlotOf(i) # head
  BY <1>1, <1>2 DEF Count, Slots, SlotOf
<1>4. \A i \in 1 .. Count : SlotOf(i) \in Slots
  BY FramesAt DEF Layout
<1>5. \A i \in 1 .. Count : frame_buff'[SlotOf(i)] = frame_buff[SlotOf(i)]
  BY <1>1, <1>3, <1>4
<1> QED
  BY <1>2, <1>5, SameFrames

(* All other steps leave the queue of frames alone: the flag that push_frame raises only says
   what head and tail say already, and the one that read_frame lowers says nothing any more. *)
LEMMA OthersKeepFrames ==
    ASSUME TypesOK, TypesOK', LockOK, BufferOK, [FramesNext]_frvars,
           ~(main = "head" /\ main' = "flag"), ~(dump = "tail" /\ dump' = "lower")
    PROVE  frames' = frames
<1>1. ASSUME UNCHANGED buffer, main # "flag", main' # "flag" PROVE frames' = frames
  BY <1>1, SameFrames DEF buffer, IsFull
<1>2. CASE UNCHANGED frvars
  BY <1>2, SameFrames DEF frvars, buffer, IsFull
<1>3. CASE setup \/ main_wait \/ main_signal \/ main_play \/ main_alloc \/ welcome
  BY <1>1, <1>3 DEF setup, main_wait, main_signal, main_play, main_alloc, welcome, MainGoes
<1>4. CASE board_to_screen \/ game_over \/ compute_fps \/ main_pfd
  BY <1>1, <1>4 DEF board_to_screen, game_over, compute_fps, main_pfd, MainGoes
<1>5. CASE push_frame
  <2>1. CASE main = "push" /\ main' = "signal"
    BY <1>1, <1>5, <2>1 DEF push_frame, MainGoes, buffer
  <2>2. CASE main = "push" /\ main' = "head"
    BY <1>5, <2>2, WriteIsOutside DEF push_frame, MainGoes
  <2>3. CASE main = "flag" /\ main' = "signal"
    <3>1. /\ UNCHANGED <<frame_buff, head, tail>>
          /\ IsFull_Flag' = IF head = tail THEN 1 ELSE IsFull_Flag
      BY <1>5, <2>3 DEF push_frame, MainGoes
    <3>2. IsFull' <=> IsFull
      BY <2>3, <3>1 DEF IsFull, BufferOK
    <3> QED
      BY <3>1, <3>2, SameFrames
  <2> QED
    BY <1>5, <2>1, <2>2, <2>3 DEF push_frame, MainGoes
<1>6. CASE dump_wait \/ dump_signal \/ dump_screen \/ dump_count \/ dealloc
  BY <1>6, SameFrames DEF dump_wait, dump_signal, dump_screen, dump_count, dealloc, buffer, IsFull
<1>7. CASE read_frame
  <2>1. main \notin {"head", "flag"} /\ main' = main /\ UNCHANGED <<frame_buff, head>>
    BY <1>7, Apart DEF read_frame, DumpGoes, DumpInside
  <2>2. tail' = tail /\ (IsFull' <=> IsFull)
    BY <1>7, <2>1 DEF read_frame, DumpGoes, IsFull, BufferOK, TypesOK
  <2> QED
    BY <2>1, <2>2, SameFrames
<1> QED
  BY <1>2, <1>3, <1>4, <1>5, <1>6, <1>7 DEF FramesNext, MainStep, DumpStep

-----------------------------------------------------------------------------
(* The pages *)

(* Where each allocated page is, no page being in two places. *)
PagesOK ==
    /\ mapped = Range(frames) \cup MainHolds \cup DumpHolds \cup dropped
    /\ IsInjective(frames)
    /\ Range(frames) \cap (MainHolds \cup DumpHolds \cup dropped) = {}
    /\ (MainHolds \cup DumpHolds) \cap dropped = {}

LEMMA PagesStep ==
    TypesOK /\ TypesOK' /\ LockOK /\ BufferOK /\ PagesOK /\ [FramesNext]_frvars => PagesOK'
<1> SUFFICES ASSUME TypesOK, TypesOK', LockOK, BufferOK, PagesOK, [FramesNext]_frvars
             PROVE  PagesOK'
  OBVIOUS
<1>1. ASSUME frames' = frames, UNCHANGED <<mapped, dropped>>,
             MainHolds' = MainHolds, DumpHolds' = DumpHolds
      PROVE  PagesOK'
  BY <1>1 DEF PagesOK
<1>2. CASE UNCHANGED frvars
  <2>1. frames' = frames
    BY <1>2, OthersKeepFrames DEF frvars
  <2> QED
    BY <1>1, <1>2, <2>1 DEF frvars, memory, history, MainHolds, DumpHolds
<1>3. CASE setup \/ main_wait \/ main_signal \/ main_play \/ dump_wait \/ dump_signal
  <2>1. frames' = frames
    BY <1>3, OthersKeepFrames DEF setup, main_wait, main_signal, main_play, dump_wait, dump_signal,
                                  MainGoes, DumpGoes
  <2> QED
    BY <1>1, <1>3, <2>1 DEF setup, main_wait, main_signal, main_play, dump_wait, dump_signal,
                            MainGoes, DumpGoes, memory, history, MainHolds, DumpHolds
<1>4. CASE main_alloc
  <2>1. frames' = frames /\ DumpHolds' = DumpHolds /\ dropped' = dropped /\ MainHolds = {}
    BY <1>4, OthersKeepFrames DEF main_alloc, MainGoes, MainHolds, DumpHolds
  <2>2. CASE mapped # Pages
    <3>1. mat' \in Pages \ mapped /\ mapped' = mapped \cup {mat'} /\ MainHolds' = {mat'}
      BY <1>4, <2>2, FirstFree DEF main_alloc, MainGoes, TypesOK, MainHolds
    <3> QED
      BY <2>1, <3>1 DEF PagesOK
  <2>3. CASE mapped = Pages
    BY <1>1, <1>4, <2>1, <2>3 DEF main_alloc, MainGoes, MainHolds, memory
  <2> QED
    BY <2>2, <2>3
<1>5. CASE welcome \/ board_to_screen \/ game_over \/ compute_fps \/ main_pfd
  <2>1. frames' = frames
    BY <1>5, OthersKeepFrames DEF welcome, board_to_screen, game_over, compute_fps, main_pfd,
                                  MainGoes
  <2> QED
    BY <1>1, <1>5, <2>1 DEF welcome, board_to_screen, game_over, compute_fps, main_pfd,
                            MainGoes, memory, history, MainHolds, DumpHolds
<1>6. CASE push_frame
  <2>1. mat' = mat /\ mapped' = mapped /\ DumpHolds = {} /\ DumpHolds' = {}
    BY <1>6, Apart DEF push_frame, MainGoes, MainInside, memory, DumpHolds
  <2>2. CASE main = "push" /\ main' = "signal"
    <3>1. frames' = frames
      BY <2>2, <1>6, OthersKeepFrames DEF push_frame, MainGoes
    <3>2. MainHolds = {mat} /\ MainHolds' = {} /\ dropped' = dropped \cup {mat}
      BY <2>2, <1>6 DEF push_frame, MainGoes, MainHolds
    <3> QED
      BY <2>1, <3>1, <3>2 DEF PagesOK
  <2>3. CASE main = "head" /\ main' = "flag"
    <3>1. /\ MainHolds = {mat} /\ MainHolds' = {} /\ dropped' = dropped
          /\ mat \in Pages \cup {Nothing}
      BY <2>3, <1>6 DEF push_frame, MainGoes, MainHolds, TypesOK
    <3>2. frames' = Append(frames, mat)
      BY <2>3, <1>6, PushAdds DEF push_frame, MainGoes
    <3>3. frames \in Seq(Pages \cup {Nothing})
      BY FramesAt DEF Layout
    <3>4. mat \notin Range(frames)
      BY <3>1 DEF PagesOK
    <3>5. IsInjective(frames') /\ Range(frames') = Range(frames) \cup {mat}
      BY <3>1, <3>2, <3>3, <3>4, AddTail DEF PagesOK
    <3> QED
      BY <2>1, <3>1, <3>5 DEF PagesOK
  <2>4. CASE (main = "push" /\ main' = "head") \/ (main = "flag" /\ main' = "signal")
    <3>1. frames' = frames
      BY <2>4, <1>6, OthersKeepFrames DEF push_frame, MainGoes
    <3> QED
      BY <1>1, <2>1, <2>4, <3>1, <1>6 DEF push_frame, MainGoes, MainHolds
  <2> QED
    BY <1>6, <2>2, <2>3, <2>4 DEF push_frame, MainGoes
<1>7. CASE read_frame
  <2>1. MainHolds = {} /\ MainHolds' = {} /\ mapped' = mapped /\ dropped' = dropped
    BY <1>7, Apart DEF read_frame, DumpGoes, DumpInside, MainHolds, memory, history
  <2>2. CASE dump = "tail" /\ dump' = "lower"
    <3>1. /\ main # "flag" /\ main' = main /\ tmp' = tmp
          /\ tail' = Following(tail) /\ UNCHANGED <<head, IsFull_Flag, frame_buff>>
      BY <2>2, <1>7, Apart DEF read_frame, DumpGoes, DumpInside
    <3>2. DumpHolds = {} /\ DumpHolds' = {tmp}
      BY <2>2, <3>1 DEF DumpHolds
    <3>3. frames # <<>> /\ tmp = Head(frames) /\ frames' = Tail(frames)
      BY <2>2, <3>1, ReadTakes
    <3>4. frames \in Seq(Pages \cup {Nothing})
      BY FramesAt DEF Layout
    <3>5. /\ IsInjective(frames') /\ tmp \notin Range(frames')
          /\ Range(frames) = Range(frames') \cup {tmp}
      BY <3>3, <3>4, DelFirst DEF PagesOK
    <3> QED
      BY <2>1, <3>2, <3>5 DEF PagesOK
  <2>3. CASE ~(dump = "tail" /\ dump' = "lower")
    <3>1. frames' = frames
      BY <2>3, <1>7, OthersKeepFrames DEF read_frame, DumpGoes
    <3>2. DumpHolds' = DumpHolds
      BY <2>3, <1>7 DEF read_frame, DumpGoes, DumpHolds
    <3> QED
      BY <1>1, <2>1, <3>1, <3>2
  <2> QED
    BY <2>2, <2>3
<1>8. CASE dump_screen \/ dump_count
  <2>1. frames' = frames
    BY <1>8, OthersKeepFrames DEF dump_screen, dump_count, DumpGoes
  <2> QED
    BY <1>1, <1>8, <2>1 DEF dump_screen, dump_count, DumpGoes, memory, history, MainHolds, DumpHolds
<1>9. CASE dealloc
  <2>1. frames' = frames
    BY <1>9, OthersKeepFrames DEF dealloc, DumpGoes
  <2>2. /\ MainHolds = {} /\ MainHolds' = {} /\ mapped' = mapped \ {tmp} /\ dropped' = dropped
        /\ DumpHolds = {tmp} /\ DumpHolds' = {}
    BY <1>9, Apart DEF dealloc, DumpGoes, DumpInside, MainHolds, DumpHolds, history
  <2> QED
    BY <2>1, <2>2 DEF PagesOK
<1> QED
  BY <1>2, <1>3, <1>4, <1>5, <1>6, <1>7, <1>8, <1>9 DEF FramesNext, MainStep, DumpStep

(* The pages are then as many as the run's equation says. *)
LEMMA PagesCounted == TypesOK /\ LockOK /\ PagesOK => PagesAccounted
<1> SUFFICES ASSUME TypesOK, LockOK, PagesOK PROVE PagesAccounted
  OBVIOUS
<1> DEFINE f == Range(frames)  n == Count  m == MainHolds  d == DumpHolds
<1>1. IsFiniteSet(f) /\ Cardinality(f) = n
  <2>1. frames \in Seq(Pages \cup {Nothing}) /\ Len(frames) = n /\ IsInjective(frames)
    BY FramesAt DEF Layout, PagesOK
  <2> QED
    BY <2>1, Members
<1>2. IsFiniteSet(dropped) /\ IsFiniteSet(m) /\ IsFiniteSet(d)
  BY FramesAssumption, FS_Subset, FS_EmptySet, FS_Singleton DEF TypesOK, MainHolds, DumpHolds
<1>3. m \cap d = {}
  BY Apart DEF MainHolds, DumpHolds, DumpInside
<1>4. /\ mapped = ((f \cup m) \cup d) \cup dropped
      /\ f \cap m = {} /\ (f \cup m) \cap d = {} /\ ((f \cup m) \cup d) \cap dropped = {}
  BY <1>3 DEF PagesOK
<1>5. IsFiniteSet(f \cup m) /\ Cardinality(f \cup m) = n + Cardinality(m)
  BY <1>1, <1>2, <1>4, CountedApart
<1>6. /\ IsFiniteSet((f \cup m) \cup d)
      /\ Cardinality((f \cup m) \cup d) = n + Cardinality(m) + Cardinality(d)
  BY <1>2, <1>4, <1>5, CountedApart
<1>7. Cardinality(mapped) = n + Cardinality(m) + Cardinality(d) + Cardinality(dropped)
  BY <1>2, <1>4, <1>6, CountedApart
<1> QED
  BY <1>7 DEF PagesAccounted, PagesOK

-----------------------------------------------------------------------------
(* The order of the frames *)

(* What the i-th page of the buffer shows. *)
FrameAt(i) == picture[frames[i]]

(* The frames in the buffer are in the order in which they were begun, after the one that was
   shown last, with the one that thread_dump has taken between it and them, and before the one
   that main draws, which is whole when it is pushed. *)
OrderOK ==
    /\ \A i \in 1 .. Len(frames) : FrameAt(i) > shown /\ FrameAt(i) <= drawn
    /\ \A i, j \in 1 .. Len(frames) : i < j => FrameAt(i) < FrameAt(j)
    /\ dump \in {"lower", "dump"} =>
          /\ picture[tmp] > shown /\ picture[tmp] <= drawn
          /\ \A i \in 1 .. Len(frames) : FrameAt(i) > picture[tmp]
    /\ MainHolds # {} => drawn > shown /\ \A i \in 1 .. Len(frames) : FrameAt(i) < drawn
    /\ main \in {"push", "head"} => picture[mat] = drawn
    /\ shown <= drawn

(* A step that draws on main's page only, or on a free one, changes no frame in the buffer. *)
LEMMA DrawingKeepsFrames ==
    ASSUME TypesOK, PagesOK, NEW p \in Pages, p \notin Range(frames), NEW n,
           picture' = [picture EXCEPT ![p] = n], frames' = frames
    PROVE  \A i \in 1 .. Len(frames) : FrameAt(i)' = FrameAt(i) /\ FrameAt(i) \in Nat
<1> DEFINE f == frames
<1>1. f \in Seq(Pages \cup {Nothing}) /\ f' = f
  BY FramesAt DEF Layout
<1>2. p \notin Range(f) /\ Range(f) \subseteq Pages /\ picture \in [Pages -> Nat]
  BY DEF PagesOK, TypesOK
<1>3. \A i : FrameAt(i) = picture[f[i]] /\ FrameAt(i)' = picture'[f'[i]]
  BY DEF FrameAt
<1> HIDE DEF f
<1>4. DOMAIN f = 1 .. Len(f)
  BY <1>1, LenProperties
<1>5. \A i \in 1 .. Len(f) : f[i] \in Range(f)
  BY <1>4 DEF Range
<1>6. \A i \in 1 .. Len(f) : f[i] \in Pages /\ f[i] # p
  BY <1>2, <1>5
<1>7. \A i \in 1 .. Len(f) : picture'[f[i]] = picture[f[i]] /\ picture[f[i]] \in Nat
  BY <1>2, <1>6
<1> QED
  BY <1>1, <1>3, <1>7 DEF f

LEMMA OrderStep ==
    TypesOK /\ TypesOK' /\ LockOK /\ BufferOK /\ PagesOK /\ OrderOK /\ [FramesNext]_frvars
    => OrderOK'
<1> SUFFICES ASSUME TypesOK, TypesOK', LockOK, BufferOK, PagesOK, OrderOK, [FramesNext]_frvars
             PROVE  OrderOK'
  OBVIOUS
<1>1. ASSUME frames' = frames, UNCHANGED <<picture, drawn, shown, tmp, mat>>,
             MainHolds' = MainHolds, dump' \in {"lower", "dump"} => dump \in {"lower", "dump"},
             main' \in {"push", "head"} => main \in {"push", "head"}
      PROVE  OrderOK'
  BY <1>1 DEF OrderOK, FrameAt
<1>2. CASE UNCHANGED frvars
  <2>1. frames' = frames
    BY <1>2, OthersKeepFrames DEF frvars
  <2> QED
    BY <1>1, <1>2, <2>1 DEF frvars, memory, history, MainHolds
<1>3. CASE setup \/ main_wait \/ main_signal \/ main_play \/ dump_wait \/ dump_signal
  <2>1. frames' = frames
    BY <1>3, OthersKeepFrames DEF setup, main_wait, main_signal, main_play, dump_wait, dump_signal,
                                  MainGoes, DumpGoes
  <2> QED
    BY <1>1, <1>3, <2>1 DEF setup, main_wait, main_signal, main_play, dump_wait, dump_signal,
                            MainGoes, DumpGoes, memory, history, MainHolds
<1>4. CASE main_alloc
  <2>1. /\ frames' = frames /\ MainHolds = {}
        /\ UNCHANGED <<dump, tmp, shown>> /\ dump \notin {"lower", "dump"}
    BY <1>4, OthersKeepFrames, Apart DEF main_alloc, MainGoes, MainHolds, MainInside
  <2>2. CASE mapped # Pages
    <3>1. /\ mat' \in Pages /\ mat' \notin Range(frames)
          /\ picture' = [picture EXCEPT ![mat'] = 0] /\ drawn' = drawn + 1 /\ main' = "fps"
      <4>1. mat' \in Pages \ mapped /\ Range(frames) \subseteq mapped
        BY <1>4, <2>2, FirstFree DEF main_alloc, TypesOK, PagesOK
      <4> QED
        BY <1>4, <2>2, <4>1 DEF main_alloc, MainGoes, Garbage
    <3>2. \A i \in 1 .. Len(frames) : FrameAt(i)' = FrameAt(i) /\ FrameAt(i) \in Nat
      BY <2>1, <3>1, DrawingKeepsFrames
    <3>3. drawn \in Nat /\ shown \in Nat
      BY DEF TypesOK
    <3> QED
      BY <2>1, <3>1, <3>2, <3>3 DEF OrderOK
  <2>3. CASE mapped = Pages
    <3>1. MainHolds' = {} /\ main' = "fault" /\ UNCHANGED <<drawn, picture>>
      BY <1>4, <2>3 DEF main_alloc, MainGoes, MainHolds, memory
    <3> QED
      BY <2>1, <3>1 DEF OrderOK, FrameAt
  <2> QED
    BY <2>2, <2>3
<1>5. CASE welcome \/ game_over \/ (board_to_screen /\ main' = "push")
  <2>1. /\ frames' = frames /\ MainHolds = {mat} /\ main' = "push" /\ dump \notin {"lower", "dump"}
        /\ UNCHANGED <<dump, tmp, mat, drawn, shown>> /\ picture' = [picture EXCEPT ![mat] = drawn]
        /\ mat \in Pages
    BY <1>5, OthersKeepFrames, Apart DEF welcome, game_over, board_to_screen, MainGoes, MainHolds,
                                         MainInside, history, TypesOK
  <2>2. mat \notin Range(frames)
    BY <2>1 DEF PagesOK
  <2>3. \A i \in 1 .. Len(frames) : FrameAt(i)' = FrameAt(i) /\ FrameAt(i) \in Nat
    BY <2>1, <2>2, DrawingKeepsFrames
  <2>4. picture'[mat] = drawn
    BY <2>1 DEF TypesOK
  <2> QED
    BY <2>1, <2>3, <2>4 DEF OrderOK
<1>6. CASE compute_fps \/ main_pfd \/ (board_to_screen /\ main' # "push")
  <2>1. frames' = frames
    BY <1>6, OthersKeepFrames DEF board_to_screen, compute_fps, main_pfd, MainGoes
  <2> QED
    BY <1>1, <1>6, <2>1 DEF board_to_screen, compute_fps, main_pfd, MainGoes, memory, history,
                            MainHolds
<1>7. CASE push_frame
  <2>1. /\ UNCHANGED <<dump, tmp, mat, drawn, shown, picture>> /\ dump \notin {"lower", "dump"}
        /\ main' \in {"push", "head"} => main \in {"push", "head"}
    BY <1>7, Apart DEF push_frame, MainGoes, MainInside, memory
  <2>2. CASE main = "head" /\ main' = "flag"
    <3> DEFINE f == frames
    <3>1. f' = Append(f, mat) /\ mat \in Pages
      BY <1>7, <2>2, PushAdds DEF push_frame, MainGoes, TypesOK
    <3>2. f \in Seq(Pages \cup {Nothing})
      BY FramesAt DEF Layout
    <3>3. \A i : FrameAt(i) = picture[f[i]] /\ FrameAt(i)' = picture[f'[i]]
      BY <2>1 DEF FrameAt
    <3>4. MainHolds = {mat} /\ MainHolds' = {}
      BY <2>1, <2>2 DEF MainHolds
    <3>5. /\ \A i \in 1 .. Len(f) : picture[f[i]] > shown /\ picture[f[i]] < drawn
          /\ \A i, j \in 1 .. Len(f) : i < j => picture[f[i]] < picture[f[j]]
          /\ drawn > shown /\ picture[mat] = drawn
      BY <2>2, <3>3, <3>4 DEF OrderOK
    <3>6. drawn \in Nat /\ shown \in Nat
      BY DEF TypesOK
    <3> HIDE DEF f
    <3>7. /\ Len(f) \in Nat /\ Len(f') = Len(f) + 1
          /\ \A i \in 1 .. Len(f) : f'[i] = f[i]
          /\ f'[Len(f) + 1] = mat
      BY <3>1, <3>2, AppendProperties, LenProperties
    <3>8. \A i \in 1 .. Len(f) : picture[f[i]] \in Nat
      <4>1. DOMAIN f = 1 .. Len(f) /\ Range(f) \subseteq Pages /\ picture \in [Pages -> Nat]
        BY <3>2, LenProperties DEF PagesOK, TypesOK, f
      <4> QED
        BY <4>1 DEF Range
    <3>9. /\ \A i \in 1 .. Len(f') : picture[f'[i]] > shown /\ picture[f'[i]] <= drawn
          /\ \A i, j \in 1 .. Len(f') : i < j => picture[f'[i]] < picture[f'[j]]
      <4>1. \A i \in 1 .. Len(f') : i \in 1 .. Len(f) \/ i = Len(f) + 1
        BY <3>7
      <4>2. \A i \in 1 .. Len(f) : picture[f'[i]] = picture[f[i]]
        BY <3>7
      <4>3. picture[f'[Len(f) + 1]] = drawn
        BY <3>5, <3>7
      <4>4. \A i \in 1 .. Len(f') : picture[f'[i]] > shown /\ picture[f'[i]] <= drawn
        <5> TAKE i \in 1 .. Len(f')
        <5>1. CASE i \in 1 .. Len(f)
          BY <3>5, <4>2, <5>1, <3>6, <3>8
        <5>2. CASE i = Len(f) + 1
          BY <3>5, <3>6, <4>3, <5>2
        <5> QED
          BY <4>1, <5>1, <5>2
      <4> QED
        BY <3>5, <3>7, <4>1, <4>2, <4>3, <4>4
    <3>10. /\ \A i \in 1 .. Len(frames') : FrameAt(i)' > shown' /\ FrameAt(i)' <= drawn'
          /\ \A i, j \in 1 .. Len(frames') : i < j => FrameAt(i)' < FrameAt(j)'
      BY <2>1, <3>3, <3>9 DEF f
    <3> QED
      BY <2>1, <2>2, <3>4, <3>5, <3>6, <3>10 DEF OrderOK
  <2>3. CASE ~(main = "head" /\ main' = "flag")
    <3>1. frames' = frames
      BY <2>3, <1>7, OthersKeepFrames DEF push_frame, MainGoes
    <3>2. MainHolds' = MainHolds \/ MainHolds' = {}
      BY <2>1, <2>3, <1>7 DEF push_frame, MainGoes, MainHolds
    <3> QED
      BY <2>1, <3>1, <3>2 DEF OrderOK, FrameAt
  <2> QED
    BY <2>2, <2>3
<1>8. CASE read_frame
  <2>1. /\ MainHolds = {} /\ MainHolds' = {} /\ main' = main /\ main \notin {"push", "head"}
        /\ UNCHANGED <<drawn, shown, picture>>
    BY <1>8, Apart DEF read_frame, DumpGoes, DumpInside, MainHolds, memory, history
  <2>2. CASE dump = "tail" /\ dump' = "lower"
    <3>1. /\ main # "flag" /\ main' = main /\ tmp' = tmp
          /\ tail' = Following(tail) /\ UNCHANGED <<head, IsFull_Flag, frame_buff>>
      BY <2>2, <1>8, Apart DEF read_frame, DumpGoes, DumpInside
    <3> DEFINE f == frames
    <3>2. f # <<>> /\ tmp = Head(f) /\ f' = Tail(f)
      BY <2>2, <3>1, ReadTakes
    <3>3. f \in Seq(Pages \cup {Nothing})
      BY FramesAt DEF Layout
    <3>4. \A i : FrameAt(i) = picture[f[i]] /\ FrameAt(i)' = picture[f'[i]]
      BY <2>1 DEF FrameAt
    <3>5. /\ \A i \in 1 .. Len(f) : picture[f[i]] > shown /\ picture[f[i]] <= drawn
          /\ \A i, j \in 1 .. Len(f) : i < j => picture[f[i]] < picture[f[j]]
          /\ shown <= drawn
      BY <3>4 DEF OrderOK
    <3> HIDE DEF f
    <3>6. /\ Len(f) \in Nat \ {0} /\ Len(f') = Len(f) - 1 /\ tmp = f[1]
          /\ \A i \in 1 .. Len(f') : f'[i] = f[i + 1]
      BY <3>2, <3>3, EmptySeq, LenProperties, HeadTailProperties
    <3>7. /\ \A i \in 1 .. Len(f') : picture[f'[i]] > shown /\ picture[f'[i]] <= drawn
          /\ \A i, j \in 1 .. Len(f') : i < j => picture[f'[i]] < picture[f'[j]]
          /\ picture[tmp] > shown /\ picture[tmp] <= drawn
          /\ \A i \in 1 .. Len(f') : picture[f'[i]] > picture[tmp]
      <4>1. \A i \in 1 .. Len(f') : i + 1 \in 1 .. Len(f) /\ 1 < i + 1
        BY <3>6
      <4>2. 1 \in 1 .. Len(f)
        BY <3>6
      <4>3. \A i \in 1 .. Len(f') : picture[f'[i]] > shown /\ picture[f'[i]] <= drawn
        BY <3>5, <3>6, <4>1
      <4>4. \A i, j \in 1 .. Len(f') : i < j => picture[f'[i]] < picture[f'[j]]
        <5> SUFFICES ASSUME NEW i \in 1 .. Len(f'), NEW j \in 1 .. Len(f'), i < j
                     PROVE  picture[f'[i]] < picture[f'[j]]
          OBVIOUS
        <5>1. i + 1 < j + 1 /\ f'[i] = f[i + 1] /\ f'[j] = f[j + 1]
          BY <3>6
        <5> QED
          BY <3>5, <4>1, <5>1
      <4>5. picture[tmp] > shown /\ picture[tmp] <= drawn
        BY <3>5, <3>6, <4>2
      <4>6. \A i \in 1 .. Len(f') : picture[f[1]] < picture[f[i + 1]]
        BY <3>5, <4>1, <4>2
      <4>7. \A i \in 1 .. Len(f') : picture[f'[i]] > picture[tmp]
        BY <3>6, <4>6
      <4> QED
        BY <4>3, <4>4, <4>5, <4>7
    <3>8. /\ \A i \in 1 .. Len(frames') : FrameAt(i)' > shown' /\ FrameAt(i)' <= drawn'
          /\ \A i, j \in 1 .. Len(frames') : i < j => FrameAt(i)' < FrameAt(j)'
          /\ picture'[tmp'] > shown' /\ picture'[tmp'] <= drawn'
          /\ \A i \in 1 .. Len(frames') : FrameAt(i)' > picture'[tmp']
      BY <2>1, <3>1, <3>4, <3>7 DEF f
    <3> QED
      BY <2>1, <3>5, <3>8 DEF OrderOK
  <2>3. CASE ~(dump = "tail" /\ dump' = "lower")
    <3>1. frames' = frames
      BY <2>3, <1>8, OthersKeepFrames DEF read_frame, DumpGoes
    <3>2. dump' \in {"lower", "dump"} => dump \in {"lower", "dump"} /\ tmp' = tmp
      BY <2>3, <1>8 DEF read_frame, DumpGoes
    <3> QED
      BY <2>1, <3>1, <3>2 DEF OrderOK, FrameAt
  <2> QED
    BY <2>2, <2>3
<1>9. CASE dump_screen
  <2>1. /\ frames' = frames /\ MainHolds' = {} /\ main' = main /\ main \notin {"push", "head"}
        /\ UNCHANGED <<drawn, picture, tmp>> /\ dump = "dump" /\ dump' = "count"
        /\ shown' = IF tmp \in mapped THEN picture[tmp] ELSE shown
    BY <1>9, Apart, OthersKeepFrames DEF dump_screen, DumpGoes, DumpInside, MainHolds, memory
  <2>2. shown' = picture[tmp]
    BY <2>1 DEF PagesOK, DumpHolds
  <2> QED
    BY <2>1, <2>2 DEF OrderOK, FrameAt
<1>10. CASE dump_count \/ dealloc
  <2>1. frames' = frames
    BY <1>10, OthersKeepFrames DEF dump_count, dealloc, DumpGoes
  <2> QED
    BY <1>1, <1>10, <2>1 DEF dump_count, dealloc, DumpGoes, memory, history, MainHolds
<1> QED
  BY <1>2, <1>3, <1>4, <1>5, <1>6, <1>7, <1>8, <1>9, <1>10 DEF FramesNext, MainStep, DumpStep

-----------------------------------------------------------------------------
(* The theorems *)

FramesInv ==
    TypesOK /\ LockOK /\ BufferOK /\ CountersOK /\ PagesOK /\ OrderOK

LEMMA FramesStart == FramesInit => FramesInv
<1> SUFFICES ASSUME FramesInit PROVE FramesInv
  OBVIOUS
<1>1. BUFF_SIZE \in Nat \ {0, 1} /\ 0 \in Slots
  BY FramesAssumption DEF Slots
<1>2. TypesOK
  BY <1>1 DEF FramesInit, TypesOK, MainPlaces, DumpPlaces, Garbage
<1>3. ~IsFull /\ Count = 0
  BY <1>1 DEF FramesInit, IsFull, Count
<1>4. frames = <<>>
  BY <1>2, <1>3, FramesAt, LenZero DEF Layout
<1>5. Range(frames) = {} /\ IsInjective(frames) /\ Len(frames) = 0
  BY <1>4, EmptyQueue
<1>6. main = "setup" /\ dump = "off" /\ mapped = {} /\ dropped = {} /\ drawn = 0 /\ shown = 0
  BY DEF FramesInit
<1>7. MainHolds = {} /\ DumpHolds = {}
  BY <1>6 DEF MainHolds, DumpHolds
<1>8. PagesOK
  BY <1>5, <1>6, <1>7 DEF PagesOK
<1>9. OrderOK
  BY <1>5, <1>6, <1>7 DEF OrderOK
<1>10. BufferOK /\ CountersOK
  BY DEF FramesInit, BufferOK, CountersOK
<1> QED
  BY <1>2, <1>8, <1>9, <1>10, LockInit DEF FramesInv

LEMMA FramesInvariant == FramesSpec => []FramesInv
<1>1. FramesInv /\ [FramesNext]_frvars => FramesInv'
  BY TypesStep, LockStep, BufferStep, CountersStep, PagesStep, OrderStep DEF FramesInv
<1> QED
  BY <1>1, FramesStart, PTL DEF FramesSpec

(* Every allocated page is drawn by main, or shown by thread_dump, or waits in the buffer, once,
   or was lost by a push on a full buffer. *)
THEOREM PagesHaveTheirPlace == FramesSpec => []PagesAccounted
<1>1. FramesInv => PagesAccounted
  BY PagesCounted DEF FramesInv
<1> QED
  BY <1>1, FramesInvariant, PTL

(* What dump_screen is about to show is a whole frame, later than every frame shown before. *)
THEOREM FramesComeInOrder == FramesSpec => []FramesInOrder
<1>1. FramesInv => FramesInOrder
  BY DEF FramesInv, FramesInOrder, PagesOK, OrderOK, DumpHolds
<1> QED
  BY <1>1, FramesInvariant, PTL

(* The pfd drawn on a frame is the number of frames before it, and every frame shown is told of
   by fps, once. *)
THEOREM CountersTellTheTruth == FramesSpec => []CountersAreTrue
<1>1. FramesInv => CountersAreTrue
  BY FramesAt DEF FramesInv, CountersAreTrue, CountersOK, Layout
<1> QED
  BY <1>1, FramesInvariant, PTL

(* When main has drawn at address -1, there was no page left, and none is freed any more. *)
AllTaken == main = "fault" => mapped = Pages

LEMMA AllTakenStep == AllTaken /\ [FramesNext]_frvars => AllTaken'
<1> SUFFICES ASSUME AllTaken, [FramesNext]_frvars, main' = "fault" PROVE mapped' = Pages
  BY DEF AllTaken
<1>1. CASE MainStep
  BY <1>1 DEF MainStep, MainGoes, setup, main_wait, main_alloc, welcome, compute_fps, main_pfd,
              board_to_screen, game_over, push_frame, main_signal, main_play, memory
<1>2. CASE DumpStep
  BY <1>2 DEF DumpStep, Halted, DumpGoes, dump_wait, read_frame, dump_screen, dump_count,
              dealloc, dump_signal
<1>3. CASE UNCHANGED frvars
  BY <1>3 DEF AllTaken, frvars, memory
<1> QED
  BY <1>1, <1>2, <1>3 DEF FramesNext

(* alloc finds no page only when all pages but those that fill the buffer have been lost by
   pushes on a full buffer. *)
THEOREM PagesRunOutByLoss == FramesSpec => []FaultNeedsLoss
<1>1. FramesInv /\ AllTaken => FaultNeedsLoss
  <2> SUFFICES ASSUME FramesInv, AllTaken, main = "fault"
               PROVE  Cardinality(Pages) <= BUFF_SIZE + Cardinality(dropped)
    BY DEF FaultNeedsLoss
  <2>1. MainHolds = {}
    BY DEF MainHolds
  <2>2. DumpHolds = {}
    BY DEF FramesInv, LockOK, MainHas, DumpHas, MainInside, DumpInside, DumpHolds
  <2>3. Cardinality(Pages) = Count + Cardinality({}) + Cardinality({}) + Cardinality(dropped)
    BY <2>1, <2>2, PagesCounted DEF FramesInv, PagesAccounted, AllTaken
  <2>4. Count \in 0 .. BUFF_SIZE
    BY FramesAt DEF FramesInv, Layout
  <2>5. Cardinality({}) = 0 /\ Cardinality(dropped) \in Nat /\ BUFF_SIZE \in Nat
    BY FramesAssumption, FS_Subset, FS_EmptySet, FS_CardinalityType DEF FramesInv, TypesOK
  <2> QED
    BY <2>3, <2>4, <2>5
<1>2. FramesInit => AllTaken
  BY DEF FramesInit, AllTaken
<1> QED
  BY <1>1, <1>2, AllTakenStep, FramesInvariant, PTL DEF FramesSpec
=============================================================================
