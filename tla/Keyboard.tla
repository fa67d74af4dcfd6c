------------------------------ MODULE Keyboard ------------------------------
(***************************************************************************)
(* The keyboard of ZeOS: keyboard_routine (zeos/interrupt.c), the circular *)
(* buffer (zeos/io.c) and sys_get_key (zeos/sys.c).  The interrupt comes   *)
(* in user mode only, so a call and an interrupt are one step each.        *)
(*                                                                         *)
(* A press (make code) is ignored; the key is stored when it is released.  *)
(* An unread key is never overwritten: when the buffer is full the new key *)
(* is dropped, and both are stuttering steps.  Head and Tail of io.c are   *)
(* called head and tail here.                                              *)
(***************************************************************************)
EXTENDS Integers, Sequences

CONSTANTS
    BUFF_SIZE,  \* entries of circular_buff
    Chars,      \* the values of a char
    NUL,        \* '\0', which circular_buff is filled with at first
    CODES,      \* scan codes without their release bit, 128 in the program
    char_map    \* the table of interrupt.c: fewer entries than there are codes

ASSUME KeyboardAssumption ==
    /\ BUFF_SIZE \in Nat \ {0}
    /\ NUL \in Chars
    /\ CODES \in Nat
    /\ \E n \in 0 .. CODES : char_map \in [0 .. n - 1 -> Chars]

VARIABLES
    circular_buff,
    head,           \* where the next key is written
    tail,           \* where the next key is read
    IsFull_Flag,
    got,            \* the variable that the program passes to get_key
    ret             \* what its last get_key returned

vars == <<circular_buff, head, tail, IsFull_Flag, got, ret>>

Slots == 0 .. BUFF_SIZE - 1

Init ==
    /\ circular_buff = [i \in Slots |-> NUL]
    /\ head = 0
    /\ tail = 0
    /\ IsFull_Flag = 0
    /\ got = NUL
    /\ ret = 0

Following(i) == (i + 1) % BUFF_SIZE

write_to_buffer(c) ==
    /\ IsFull_Flag = 0
    /\ circular_buff' = [circular_buff EXCEPT ![head] = c]
    /\ head' = Following(head)
    /\ IsFull_Flag' = IF Following(head) = tail THEN 1 ELSE 0
    /\ UNCHANGED tail

(* char_map[c & 0x7F]: beyond the table, whatever the compiler put there. *)
char_map_at(i) == IF i \in DOMAIN char_map THEN {char_map[i]} ELSE Chars

(* keyboard_routine on the release of the key with code i. *)
keyboard_routine ==
    /\ \E i \in 0 .. CODES - 1 : \E c \in char_map_at(i) : write_to_buffer(c)
    /\ UNCHANGED <<got, ret>>

(* Mutant: the flag stays up after a read. *)
read_from_buffer_FlagStays ==
    \/ /\ head = tail /\ IsFull_Flag # 1
       /\ ret' = -1
       /\ UNCHANGED <<circular_buff, head, tail, IsFull_Flag, got>>
    \/ /\ head # tail \/ IsFull_Flag = 1
       /\ got' = circular_buff[tail]
       /\ tail' = Following(tail)
       /\ ret' = 0
       /\ UNCHANGED <<circular_buff, head, IsFull_Flag>>

read_from_buffer ==
    \/ /\ head = tail /\ IsFull_Flag # 1
       /\ ret' = -1
       /\ UNCHANGED <<circular_buff, head, tail, IsFull_Flag, got>>
    \/ /\ head # tail \/ IsFull_Flag = 1
       /\ got' = circular_buff[tail]
       /\ tail' = Following(tail)
       /\ IsFull_Flag' = 0
       /\ ret' = 0
       /\ UNCHANGED <<circular_buff, head>>

(* sys_get_key with an address that access_ok refuses: -EFAULT, and the key stays. *)
BadAddress ==
    /\ ret' = -14
    /\ UNCHANGED <<circular_buff, head, tail, IsFull_Flag, got>>

sys_get_key == read_from_buffer \/ BadAddress

Next == keyboard_routine \/ sys_get_key

Spec == Init /\ [][Next]_vars

-----------------------------------------------------------------------------
(* The types of the C objects, and what the full flag adds to two equal indices: it is up
   only when head has caught up with tail. *)
TypeOK ==
    /\ circular_buff \in [Slots -> Chars]
    /\ head \in Slots
    /\ tail \in Slots
    /\ IsFull_Flag \in {0, 1}
    /\ IsFull_Flag = 1 => head = tail
    /\ got \in Chars
    /\ ret \in {0, -1, -14}

(* The keys in the buffer, oldest first. *)
Count ==
    IF IsFull_Flag = 1 THEN BUFF_SIZE
    ELSE IF head >= tail THEN head - tail ELSE head - tail + BUFF_SIZE
keys == [i \in 1 .. Count |-> circular_buff[(tail + i - 1) % BUFF_SIZE]]

Fifo == INSTANCE KeyFifo WITH Capacity <- BUFF_SIZE, Blank <- NUL

(* The circular buffer, through any number of turns and through full and empty, is a queue of
   BUFF_SIZE keys: get_key returns each key that was stored, once and in the order in which
   they were typed, and reports an empty buffer exactly when there is no key. *)
ImplementsFifo == Fifo!FifoSpec
=============================================================================
