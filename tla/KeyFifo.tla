------------------------------ MODULE KeyFifo ------------------------------
(***************************************************************************)
(* What the keyboard promises to programs: a bounded queue of characters.  *)
(* A key that finds the queue full is dropped; get_key takes the oldest    *)
(* key, or says that there is none and leaves the caller's variable alone. *)
(***************************************************************************)
EXTENDS Integers, Sequences

CONSTANTS
    Chars,      \* the characters
    Capacity,   \* how many keys are kept
    Blank       \* what a program's variable holds before the first get_key

VARIABLES
    keys,   \* the keys typed and not yet read, oldest first
    got,    \* the variable that the program passes to get_key
    ret     \* what its last get_key returned

fvars == <<keys, got, ret>>

FifoInit ==
    /\ keys = <<>>
    /\ got = Blank
    /\ ret = 0

Type(c) ==
    /\ Len(keys) < Capacity
    /\ keys' = Append(keys, c)
    /\ UNCHANGED <<got, ret>>

Get ==
    /\ keys # <<>>
    /\ keys' = Tail(keys)
    /\ got' = Head(keys)
    /\ ret' = 0

NoKey ==
    /\ keys = <<>>
    /\ ret' = -1
    /\ UNCHANGED <<keys, got>>

(* The caller's variable is not in its memory: no key is lost. *)
BadCall ==
    /\ ret' = -14
    /\ UNCHANGED <<keys, got>>

FifoNext == (\E c \in Chars : Type(c)) \/ Get \/ NoKey \/ BadCall

FifoSpec == FifoInit /\ [][FifoNext]_fvars
=============================================================================
