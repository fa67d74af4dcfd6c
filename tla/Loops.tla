------------------------------- MODULE Loops -------------------------------
(***************************************************************************)
(* A loop of the program as a value: what it makes of a board, a screen or *)
(* a console when its body is applied for one index after the other.       *)
(***************************************************************************)
EXTENDS Integers, Sequences

(* The indices of a loop, in order. *)
Up(lo, hi) == [k \in 1 .. hi - lo + 1 |-> lo + k - 1]
Down(hi, lo) == [k \in 1 .. hi - lo + 1 |-> hi - k + 1]

(* The value b after F for each index of is, in order; each F takes a value, evaluated. *)
Scan(F(_, _), b, is) ==
    LET after[k \in 0 .. Len(is)] ==
            IF k = 0 THEN b ELSE CHOOSE r \in {F(t, is[k]) : t \in {after[k - 1]}} : TRUE
    IN  after[Len(is)]
=============================================================================
