----------------------------- MODULE MCKeyboard -----------------------------
(* A keyboard with four codes and a char_map of three entries, so that one code indexes it out
   of bounds, as 30 of the 128 codes do in the program. *)
EXTENDS Keyboard

CONSTANTS a, b

MCChars == {NUL, a, b}
MCCharMap == [i \in 0 .. 2 |-> IF i = 0 THEN NUL ELSE IF i = 1 THEN a ELSE b]
=============================================================================
