------------------------------ MODULE MCLists ------------------------------
(* Four nodes move among two lists. *)
EXTENDS Lists

CONSTANTS n1, n2, n3, n4, freequeue, readyqueue

MCNodes == {n1, n2, n3, n4}
MCHeads == {freequeue, readyqueue}
=============================================================================
