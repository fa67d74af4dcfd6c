------------------------------ MODULE MCStats ------------------------------
(* Instances of Stats for TLC. *)
EXTENDS Stats

MCSemValues == {0}
=============================================================================
