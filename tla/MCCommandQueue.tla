--------------------------- MODULE MCCommandQueue ---------------------------
(* Instances of CommandQueue for TLC. *)
EXTENDS CommandQueue

CONSTANT c1
=============================================================================
