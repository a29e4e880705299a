--------------------------- MODULE MCLoopLifetime ---------------------------
(* LoopLifetime for TLC: two handles, two requests of every pair of         *)
(* classes.                                                                 *)
EXTENDS LoopLifetime

=============================================================================
