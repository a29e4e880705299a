----------------------------- MODULE MCRefCount -----------------------------
(* RefCount for TLC: a few variables shared by threads, one or two          *)
(* instances.                                                               *)
EXTENDS RefCount

=============================================================================
