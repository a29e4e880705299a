------------------------------ MODULE MCAsync ------------------------------
(* Async for TLC: the loop thread and two others that send at once.         *)
EXTENDS Async

=============================================================================
