----------------------------- MODULE MCProcess -----------------------------
(* Process for TLC: two handles, such as a server and its client or two      *)
(* endpoints of the child, two variables and two descriptors of the child.   *)
EXTENDS Process, TLC

Symmetry == Permutations(Handles) \union Permutations(Vars)
=============================================================================
