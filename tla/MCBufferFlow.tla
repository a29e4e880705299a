---------------------------- MODULE MCBufferFlow ----------------------------
(* BufferFlow for TLC.  Buffers are made with no chunk, with one, which can  *)
(* be lent to libuv, or with several, some of them empty.  Output runs on    *)
(* both endpoints, so the two pairs have it on every kind.                   *)
EXTENDS BufferFlow

MCShapes == {<<>>, <<2>>, <<0, 1>>}
MCSetups == {[in |-> "file", out |-> "stream"], [in |-> "udp", out |-> "other"]}

Symmetry == Permutations(Buffers) \union Permutations(Vars)
=============================================================================
