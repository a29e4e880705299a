------------------------------ MODULE MCIoRead ------------------------------
(* IoRead for TLC: one or two threads, a few data units.                    *)
EXTENDS IoRead

\* _offset arguments of read_start(): the default one, and explicit ones.
NoOffset == {-1}
AnyOffset == {-1, 0, 3}

=============================================================================
