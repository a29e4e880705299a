----------------------------- MODULE MCWatcher -----------------------------
(* Watcher for TLC: one handle of each class, up to two variables.          *)
EXTENDS Watcher

=============================================================================
