------------------------------ MODULE MCWatcher ------------------------------
(* A watcher for TLC: two lives, so that goroutines and timers of the first *)
(* meet the second, and two callbacks that may overlap.                     *)
EXTENDS Watcher

MCTwo == {1, 2}
=============================================================================
