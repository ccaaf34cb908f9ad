---------------------------- MODULE MCTimerHeap ----------------------------
(* A small instance of TimerHeap. *)
EXTENDS TimerHeap, TLC

Symmetry == Permutations(Timers)
=============================================================================
