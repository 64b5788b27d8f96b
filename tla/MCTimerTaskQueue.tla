-------------------------- MODULE MCTimerTaskQueue --------------------------
(* TimerTaskQueue.tla for TLC: the interchangeable threads and events.      *)
EXTENDS TimerTaskQueue, TLC

Symmetry == Permutations(Callers) \cup Permutations(Workers) \cup Permutations(Events)
=============================================================================
