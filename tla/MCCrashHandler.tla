--------------------------- MODULE MCCrashHandler ---------------------------
(* CrashHandler.tla for TLC: a process with two threads and one with one.   *)
EXTENDS CrashHandler

CONSTANTS duo, solo, t1, t2, u

TwoAndOne == [t \in Threads |-> IF t = u THEN solo ELSE duo]

(* A signal for each thread. *)
AsManyAsThreads == [p \in Procs |-> IF p = solo THEN 1 ELSE 2]
=============================================================================
