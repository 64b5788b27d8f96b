---------------------------- MODULE FifoExecutor ----------------------------
(***************************************************************************)
(* What net::ThreadPool promises to the callers of run(), without threads, *)
(* locks or condition variables: a task handed over is either started at   *)
(* once by its caller or kept in a line; tasks leave the line only from    *)
(* its front, each is started once, and each that ends was started.        *)
(* NetThreadPool.tla is shown to implement this module, and so is          *)
(* WorkThread.tla, where nobody executes a task in its caller.             *)
(***************************************************************************)
EXTENDS Sequences, Functions

CONSTANT Tasks      \* the Task objects that may ever be handed over

VARIABLES
  pending,          \* the line of tasks accepted and not started
  active,           \* tasks whose body is being executed
  finished          \* tasks whose body has ended

vars == <<pending, active, finished>>

Init ==
  /\ pending = <<>>
  /\ active = {}
  /\ finished = {}

(* A task the executor has never seen. *)
Fresh(t) == t \notin Range(pending) \cup active \cup finished

(* The caller hands t over and returns. *)
Accept(t) ==
  /\ Fresh(t)
  /\ pending' = Append(pending, t)
  /\ UNCHANGED <<active, finished>>

(* The caller executes t itself. *)
RunInCaller(t) ==
  /\ Fresh(t)
  /\ active' = active \cup {t}
  /\ UNCHANGED <<pending, finished>>

(* The front of the line is started. *)
Begin ==
  /\ pending # <<>>
  /\ pending' = Tail(pending)
  /\ active' = active \cup {Head(pending)}
  /\ UNCHANGED finished

(* The body of t ends. *)
End(t) ==
  /\ t \in active
  /\ active' = active \ {t}
  /\ finished' = finished \cup {t}
  /\ UNCHANGED pending

Next ==
  \/ Begin
  \/ \E t \in Tasks : Accept(t) \/ RunInCaller(t) \/ End(t)

Spec == Init /\ [][Next]_vars
=============================================================================
