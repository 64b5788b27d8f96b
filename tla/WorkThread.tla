----------------------------- MODULE WorkThread -----------------------------
(***************************************************************************)
(* WorkThread and Work of thread_pool.{h,cpp}: one worker thread with its  *)
(* queue, the owner that starts, stops and restarts it, callers of         *)
(* PushWork(), and callers that cancel a work.                             *)
(*                                                                         *)
(* A caller of PushWork() is known by the work it pushes; each work is     *)
(* pushed once.  The owner calls StartWork() only when StopWork() has      *)
(* joined the worker, anything else ends the program.                      *)
(***************************************************************************)
EXTENDS Sequences, Functions

CONSTANTS
  Works,      \* the Work objects, each with a body that ends
  None

ASSUME WorkThreadAssumption == None \notin Works

VARIABLES
  stoped,     \* stoped_
  works,      \* works_
  worker,     \* where the thread worker_ is, "none" when it is not joinable
  held,       \* the work it has taken
  status,     \* status_ of each work
  given,      \* the works PushWork() was called with
  pushing,    \* those whose caller is past the look at stoped_
  owner,      \* how far StopWork() is: "idle", "stored" or "joining"
  done        \* history: the works the worker is through with

thread == <<worker, held>>
callers == <<given, pushing>>
vars == <<stoped, works, thread, status, callers, owner, done>>

(* A work is at one place: with its caller, in the queue, with the worker  *)
(* or behind it.                                                           *)
TypeOK ==
  /\ stoped \in BOOLEAN /\ works \in Seq(Works) /\ IsInjective(works)
  /\ worker \in {"none", "loop", "inside", "dozing", "asleep", "look", "doing", "running", "exited"}
  /\ held \in Works \cup {None}
  /\ held # None <=> worker \in {"look", "doing", "running"}
  /\ status \in [Works -> {"kNotUsed", "kStarting", "kInvalid"}]
  /\ given \subseteq Works /\ pushing \subseteq given /\ done \subseteq given
  /\ Range(works) \subseteq given \ (pushing \cup done \cup {held})
  /\ held # None => held \in given \ (pushing \cup done)
  /\ pushing \cap done = {}
  /\ owner \in {"idle", "stored", "joining"}

Init ==
  /\ stoped \in BOOLEAN            \* not initialized before StartWork()
  /\ works = <<>> /\ worker = "none" /\ held = None
  /\ status = [k \in Works |-> "kNotUsed"]
  /\ given = {} /\ pushing = {} /\ owner = "idle" /\ done = {}

-----------------------------------------------------------------------------
(* The owner.                                                              *)

(* The constructor of std::thread may throw, which nobody is told.         *)
StartWork ==
  /\ owner = "idle" /\ worker = "none"
  /\ stoped' = FALSE
  /\ worker' \in {"loop", "none"}
  /\ UNCHANGED <<works, held, status, callers, owner, done>>

(* StopWork(), which the destructor calls as well: store, notify, join.    *)
StopWork ==
  /\ owner = "idle" /\ owner' = "stored"
  /\ stoped' = TRUE
  /\ UNCHANGED <<works, thread, status, callers, done>>

(* Mutant of NotifyOne: nobody is notified. *)
NotifyNobody == UNCHANGED worker

NotifyOne == worker' = IF worker = "asleep" THEN "loop" ELSE worker

StopNotifies ==
  /\ owner = "stored" /\ owner' = "joining"
  /\ NotifyOne
  /\ UNCHANGED <<stoped, works, held, status, callers, done>>

StopJoins ==
  /\ owner = "joining" /\ owner' = "idle"
  /\ worker \in {"none", "exited"} /\ worker' = "none"
  /\ UNCHANGED <<stoped, works, held, status, callers, done>>

-----------------------------------------------------------------------------
(* Callers of PushWork() and of set_work_status(kInvalid).                 *)

(* Mutant of MutexFree: PushWork() takes no lock. *)
MutexIgnored == TRUE

(* The worker holds works_mtx_ until it sleeps or has taken a work.        *)
MutexFree == worker \notin {"inside", "dozing"}

(* The look at stoped_; a caller that finds it set goes away.              *)
PushWork(k) ==
  /\ k \notin given /\ given' = given \cup {k}
  /\ pushing' = IF stoped THEN pushing ELSE pushing \cup {k}
  /\ UNCHANGED <<stoped, works, thread, status, owner, done>>

(* Mutant of PushBack: the newest work is the first. *)
PushFront(k) == works' = <<k>> \o works

PushBack(k) == works' = Append(works, k)

(* works_.push() under works_mtx_, without a notification.                 *)
Push(k) ==
  /\ k \in pushing /\ pushing' = pushing \ {k}
  /\ MutexFree
  /\ PushBack(k)
  /\ UNCHANGED <<stoped, thread, status, given, owner, done>>

(* At any time, as DeleteWork() does by the work's id.                     *)
Cancel(k) ==
  /\ status[k] # "kInvalid"
  /\ status' = [status EXCEPT ![k] = "kInvalid"]
  /\ UNCHANGED <<stoped, works, thread, callers, owner, done>>

-----------------------------------------------------------------------------
(* The worker.                                                             *)

WorkerGoes(from, to) == worker = from /\ worker' = to

(* The lock and the predicate of wait().                                   *)
LookIntoQueue ==
  /\ WorkerGoes("loop", IF stoped \/ works # <<>> THEN "inside" ELSE "dozing")
  /\ UNCHANGED <<stoped, works, held, status, callers, owner, done>>

(* wait() gives up works_mtx_ and sleeps.                                  *)
FallAsleep ==
  /\ WorkerGoes("dozing", "asleep")
  /\ UNCHANGED <<stoped, works, held, status, callers, owner, done>>

SpuriousWake ==
  /\ WorkerGoes("asleep", "loop")
  /\ UNCHANGED <<stoped, works, held, status, callers, owner, done>>

Exit ==
  /\ stoped /\ WorkerGoes("inside", "exited")
  /\ UNCHANGED <<stoped, works, held, status, callers, owner, done>>

Take ==
  /\ ~stoped /\ works # <<>> /\ WorkerGoes("inside", "look")
  /\ held' = Head(works) /\ works' = Tail(works)
  /\ UNCHANGED <<stoped, status, callers, owner, done>>

PutDown ==
  /\ held' = None
  /\ done' = done \cup {held}

(* Mutant of Cancelled: the status is not looked at. *)
Never == FALSE

(* work_status() says whether the work was cancelled.                      *)
Cancelled == status[held] = "kInvalid"

Skip ==
  /\ WorkerGoes("look", "loop") /\ Cancelled
  /\ PutDown
  /\ UNCHANGED <<stoped, works, status, callers, owner>>

Accept ==
  /\ WorkerGoes("look", "doing") /\ ~Cancelled
  /\ UNCHANGED <<stoped, works, held, status, callers, owner, done>>

(* Work::Doing() overwrites whatever the status has become.                *)
Doing ==
  /\ WorkerGoes("doing", "running")
  /\ status' = [status EXCEPT ![held] = "kStarting"]
  /\ UNCHANGED <<stoped, works, held, callers, owner, done>>

Done ==
  /\ WorkerGoes("running", "loop")
  /\ status' = [status EXCEPT ![held] = "kInvalid"]
  /\ PutDown
  /\ UNCHANGED <<stoped, works, callers, owner>>

WorkerStep ==
  \/ LookIntoQueue \/ FallAsleep \/ Exit \/ Take \/ Skip \/ Accept \/ Doing \/ Done

Next ==
  \/ StartWork \/ StopWork \/ StopNotifies \/ StopJoins
  \/ WorkerStep \/ SpuriousWake
  \/ \E k \in Works : PushWork(k) \/ Push(k) \/ Cancel(k)

Spec == Init /\ [][Next]_vars

(* The threads go on; nobody has to call, and nothing wakes for no reason. *)
FairSpec == Spec /\ WF_vars(WorkerStep) /\ WF_vars(StopNotifies \/ StopJoins)

-----------------------------------------------------------------------------
(* Properties.                                                             *)

(* The works are treated in the order in which they reached the queue, one *)
(* after the other and each once, over any number of sessions and whatever *)
(* StopWork() leaves in the queue.                                         *)
Fifo ==
  INSTANCE FifoExecutor WITH
    Tasks <- Works, pending <- works, active <- {held} \ {None}, finished <- done

ImplementsFifo == Fifo!Spec

(* Cancelled, or executed, and not (again) in Doing(). *)
Off(k) == status[k] = "kInvalid" /\ ~(held = k /\ worker \in {"doing", "running"})

(* A cancellation that comes before the worker's look at the status holds  *)
(* for good: the work does not run, and its status stays kInvalid.  (One   *)
(* that comes between the look and Doing() is overwritten.)                *)
CancelledForGood == [][\A k \in Works : Off(k) => Off(k)']_vars

(* StopWork() returns, unless it sets stoped_ just when the worker has     *)
(* looked at it and not yet fallen asleep, where its notification is lost. *)
StopReturns == (owner = "stored" /\ worker # "dozing") ~> owner = "idle"

(* A work that reaches the queue of a worker that is not asleep is taken   *)
(* without a notification, unless StopWork() comes first.                  *)
AwakeWorkerDrains ==
  \A k \in Works :
    (k \in Range(works) /\ worker \notin {"none", "asleep", "exited"})
      ~> (k \notin Range(works) \/ stoped)
=============================================================================
