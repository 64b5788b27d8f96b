---------------------------- MODULE NetThreadPool ----------------------------
(***************************************************************************)
(* net::ThreadPool of http_client/thread_pool.{h,cpp} over net::Thread of  *)
(* http_client/thread.{h,cpp}: an owner that starts, stops and destroys    *)
(* the pool, clients that call run(), and the worker threads.              *)
(*                                                                         *)
(* Every critical section of mutex_ is one step, up to the wait() of a     *)
(* condition variable, which ends it.  What the code reads or writes       *)
(* without the mutex (running_ at the loop head, in start() and in the     *)
(* destructor, threads_.empty() in run()) is a step of its own.            *)
(***************************************************************************)
EXTENDS Integers, Sequences, FiniteSets, Functions

CONSTANTS
  Clients,       \* threads of the program that call run()
  Workers,       \* the net::Thread objects that start() may create
  Tasks,         \* Task objects; each is handed to run() at most once
  Null,          \* no task
  QueueSizes,    \* the arguments setMaxQueueSize() may be given
  StartSizes,    \* the arguments start() may be given
  Throwing,      \* the tasks whose body may end with an exception
  NestedRun,     \* whether the body of a task may call run() itself
  Restart        \* whether start() may follow a stop() that joined threads

ThreadsAssumption ==
  /\ IsFiniteSet(Clients) /\ IsFiniteSet(Workers)
  /\ Clients \cap Workers = {}
  /\ Null \notin Tasks
  /\ QueueSizes \subseteq Nat /\ StartSizes \subseteq Nat
  /\ Throwing \subseteq Tasks
  /\ NestedRun \in BOOLEAN /\ Restart \in BOOLEAN

ASSUME NetThreadPoolAssumption == ThreadsAssumption

AllThreads == Clients \cup Workers

VARIABLES
  running,       \* running_
  maxQueueSize,  \* maxQueueSize_
  threads,       \* threads_, in the order start() pushed them
  queue,         \* queue_
  notEmpty,      \* the workers waiting on notEmpty_ and not yet notified
  notFull,       \* the callers of run() waiting on notFull_, not yet notified
  joined,        \* the workers whose Thread::join() has returned
  pc,            \* where each thread is
  arg,           \* the task each thread is handing to run(), or Null
  stack,         \* the task bodies each thread is inside, innermost first
  owner,         \* what the owner of the pool is doing
  toStart,       \* threads that start() has still to create
  joinAt,        \* the loop variable of stop(), an index of threads
  finished,      \* history: the tasks whose body has ended
  late           \* history: tasks each worker took since running_ was cleared

members  == <<running, maxQueueSize, threads>>
lines    == <<queue, notEmpty, notFull>>
control  == <<pc, arg, stack>>
ownerVars == <<owner, toStart, joinAt, joined>>
history  == <<finished, late>>
vars == <<members, lines, control, ownerVars, history>>

(* A worker exists from the moment Thread::start() creates its std::thread. *)
Unborn == {w \in Workers : pc[w] = "unborn"}

(* The tasks whose body is being executed. *)
InCall == UNION {Range(stack[th]) : th \in AllThreads}

(* Nobody has handed t to run() yet. *)
Fresh(t) ==
  t \notin Range(queue) \cup InCall \cup finished \cup Range(arg)

TypeOK ==
  /\ running \in BOOLEAN
  /\ maxQueueSize \in Nat
  /\ threads \in Seq(Workers)
  /\ queue \in Seq(Tasks)
  /\ notEmpty \subseteq Workers
  /\ notFull \subseteq AllThreads
  /\ joined \subseteq Workers
  /\ pc \in [AllThreads -> {"idle", "unborn", "loop", "take", "exec", "post", "exited"}]
  /\ arg \in [AllThreads -> Tasks \cup {Null}]
  /\ stack \in [AllThreads -> Seq(Tasks)]
  /\ owner \in {"idle", "starting", "stopping", "destroying", "destroyed", "dead"}
  /\ toStart \in Nat
  /\ joinAt \in Nat /\ joinAt >= 1
  /\ finished \subseteq Tasks
  /\ late \in [Workers -> Nat]

Init ==
  /\ running = FALSE
  /\ maxQueueSize = 0
  /\ threads = <<>>
  /\ queue = <<>>
  /\ notEmpty = {} /\ notFull = {} /\ joined = {}
  /\ pc = [th \in AllThreads |-> IF th \in Workers THEN "unborn" ELSE "idle"]
  /\ arg = [th \in AllThreads |-> Null]
  /\ stack = [th \in AllThreads |-> <<>>]
  /\ owner = "idle" /\ toStart = 0 /\ joinAt = 1
  /\ finished = {}
  /\ late = [w \in Workers |-> 0]

-----------------------------------------------------------------------------
(* Condition variables.                                                    *)

(* Mutant of NotifyOne: the call is forgotten. *)
NotifyNobody(W) == {W}

(* What notify_one() may leave of the set W of waiters. *)
NotifyOne(W) == IF W = {} THEN {{}} ELSE {W \ {th} : th \in W}

(* Mutant of NotifyAll: the call is forgotten. *)
NotifyNone(W) == W

(* What notify_all() leaves of the waiters. *)
NotifyAll(W) == {}

(* A wait() may return without a notification. *)
SpuriousWake(th) ==
  /\ th \in notEmpty \cup notFull
  /\ notEmpty' = notEmpty \ {th}
  /\ notFull' = notFull \ {th}
  /\ UNCHANGED <<members, queue, control, ownerVars, history>>

-----------------------------------------------------------------------------
(* run(): by a client, or by the body of a task.                           *)

isFull == maxQueueSize > 0 /\ Len(queue) >= maxQueueSize

(* Where a thread goes on after leaving run() or a task body. *)
Resume(th, frames) ==
  IF frames # <<>> THEN "exec" ELSE IF th \in Workers THEN "loop" ELSE "idle"

MayCallRun(th) ==
  \/ pc[th] = "idle" /\ owner \notin {"destroying", "destroyed"}
  \/ pc[th] = "exec" /\ NestedRun

(* threads_.empty() is read without the mutex.  The caller executes the    *)
(* task when it reads true.  While start() is filling an empty vector the  *)
(* read races with it, and either answer is possible.                      *)
RunInCaller(th, t) ==
  /\ MayCallRun(th) /\ Fresh(t)
  /\ threads = <<>>
  /\ stack' = [stack EXCEPT ![th] = <<t>> \o @]
  /\ pc' = [pc EXCEPT ![th] = "exec"]
  /\ UNCHANGED <<members, lines, arg, ownerVars, history>>

RunInPool(th, t) ==
  /\ MayCallRun(th) /\ Fresh(t)
  /\ threads # <<>> \/ (owner = "starting" /\ toStart > 0)
  /\ arg' = [arg EXCEPT ![th] = t]
  /\ pc' = [pc EXCEPT ![th] = "post"]
  /\ UNCHANGED <<members, lines, stack, ownerVars, history>>

(* while (isFull()) notFull_.wait(lock) *)
WaitNotFull(th) ==
  /\ pc[th] = "post" /\ th \notin notFull
  /\ isFull
  /\ notFull' = notFull \cup {th}
  /\ UNCHANGED <<members, queue, notEmpty, control, ownerVars, history>>

(* Mutant of PushBack: the task jumps the line. *)
PushFront(q, t) == <<t>> \o q

PushBack(q, t) == Append(q, t)

(* queue_.push_back(task); notEmpty_.notify_one() *)
Push(th) ==
  /\ pc[th] = "post" /\ th \notin notFull
  /\ ~isFull
  /\ queue' = PushBack(queue, arg[th])
  /\ notEmpty' \in NotifyOne(notEmpty)
  /\ arg' = [arg EXCEPT ![th] = Null]
  /\ pc' = [pc EXCEPT ![th] = Resume(th, stack[th])]
  /\ UNCHANGED <<members, notFull, stack, ownerVars, history>>

(* The innermost task body of th ends and control returns to its caller.   *)
Return(th) ==
  /\ pc[th] = "exec"
  /\ stack' = [stack EXCEPT ![th] = Tail(@)]
  /\ pc' = [pc EXCEPT ![th] = Resume(th, stack'[th])]
  /\ finished' = finished \cup {Head(stack[th])}
  /\ UNCHANGED <<members, lines, arg, ownerVars, late>>

-----------------------------------------------------------------------------
(* runInThread() and take().                                               *)

(* Mutant of CheckRunning: the loop does not look at running_. *)
CheckNothing(w) ==
  /\ pc[w] = "loop"
  /\ pc' = [pc EXCEPT ![w] = "take"]
  /\ UNCHANGED <<members, lines, arg, stack, ownerVars, history>>

(* while (running_), read without the mutex. *)
CheckRunning(w) ==
  /\ pc[w] = "loop"
  /\ pc' = [pc EXCEPT ![w] = IF running THEN "take" ELSE "exited"]
  /\ UNCHANGED <<members, lines, arg, stack, ownerVars, history>>

(* while (queue_.empty() && running_) notEmpty_.wait(lock) *)
WaitNotEmpty(w) ==
  /\ pc[w] = "take" /\ w \notin notEmpty
  /\ queue = <<>> /\ running
  /\ notEmpty' = notEmpty \cup {w}
  /\ UNCHANGED <<members, queue, notFull, control, ownerVars, history>>

(* The front task leaves the queue and the worker calls it. *)
Take(w) ==
  /\ pc[w] = "take" /\ w \notin notEmpty
  /\ queue # <<>>
  /\ queue' = Tail(queue)
  /\ notFull' \in IF maxQueueSize > 0 THEN NotifyOne(notFull) ELSE {notFull}
  /\ stack' = [stack EXCEPT ![w] = <<Head(queue)>>]
  /\ pc' = [pc EXCEPT ![w] = "exec"]
  /\ late' = IF running THEN late ELSE [late EXCEPT ![w] = @ + 1]
  /\ UNCHANGED <<members, notEmpty, arg, ownerVars, finished>>

(* take() returns an empty Task, which the loop skips. *)
TakeNothing(w) ==
  /\ pc[w] = "take" /\ w \notin notEmpty
  /\ queue = <<>> /\ ~running
  /\ pc' = [pc EXCEPT ![w] = "loop"]
  /\ UNCHANGED <<members, lines, arg, stack, ownerVars, history>>

(* An exception reaches runInThread(): abort(), or terminate() after the   *)
(* rethrow.  An exception that a caller of run() sees is a Return.         *)
Abort(w) ==
  /\ pc[w] = "exec" /\ Len(stack[w]) = 1
  /\ Head(stack[w]) \in Throwing
  /\ owner' = "dead"
  /\ UNCHANGED <<members, lines, control, toStart, joinAt, joined, history>>

-----------------------------------------------------------------------------
(* The owner.  It makes its calls one at a time.                           *)

(* Before the first thread exists: nobody reads maxQueueSize_ then. *)
SetMaxQueueSize(n) ==
  /\ owner = "idle" /\ threads = <<>> /\ queue = <<>>
  /\ \A th \in AllThreads : pc[th] # "post"
  /\ maxQueueSize' = n
  /\ UNCHANGED <<running, threads, lines, control, ownerVars, history>>

(* start(n) up to its loop.  The set Workers bounds how many it creates.   *)
Start(n) ==
  /\ owner = "idle"
  /\ Restart \/ joined = {}
  /\ n <= Cardinality(Unborn)
  /\ running' = TRUE
  /\ owner' = "starting" /\ toStart' = n
  /\ late' = [w \in Workers |-> 0]
  /\ UNCHANGED <<maxQueueSize, threads, lines, control, joinAt, joined, finished>>

(* The threads that exist and that threads_ does not hold yet. *)
Unlisted == (Workers \ Unborn) \ Range(threads)

(* Mutant of StartThread: the loop variable advances twice per thread. *)
StartThreadCountsTwice(w) ==
  /\ owner = "starting" /\ toStart > 0 /\ Unlisted = {}
  /\ w \in Unborn
  /\ pc' = [pc EXCEPT ![w] = "loop"]
  /\ toStart' = toStart - 1
  /\ UNCHANGED <<members, lines, arg, stack, owner, joinAt, joined, history>>

(* pThread->start(): the worker runs before threads_ holds it. *)
StartThread(w) ==
  /\ owner = "starting" /\ toStart > 0 /\ Unlisted = {}
  /\ w \in Unborn
  /\ pc' = [pc EXCEPT ![w] = "loop"]
  /\ UNCHANGED <<members, lines, arg, stack, ownerVars, history>>

(* threads_.push_back(pThread) *)
PushThread(w) ==
  /\ owner = "starting" /\ w \in Unlisted
  /\ threads' = Append(threads, w)
  /\ toStart' = toStart - 1
  /\ UNCHANGED <<running, maxQueueSize, lines, control, owner, joinAt, joined, history>>

StartReturn ==
  /\ owner = "starting" /\ toStart = 0
  /\ owner' = "idle"
  /\ UNCHANGED <<members, lines, control, toStart, joinAt, joined, history>>

(* The critical section of stop(), called by the owner or the destructor.  *)
StopAs(caller) ==
  /\ running' = FALSE
  /\ notEmpty' = NotifyAll(notEmpty)
  /\ owner' = caller /\ joinAt' = 1
  /\ UNCHANGED <<maxQueueSize, threads, queue, notFull, control, toStart, joined, history>>

Stop ==
  /\ owner = "idle"
  /\ StopAs("stopping")

(* Mutant of Destroy: the destructor does not look at running_. *)
DestroyStopsAgain ==
  /\ owner = "idle" /\ \A c \in Clients : pc[c] = "idle"
  /\ StopAs("destroying")

(* ~ThreadPool(): no client may be inside a call.  A net::Thread that was  *)
(* started and not joined is then detached: its worker simply goes on.     *)
Destroy ==
  /\ owner = "idle" /\ \A c \in Clients : pc[c] = "idle"
  /\ IF running
     THEN StopAs("destroying")
     ELSE /\ owner' = "destroyed"
          /\ UNCHANGED <<members, lines, control, toStart, joinAt, joined, history>>

Joining == owner \in {"stopping", "destroying"}

JoinThread ==
  /\ Joining /\ joinAt <= Len(threads)
  /\ threads[joinAt] \notin joined /\ pc[threads[joinAt]] = "exited"
  /\ joined' = joined \cup {threads[joinAt]}
  /\ joinAt' = joinAt + 1
  /\ UNCHANGED <<members, lines, control, owner, toStart, history>>

(* join() of a std::thread that is not joinable throws; out of a           *)
(* destructor the exception is terminate().                                *)
JoinThrows ==
  /\ Joining /\ joinAt <= Len(threads)
  /\ threads[joinAt] \in joined
  /\ owner' = IF owner = "stopping" THEN "idle" ELSE "dead"
  /\ UNCHANGED <<members, lines, control, toStart, joinAt, joined, history>>

StopReturn ==
  /\ Joining /\ joinAt > Len(threads)
  /\ owner' = IF owner = "stopping" THEN "idle" ELSE "destroyed"
  /\ UNCHANGED <<members, lines, control, toStart, joinAt, joined, history>>

-----------------------------------------------------------------------------
Call(th) == \E t \in Tasks : RunInCaller(th, t) \/ RunInPool(th, t)

(* What a thread does next without being asked to. *)
Proceed(th) == WaitNotFull(th) \/ Push(th) \/ Return(th)

Work(w) == CheckRunning(w) \/ WaitNotEmpty(w) \/ Take(w) \/ TakeNothing(w)

OwnerProceeds ==
  \/ \E w \in Workers : StartThread(w) \/ PushThread(w)
  \/ StartReturn \/ JoinThread \/ JoinThrows \/ StopReturn

OwnerCalls ==
  \/ \E n \in QueueSizes : SetMaxQueueSize(n)
  \/ \E n \in StartSizes : Start(n)
  \/ Stop \/ Destroy

Alive == owner # "dead"

Next ==
  /\ Alive
  /\ \/ \E th \in AllThreads : Call(th) \/ Proceed(th) \/ SpuriousWake(th)
     \/ \E w \in Workers : Work(w) \/ Abort(w)
     \/ OwnerProceeds \/ OwnerCalls

Spec == Init /\ [][Next]_vars

(* Every thread that can take its next step eventually does: the scheduler *)
(* is fair, a mutex that is free is obtained, and the body of a task ends. *)
(* Nobody has to make a call.                                              *)
Fairness ==
  /\ \A th \in AllThreads : WF_vars(Alive /\ Proceed(th))
  /\ \A w \in Workers : WF_vars(Alive /\ Work(w))
  /\ WF_vars(Alive /\ OwnerProceeds)

FairSpec == Spec /\ Fairness

-----------------------------------------------------------------------------
(* Properties.                                                             *)

(* The workers about to look at the queue, and the callers about to look   *)
(* for space: they hold or want mutex_ and are not asleep.                 *)
Takers  == {w \in Workers : pc[w] = "take"} \ notEmpty
Posters == {th \in AllThreads : pc[th] = "post"} \ notFull

(* No wake-up of notEmpty_ is lost: as long as one worker sleeps, every    *)
(* task in the queue has a worker of its own that is awake to take it.     *)
ItemsHaveTakers == notEmpty # {} => Len(queue) <= Cardinality(Takers)

(* No wake-up of notFull_ is lost: as long as one caller sleeps, every     *)
(* free place of the queue has a caller of its own that is awake for it.   *)
SpaceHasPosters ==
  notFull # {} => Len(queue) + Cardinality(Posters) >= maxQueueSize

(* stop() cuts the queue off: after it cleared running_ a worker, in       *)
(* whatever place it was, takes at most one more task.                     *)
OneTaskAfterStop == \A w \in Workers : late[w] <= 1

(* When start() is not called again after stop(), the destructor never     *)
(* joins twice, even after an explicit stop(), and no worker is left       *)
(* running on a pool that is gone.                                         *)
TeardownSafe ==
  (~Restart /\ Throwing = {}) =>
    /\ owner # "dead"
    /\ owner = "destroyed" => \A w \in Workers : pc[w] \in {"unborn", "exited"}

(* Tasks are started once each and in the order run() accepted them,       *)
(* whatever the threads and condition variables do.                        *)
Fifo == INSTANCE FifoExecutor WITH pending <- queue, active <- InCall
ImplementsFifo == Fifo!Spec

(* A call of run() that waits for space returns, unless the pool stops.    *)
CallReturns ==
  \A th \in AllThreads : pc[th] = "post" ~> (pc[th] # "post" \/ ~running)

(* A task in the queue is started, unless the pool stops or the process    *)
(* is aborted.                                                             *)
TaskStarts ==
  \A t \in Tasks : t \in Range(queue) ~> (t \notin Range(queue) \/ ~running \/ ~Alive)

(* stop() and the destructor come back from joining the workers.           *)
StopReturns == Joining ~> ~Joining
=============================================================================
