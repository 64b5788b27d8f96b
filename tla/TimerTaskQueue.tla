---------------------------- MODULE TimerTaskQueue ----------------------------
(***************************************************************************)
(* TimerTaskQueue of timer/timer.{h,cpp}: threads that call Start() and    *)
(* Stop(), worker threads inside io_context::run_for(), the periodic timer *)
(* that looks for due events, and events posted at once or with a delay by *)
(* any number of threads.                                                  *)
(*                                                                         *)
(* The io_context is modelled as the code uses it: a first-in-first-out    *)
(* line of handlers, which survives stop() and restart().  startlock and   *)
(* delay_event_lock_ are held over several steps; stoped_ is read outside  *)
(* of both.                                                                *)
(***************************************************************************)
EXTENDS Integers, Sequences, FiniteSets, Functions

CONSTANTS
  Callers,       \* threads that call Start() and Stop()
  Workers,       \* the threads that Start() may create
  Events,        \* functions; each is posted at most once
  ThreadNum,     \* the argument of Start()
  Delays,        \* the delays PostDelayedEvent() is given
  MaxNow,        \* bound: the clock stops there
  MaxStarts,     \* bound: how many calls of Start() get past stoped_
  MaxStops,      \* bound: how many calls of Stop() do
  Nobody

ASSUME TimerAssumption ==
  /\ ThreadNum \in Nat \ {0} /\ Delays \subseteq Nat
  /\ MaxNow \in Nat /\ MaxStarts \in Nat /\ MaxStops \in Nat
  /\ IsFiniteSet(Workers) /\ Nobody \notin Callers \cup Workers \cup Events
  /\ {"tick", "aborted"} \cap Events = {}

VARIABLES
  stoped,        \* stoped_
  startlock,     \* the caller that holds startlock, or Nobody
  caller,        \* where each caller is in Start() or Stop()
  threads,       \* worker_threads_, as a set
  ioStopped,     \* io_context_.stopped()
  ready,         \* the line of handlers: events, "tick" and "aborted"
  waits,         \* asynchronous waits pending on check_delayed_event_timer_
  delayed,       \* delay_eventtab_: its events in order, with their deadlines
  worker,        \* where each worker is
  handler,       \* the event each worker executes, or Nobody
  cutoff,        \* curr_time of the check each worker executes
  post,          \* where the call that posts each event is
  deadline,      \* timeout, local to that call
  now,           \* steady_clock
  executed,      \* history: how often each event was executed
  cleared,       \* history: the events erased or refused
  starts, stops, clears  \* history: calls that got past their check

owners == <<stoped, startlock, caller, threads, starts, stops>>
context == <<ioStopped, ready, waits>>
workers == <<worker, handler, cutoff>>
posting == <<post, deadline, clears>>
vars == <<owners, context, delayed, workers, posting, now, executed, cleared>>

TypeOK ==
  /\ stoped \in BOOLEAN /\ ioStopped \in BOOLEAN
  /\ startlock \in Callers \cup {Nobody}
  /\ caller \in [Callers -> {"idle", "start", "spawn", "expire", "wait",
                             "stop", "cancel", "stopIo", "join"}]
  /\ threads \subseteq Workers
  /\ ready \in Seq(Events \cup {"tick", "aborted"})
  /\ waits \in Nat
  /\ delayed \in Seq([event : Events, at : 0..MaxNow])
  /\ \A i, j \in DOMAIN delayed : i < j => delayed[i].at <= delayed[j].at
  /\ worker \in [Workers -> {"none", "run", "event", "tick", "check", "due", "expire", "wait",
                             "aborted", "exited"}]
  /\ handler \in [Workers -> Events \cup {Nobody}]
  /\ cutoff \in [Workers -> 0..MaxNow]
  /\ post \in [Events -> {"none", "post", "delay", "made"}]
  /\ deadline \in [Events -> 0..MaxNow]
  /\ now \in 0..MaxNow
  /\ executed \in [Events -> Nat]
  /\ cleared \subseteq Events
  /\ starts \in 0..MaxStarts /\ stops \in 0..MaxStops /\ clears \in 0..1

Init ==
  /\ stoped = TRUE /\ ioStopped = FALSE
  /\ startlock = Nobody
  /\ caller = [c \in Callers |-> "idle"]
  /\ threads = {}
  /\ ready = <<>> /\ waits = 0 /\ delayed = <<>>
  /\ worker = [w \in Workers |-> "none"]
  /\ handler = [w \in Workers |-> Nobody]
  /\ cutoff = [w \in Workers |-> 0]
  /\ post = [e \in Events |-> "none"]
  /\ deadline = [e \in Events |-> 0]
  /\ now = 0
  /\ executed = [e \in Events |-> 0]
  /\ cleared = {}
  /\ starts = 0 /\ stops = 0 /\ clears = 0

-----------------------------------------------------------------------------
(* The timer.                                                              *)

(* cancel() and expires_from_now() complete the waits that are pending.    *)
CancelWaits ==
  /\ ready' = ready \o [i \in 1..waits |-> "aborted"]
  /\ waits' = 0
  /\ UNCHANGED ioStopped

(* Mutant of AsyncWait: the timer is not armed again. *)
NoAsyncWait == UNCHANGED context

AsyncWait == waits' = waits + 1 /\ UNCHANGED <<ioStopped, ready>>

(* The timer expires while a worker is inside run_for() to notice.         *)
Expire ==
  /\ waits > 0 /\ ~ioStopped
  /\ \E w \in Workers : worker[w] = "run"
  /\ ready' = ready \o [i \in 1..waits |-> "tick"]
  /\ waits' = 0
  /\ UNCHANGED <<owners, ioStopped, delayed, workers, posting, now, executed, cleared>>

ClockTick ==
  /\ now < MaxNow
  /\ now' = now + 1
  /\ UNCHANGED <<owners, context, delayed, workers, posting, executed, cleared>>

-----------------------------------------------------------------------------
(* Start() and Stop().                                                     *)

CallerGoes(c, from, to) == caller[c] = from /\ caller' = [caller EXCEPT ![c] = to]

(* if (stoped_), read before startlock is taken. *)
StartCheck(c) ==
  /\ CallerGoes(c, "idle", "start")
  /\ stoped /\ starts < MaxStarts
  /\ starts' = starts + 1
  /\ UNCHANGED <<stoped, startlock, threads, stops, context, delayed, workers, posting, now,
                 executed, cleared>>

(* Mutant of Restart: the io_context stays stopped. *)
NoRestart == UNCHANGED ioStopped

(* if (io_context_.stopped()) io_context_.restart() *)
Restart == ioStopped' = FALSE

StartLock(c) ==
  /\ CallerGoes(c, "start", "spawn")
  /\ startlock = Nobody /\ startlock' = c
  /\ Restart
  /\ UNCHANGED <<stoped, threads, starts, stops, ready, waits, delayed, workers, posting, now,
                 executed, cleared>>

(* The loop creates all threads; each checks stopped() on its own later.   *)
StartSpawn(c) ==
  /\ CallerGoes(c, "spawn", "expire")
  /\ \E new \in SUBSET {w \in Workers : worker[w] = "none"} :
       /\ Cardinality(new) = ThreadNum
       /\ threads' = threads \cup new
       /\ worker' = [w \in Workers |-> IF w \in new THEN "run" ELSE worker[w]]
  /\ UNCHANGED <<stoped, startlock, starts, stops, context, delayed, handler, cutoff, posting,
                 now, executed, cleared>>

StartExpire(c) ==
  /\ CallerGoes(c, "expire", "wait")
  /\ CancelWaits
  /\ UNCHANGED <<stoped, startlock, threads, starts, stops, delayed, workers, posting, now,
                 executed, cleared>>

StartWait(c) ==
  /\ CallerGoes(c, "wait", "idle")
  /\ AsyncWait
  /\ stoped' = FALSE /\ startlock' = Nobody
  /\ UNCHANGED <<threads, starts, stops, delayed, workers, posting, now, executed, cleared>>

(* if (!stoped_), read before startlock is taken. *)
StopCheck(c) ==
  /\ CallerGoes(c, "idle", "stop")
  /\ ~stoped /\ stops < MaxStops
  /\ stops' = stops + 1
  /\ UNCHANGED <<stoped, startlock, threads, starts, context, delayed, workers, posting, now,
                 executed, cleared>>

StopLock(c) ==
  /\ CallerGoes(c, "stop", "cancel")
  /\ startlock = Nobody /\ startlock' = c
  /\ stoped' = TRUE
  /\ UNCHANGED <<threads, starts, stops, context, delayed, workers, posting, now, executed,
                 cleared>>

StopCancel(c) ==
  /\ CallerGoes(c, "cancel", "stopIo")
  /\ CancelWaits
  /\ UNCHANGED <<stoped, startlock, threads, starts, stops, delayed, workers, posting, now,
                 executed, cleared>>

(* Mutant of StopIo: the io_context is not stopped. *)
StopNoIo(c) ==
  /\ CallerGoes(c, "stopIo", "join")
  /\ UNCHANGED <<stoped, startlock, threads, starts, stops, context, delayed, workers, posting,
                 now, executed, cleared>>

StopIo(c) ==
  /\ CallerGoes(c, "stopIo", "join")
  /\ ioStopped' = TRUE
  /\ UNCHANGED <<stoped, startlock, threads, starts, stops, ready, waits, delayed, workers,
                 posting, now, executed, cleared>>

(* Mutant of StopJoin: the threads are forgotten without a join. *)
StopForgets(c) ==
  /\ CallerGoes(c, "join", "idle")
  /\ threads' = {} /\ startlock' = Nobody
  /\ UNCHANGED <<stoped, starts, stops, context, delayed, workers, posting, now, executed,
                 cleared>>

(* Every thread of worker_threads_ is joined, and the vector cleared.      *)
StopJoin(c) ==
  /\ CallerGoes(c, "join", "idle")
  /\ \A w \in threads : worker[w] = "exited"
  /\ worker' = [w \in Workers |-> IF w \in threads THEN "none" ELSE worker[w]]
  /\ threads' = {} /\ startlock' = Nobody
  /\ UNCHANGED <<stoped, starts, stops, context, delayed, handler, cutoff, posting, now,
                 executed, cleared>>

-----------------------------------------------------------------------------
(* PostEvent(), PostDelayedEvent() and ClearDelayedEvent().                *)

(* stoped_ is read; a post that finds it set is dropped without a word.    *)
PostCheck(e) ==
  /\ post[e] = "none" /\ ~stoped
  /\ \/ post' = [post EXCEPT ![e] = "post"] /\ UNCHANGED deadline
     \/ \E d \in Delays :
          /\ now + d <= MaxNow
          /\ post' = [post EXCEPT ![e] = "delay"]
          /\ deadline' = [deadline EXCEPT ![e] = now + d]
  /\ UNCHANGED <<owners, context, delayed, workers, clears, now, executed, cleared>>

PostReady(e) ==
  /\ post[e] = "post" /\ post' = [post EXCEPT ![e] = "made"]
  /\ ready' = Append(ready, e)
  /\ UNCHANGED <<owners, ioStopped, waits, delayed, workers, deadline, clears, now, executed,
                 cleared>>

(* A worker posts due events under delay_event_lock_. *)
TableLocked == \E w \in Workers : worker[w] = "due"

(* The multimap order: behind the events with the same deadline. *)
InsertDelayed(entry) ==
  \E n \in 0..Len(delayed) :
    /\ \A i \in DOMAIN delayed : i <= n <=> delayed[i].at <= entry.at
    /\ delayed' = SubSeq(delayed, 1, n) \o <<entry>> \o SubSeq(delayed, n + 1, Len(delayed))

PostInTable(e) ==
  /\ post[e] = "delay" /\ post' = [post EXCEPT ![e] = "made"]
  /\ ~TableLocked
  /\ InsertDelayed([event |-> e, at |-> deadline[e]])
  /\ UNCHANGED <<owners, context, workers, deadline, clears, now, executed, cleared>>

InTable == {delayed[i].event : i \in DOMAIN delayed}

ClearTable == delayed' = <<>> /\ cleared' = cleared \cup InTable

(* Called once at most. *)
ClearDelayedEvent ==
  /\ clears = 0 /\ ~TableLocked
  /\ ClearTable
  /\ clears' = 1
  /\ UNCHANGED <<owners, context, workers, post, deadline, now, executed>>

-----------------------------------------------------------------------------
(* The workers.                                                            *)

WorkerGoes(w, from, to) == worker[w] = from /\ worker' = [worker EXCEPT ![w] = to]

(* run_for() returns because of stop(), and so does the thread.            *)
WorkerExits(w) ==
  /\ WorkerGoes(w, "run", "exited")
  /\ ioStopped
  /\ UNCHANGED <<owners, context, delayed, handler, cutoff, posting, now, executed, cleared>>

(* run_for() takes the next handler. *)
RunHandler(w) ==
  /\ ~ioStopped /\ ready # <<>>
  /\ LET h == Head(ready)
     IN  IF h \in Events
         THEN /\ WorkerGoes(w, "run", "event")
              /\ handler' = [handler EXCEPT ![w] = h]
         ELSE /\ WorkerGoes(w, "run", h)
              /\ UNCHANGED handler
  /\ ready' = Tail(ready)
  /\ UNCHANGED <<owners, ioStopped, waits, delayed, cutoff, posting, now, executed, cleared>>

EventEnds(w) ==
  /\ WorkerGoes(w, "event", "run")
  /\ executed' = [executed EXCEPT ![handler[w]] = @ + 1]
  /\ handler' = [handler EXCEPT ![w] = Nobody]
  /\ UNCHANGED <<owners, context, delayed, cutoff, posting, now, cleared>>

(* CheckDelayedEventCallback() with operation_aborted. *)
CheckAborted(w) ==
  /\ WorkerGoes(w, "aborted", "run")
  /\ ~TableLocked
  /\ ClearTable
  /\ UNCHANGED <<owners, context, handler, cutoff, posting, now, executed>>

(* curr_time is read before delay_event_lock_ is taken. *)
CheckClock(w) ==
  /\ WorkerGoes(w, "tick", "check")
  /\ cutoff' = [cutoff EXCEPT ![w] = now]
  /\ UNCHANGED <<owners, context, delayed, handler, posting, now, executed, cleared>>

CheckLock(w) ==
  /\ WorkerGoes(w, "check", "due")
  /\ ~TableLocked
  /\ UNCHANGED <<owners, context, delayed, handler, cutoff, posting, now, executed, cleared>>

FirstIsDue(w) == delayed # <<>> /\ Head(delayed).at <= cutoff[w]

(* Mutant of PostDue: the event stays in the table. *)
PostDueAgain(w) ==
  /\ worker[w] = "due" /\ FirstIsDue(w) /\ Len(ready) < Cardinality(Events)
  /\ ready' = Append(ready, Head(delayed).event)
  /\ UNCHANGED <<owners, ioStopped, waits, delayed, workers, posting, now, executed, cleared>>

(* The first event of the table is due: PostEvent(), which may find        *)
(* stoped_ set, and the event is erased.                                   *)
PostDue(w) ==
  /\ worker[w] = "due" /\ FirstIsDue(w)
  /\ delayed' = Tail(delayed)
  /\ IF stoped
     THEN cleared' = cleared \cup {Head(delayed).event} /\ UNCHANGED ready
     ELSE ready' = Append(ready, Head(delayed).event) /\ UNCHANGED cleared
  /\ UNCHANGED <<owners, ioStopped, waits, workers, posting, now, executed>>

CheckUnlock(w) ==
  /\ WorkerGoes(w, "due", "expire")
  /\ ~FirstIsDue(w)
  /\ UNCHANGED <<owners, context, delayed, handler, cutoff, posting, now, executed, cleared>>

(* Mutant of CheckExpire: the new wait is set up before the old are cancelled. *)
CheckExpireLate(w) ==
  /\ WorkerGoes(w, "expire", "wait")
  /\ ready' = Append(ready, "aborted")
  /\ UNCHANGED <<owners, ioStopped, waits, delayed, handler, cutoff, posting, now, executed, cleared>>

CheckExpire(w) ==
  /\ WorkerGoes(w, "expire", "wait")
  /\ CancelWaits
  /\ UNCHANGED <<owners, delayed, handler, cutoff, posting, now, executed, cleared>>

CheckWait(w) ==
  /\ WorkerGoes(w, "wait", "run")
  /\ AsyncWait
  /\ UNCHANGED <<owners, delayed, handler, cutoff, posting, now, executed, cleared>>

-----------------------------------------------------------------------------
StartGoesOn(c) == StartLock(c) \/ StartSpawn(c) \/ StartExpire(c) \/ StartWait(c)
StopGoesOn(c)  == StopLock(c) \/ StopCancel(c) \/ StopIo(c) \/ StopJoin(c)
PostGoesOn(e)  == PostReady(e) \/ PostInTable(e)
Work(w) ==
  \/ WorkerExits(w) \/ RunHandler(w) \/ EventEnds(w) \/ CheckAborted(w)
  \/ CheckClock(w) \/ CheckLock(w) \/ PostDue(w) \/ CheckUnlock(w) \/ CheckExpire(w) \/ CheckWait(w)

Next ==
  \/ \E c \in Callers : StartCheck(c) \/ StopCheck(c) \/ StartGoesOn(c) \/ StopGoesOn(c)
  \/ \E e \in Events : PostCheck(e) \/ PostGoesOn(e)
  \/ \E w \in Workers : Work(w)
  \/ ClearDelayedEvent \/ Expire \/ ClockTick

Spec == Init /\ [][Next]_vars

(* Every thread that can go on does, time passes and the timer expires;    *)
(* nobody has to call anything.  startlock is released after finitely many *)
(* steps and there are finitely many callers.                              *)
FairSpec ==
  /\ Spec
  /\ \A c \in Callers : WF_vars(StartGoesOn(c) \/ StopGoesOn(c))
  /\ \A w \in Workers : WF_vars(Work(w))
  /\ \A e \in Events : WF_vars(PostGoesOn(e))
  /\ WF_vars(Expire) /\ WF_vars(ClockTick)

-----------------------------------------------------------------------------
(* Properties.                                                             *)

(* When Stop() has set stoped_ and released startlock, no worker exists,   *)
(* whatever calls of Start() and Stop() overlapped before.                 *)
QuietWhenStopped ==
  (stoped /\ startlock = Nobody) => \A w \in Workers : worker[w] = "none"

(* The places an event can be at: a posted one is at exactly one of them,  *)
(* and is executed once at most, over checks, stops and restarts.          *)
Places(e) ==
  LET inLine == {i \in DOMAIN ready : ready[i] = e}
      inTable == {i \in DOMAIN delayed : delayed[i].event = e}
      inHand == {w \in Workers : handler[w] = e}
  IN  Cardinality(inLine) + Cardinality(inTable) + Cardinality(inHand)
        + executed[e] + (IF e \in cleared THEN 1 ELSE 0)

EventAtOnePlace == \A e \in Events : Places(e) = IF post[e] = "made" THEN 1 ELSE 0

(* The check never cancels its own timer: after the first Start(), until   *)
(* somebody calls Stop(), Start() again or ClearDelayedEvent(), no delayed *)
(* event is lost.                                                          *)
NoneLost == (starts <= 1 /\ stops = 0 /\ clears = 0) => cleared = {}

(* Stop() returns, unless an event calls it.                               *)
StopReturns == \A c \in Callers : caller[c] = "stop" ~> caller[c] = "idle"

(* An event in the line is executed, unless Stop() is called.              *)
PostedRuns ==
  \A e \in Events : e \in Range(ready) ~> (executed[e] > 0 \/ stoped)

(* The timer is armed again and again: a delayed event leaves the table.   *)
DelayedLeaves ==
  \A e \in Events : e \in InTable ~> (e \notin InTable \/ stoped)
=============================================================================
