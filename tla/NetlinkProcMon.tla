--------------------------- MODULE NetlinkProcMon ---------------------------
(***************************************************************************)
(* NetlinkProcMon of netlink/netlink_proc_mon.{h,cpp}: an owner that calls *)
(* Start() and Stop(), the producer thread that receives process events    *)
(* from the kernel, the dispatcher thread that hands them to callbacks,    *)
(* and threads that add and remove callbacks.                              *)
(*                                                                         *)
(* Each critical section of ProcEvQueueMutex_ is one step, up to the       *)
(* wait().  ProcEvCallbacksMutex_ is held by the dispatcher over several   *)
(* steps, while it calls the callbacks of an event.  Events are numbered   *)
(* in the order recv() returns them.                                       *)
(***************************************************************************)
EXTENDS Integers, Sequences, Functions

CONSTANTS
  Registrars,            \* threads that call AddProcEvCallback()
  kProcEvQueueMaxSize,   \* the constant of that name
  MaxEvents,             \* bound: how many events recv() returns
  MaxIds                 \* bound: how many callback ids are generated

ASSUME ProcMonAssumption ==
  kProcEvQueueMaxSize \in Nat /\ MaxEvents \in Nat /\ MaxIds \in Nat

VARIABLES
  Started, StopThreads,  \* Started_, StopThreads_
  sock,                  \* netlink_sock_: "open", or "invalid"
  queue,                 \* ProcEvQueue_
  callbacks,             \* ProcEv_Callbacks_: the ids, in list order
  nextId,                \* id_generator_.nextId_
  owner,                 \* where the owner is in Start() or Stop()
  producer,              \* ProcEvProducerThread_
  dispatcher,            \* CallbackDispatchThread_
  batch,                 \* tempEvQueue, local to the dispatcher
  calls,                 \* callbacks the dispatcher has still to call for its event
  adding,                \* the id each registrar has generated and not added, or 0
  received,              \* history: the number of the last event received
  dispatched,            \* history: the number of the last event given to callbacks
  dropped,               \* history: the events the full queue gave up
  removed                \* history: the ids RemoveProcEvCallback() took out

session == <<Started, StopThreads, sock, owner>>
events  == <<queue, batch, received, dispatched, dropped>>
registry == <<callbacks, nextId, adding, removed>>
vars == <<session, events, registry, producer, dispatcher, calls>>

Dead == {"none", "exited"}    \* never created, or returned from its function

TypeOK ==
  /\ Started \in BOOLEAN /\ StopThreads \in BOOLEAN
  /\ sock \in {"open", "invalid"}
  /\ queue \in Seq(1..MaxEvents) /\ Len(queue) <= kProcEvQueueMaxSize + 1
  /\ callbacks \in Seq(1..MaxIds) /\ calls \in Seq(1..MaxIds)
  /\ nextId \in 1..(MaxIds + 1)
  /\ owner \in {"idle", "subscribing", "spawnProducer", "spawnDispatcher", "started",
                "unsubscribing", "joinProducer", "notify", "joinDispatcher", "closing"}
  /\ producer \in Dead \cup {"check", "recv"}
  /\ dispatcher \in Dead \cup {"top", "waiting", "woken", "deliver", "calling"}
  /\ batch \in Seq(1..MaxEvents)
  /\ adding \in [Registrars -> 0..MaxIds]
  /\ received \in 0..MaxEvents /\ dispatched \in 0..MaxEvents
  /\ dropped \in SUBSET (1..MaxEvents)
  /\ removed \in SUBSET (1..MaxIds)

Init ==
  /\ Started = FALSE /\ StopThreads = FALSE
  /\ sock = "invalid"
  /\ queue = <<>> /\ batch = <<>> /\ calls = <<>>
  /\ callbacks = <<>> /\ nextId = 1
  /\ owner = "idle" /\ producer = "none" /\ dispatcher = "none"
  /\ adding = [r \in Registrars |-> 0]
  /\ received = 0 /\ dispatched = 0
  /\ dropped = {} /\ removed = {}

-----------------------------------------------------------------------------
(* Start().  The owner makes one call at a time.                           *)

OwnerGoes(from, to) == owner = from /\ owner' = to

(* connectToProcNetlink(): socket() and bind() succeed.  When one fails,   *)
(* the descriptor is closed again and Start() returns -1: nothing changes. *)
StartConnect ==
  /\ OwnerGoes("idle", "subscribing") /\ ~Started
  /\ sock' = "open"
  /\ UNCHANGED <<Started, StopThreads, events, registry, producer, dispatcher, calls>>

(* Mutant of CloseNetlink: the descriptor stays in netlink_sock_. *)
KeepNetlink == UNCHANGED sock

CloseNetlink == sock' = "invalid"

(* subscribeToProcNetlink() fails to send. *)
StartSubscribeFails ==
  /\ OwnerGoes("subscribing", "idle")
  /\ CloseNetlink
  /\ UNCHANGED <<Started, StopThreads, events, registry, producer, dispatcher, calls>>

StartSubscribe ==
  /\ OwnerGoes("subscribing", "spawnProducer")
  /\ UNCHANGED <<Started, StopThreads, sock, events, registry, producer, dispatcher, calls>>

SpawnProducer ==
  /\ OwnerGoes("spawnProducer", "spawnDispatcher")
  /\ producer' = "check"
  /\ UNCHANGED <<Started, StopThreads, sock, events, registry, dispatcher, calls>>

SpawnDispatcher ==
  /\ OwnerGoes("spawnDispatcher", "started")
  /\ dispatcher' = "top"
  /\ UNCHANGED <<Started, StopThreads, sock, events, registry, producer, calls>>

(* The constructor of a std::thread throws; the exception is swallowed and *)
(* the threads not yet created stay uncreated.                             *)
SpawnFails ==
  /\ OwnerGoes("spawnProducer", "started") \/ OwnerGoes("spawnDispatcher", "started")
  /\ UNCHANGED <<Started, StopThreads, sock, events, registry, producer, dispatcher, calls>>

StartReturn ==
  /\ OwnerGoes("started", "idle")
  /\ Started' = TRUE
  /\ UNCHANGED <<StopThreads, sock, events, registry, producer, dispatcher, calls>>

(* Stop(), also called by the destructor. *)
StopBegin ==
  /\ OwnerGoes("idle", "unsubscribing") /\ Started
  /\ StopThreads' = TRUE
  /\ UNCHANGED <<Started, sock, events, registry, producer, dispatcher, calls>>

(* unSubscribeToProcNetlink(), whose result is ignored. *)
StopUnsubscribe ==
  /\ OwnerGoes("unsubscribing", "joinProducer")
  /\ UNCHANGED <<Started, StopThreads, sock, events, registry, producer, dispatcher, calls>>

StopJoinProducer ==
  /\ OwnerGoes("joinProducer", "notify")
  /\ producer \in Dead /\ producer' = "none"
  /\ UNCHANGED <<Started, StopThreads, sock, events, registry, dispatcher, calls>>

(* Mutant of Notify: the call is forgotten. *)
NotifyNot(d) == d

(* What a notify_all() of ProcEvQueueCv_ does to the dispatcher. *)
Notify(d) == IF d = "waiting" THEN "woken" ELSE d

(* Mutant of StopNotify: the dispatcher is not notified. *)
StopDoesNotNotify ==
  /\ OwnerGoes("notify", "joinDispatcher")
  /\ UNCHANGED <<Started, StopThreads, sock, events, registry, producer, dispatcher, calls>>

StopNotify ==
  /\ OwnerGoes("notify", "joinDispatcher")
  /\ dispatcher' = Notify(dispatcher)
  /\ UNCHANGED <<Started, StopThreads, sock, events, registry, producer, calls>>

(* Mutant of StopJoinDispatcher: the dispatcher is detached. *)
StopDetachesDispatcher ==
  /\ OwnerGoes("joinDispatcher", "closing")
  /\ UNCHANGED <<Started, StopThreads, sock, events, registry, producer, dispatcher, calls>>

StopJoinDispatcher ==
  /\ OwnerGoes("joinDispatcher", "closing")
  /\ dispatcher \in Dead /\ dispatcher' = "none"
  /\ UNCHANGED <<Started, StopThreads, sock, events, registry, producer, calls>>

StopReturn ==
  /\ OwnerGoes("closing", "idle")
  /\ CloseNetlink
  /\ StopThreads' = FALSE /\ Started' = FALSE
  /\ UNCHANGED <<events, registry, producer, dispatcher, calls>>

-----------------------------------------------------------------------------
(* procEvRecvImpl().                                                       *)

(* while (StopThreads_ == false), read without a mutex. *)
CheckStop ==
  /\ producer = "check"
  /\ producer' = IF StopThreads THEN "exited" ELSE "recv"
  /\ UNCHANGED <<session, events, registry, dispatcher, calls>>

(* recv() times out, is interrupted, overruns the socket buffer, or        *)
(* returns an event that is neither a fork, nor an exec, nor an exit.      *)
RecvNothing ==
  /\ producer = "recv"
  /\ producer' = "check"
  /\ UNCHANGED <<session, events, registry, dispatcher, calls>>

(* recv() returns 0 or another error: the thread ends, Started_ stays. *)
RecvFails ==
  /\ producer = "recv"
  /\ producer' = "exited"
  /\ UNCHANGED <<session, events, registry, dispatcher, calls>>

(* Mutant of QueueFull: >= for >, which gives up an event too early. *)
QueueFullEarly == Len(queue) >= kProcEvQueueMaxSize

QueueFull == Len(queue) > kProcEvQueueMaxSize

(* Mutant of Enqueue: the overflow clears the queue. *)
EnqueueClearing(e) ==
  /\ queue' = IF QueueFull THEN <<e>> ELSE Append(queue, e)
  /\ dropped' = IF QueueFull THEN dropped \cup {Head(queue)} ELSE dropped

(* A full queue loses its oldest event. *)
Enqueue(e) ==
  /\ queue' = Append(IF QueueFull THEN Tail(queue) ELSE queue, e)
  /\ dropped' = IF QueueFull THEN dropped \cup {Head(queue)} ELSE dropped

(* recv() returns an event, which is queued and announced. *)
RecvEvent ==
  /\ producer = "recv" /\ received < MaxEvents
  /\ producer' = "check"
  /\ received' = received + 1
  /\ Enqueue(received + 1)
  /\ dispatcher' = Notify(dispatcher)
  /\ UNCHANGED <<session, batch, dispatched, registry, calls>>

-----------------------------------------------------------------------------
(* procEvDispatcherImpl() and forEachCallback().                           *)

(* Mutant of SwapQueue: the queue is copied. *)
CopyQueue == batch' = queue /\ UNCHANGED queue

(* ProcEvQueue_.swap(tempEvQueue) *)
SwapQueue == batch' = queue /\ queue' = <<>>

(* The critical section at the top of the loop finds StopThreads_ set. *)
DispatcherStops ==
  /\ dispatcher = "top" /\ StopThreads
  /\ dispatcher' = "exited"
  /\ UNCHANGED <<session, events, registry, producer, calls>>

DispatcherSwaps ==
  /\ dispatcher = "top" /\ ~StopThreads /\ queue # <<>>
  /\ dispatcher' = "deliver"
  /\ SwapQueue
  /\ UNCHANGED <<session, received, dispatched, dropped, registry, producer, calls>>

(* Mutant of DispatcherWaits: it waits without looking at the queue. *)
DispatcherWaitsBlindly ==
  /\ dispatcher = "top" /\ ~StopThreads
  /\ dispatcher' = "waiting"
  /\ UNCHANGED <<session, events, registry, producer, calls>>

DispatcherWaits ==
  /\ dispatcher = "top" /\ ~StopThreads /\ queue = <<>>
  /\ dispatcher' = "waiting"
  /\ UNCHANGED <<session, events, registry, producer, calls>>

SpuriousWake ==
  /\ dispatcher = "waiting" /\ dispatcher' = "woken"
  /\ UNCHANGED <<session, events, registry, producer, calls>>

(* wait() has returned: the queue is taken without looking at anything.    *)
DispatcherWakes ==
  /\ dispatcher = "woken"
  /\ dispatcher' = "deliver"
  /\ SwapQueue
  /\ UNCHANGED <<session, received, dispatched, dropped, registry, producer, calls>>

(* The next event of the batch: ProcEvCallbacksMutex_ is taken. *)
BeginForEach ==
  /\ dispatcher = "deliver" /\ batch # <<>>
  /\ dispatcher' = "calling"
  /\ batch' = Tail(batch) /\ dispatched' = Head(batch)
  /\ calls' = callbacks
  /\ UNCHANGED <<session, queue, received, dropped, registry, producer>>

CallCallback ==
  /\ dispatcher = "calling" /\ calls # <<>>
  /\ calls' = Tail(calls)
  /\ UNCHANGED <<session, events, registry, producer, dispatcher>>

EndForEach ==
  /\ dispatcher = "calling" /\ calls = <<>>
  /\ dispatcher' = "deliver"
  /\ UNCHANGED <<session, events, registry, producer, calls>>

BatchDone ==
  /\ dispatcher = "deliver" /\ batch = <<>>
  /\ dispatcher' = "top"
  /\ UNCHANGED <<session, events, registry, producer, calls>>

-----------------------------------------------------------------------------
(* AddProcEvCallback() and RemoveProcEvCallback().                         *)

(* Mutant of CallbacksLocked: callbacks run without the mutex. *)
CallbacksUnlocked == FALSE

(* ProcEvCallbacksMutex_ is held over several steps. *)
CallbacksLocked == dispatcher = "calling"

(* id_generator_.generateId(), an atomic increment before the mutex. *)
GenerateId(r) ==
  /\ adding[r] = 0 /\ nextId <= MaxIds
  /\ adding' = [adding EXCEPT ![r] = nextId]
  /\ nextId' = nextId + 1
  /\ UNCHANGED <<session, events, callbacks, removed, producer, dispatcher, calls>>

AddCallback(r) ==
  /\ adding[r] # 0 /\ ~CallbacksLocked
  /\ callbacks' = Append(callbacks, adding[r])
  /\ adding' = [adding EXCEPT ![r] = 0]
  /\ UNCHANGED <<session, events, nextId, removed, producer, dispatcher, calls>>

(* Any thread removes an id that AddProcEvCallback() has returned; no      *)
(* other callback has it, so that remove_if() takes out one.               *)
RemoveCallback(id) ==
  /\ ~CallbacksLocked
  /\ \E n \in DOMAIN callbacks :
       /\ callbacks[n] = id
       /\ callbacks' = SubSeq(callbacks, 1, n - 1)
                         \o SubSeq(callbacks, n + 1, Len(callbacks))
  /\ removed' = removed \cup {id}
  /\ UNCHANGED <<session, events, nextId, adding, producer, dispatcher, calls>>

-----------------------------------------------------------------------------
OwnerStops ==
  StopUnsubscribe \/ StopJoinProducer \/ StopNotify \/ StopJoinDispatcher \/ StopReturn

OwnerStarts ==
  \/ StartSubscribeFails \/ StartSubscribe
  \/ SpawnProducer \/ SpawnDispatcher \/ SpawnFails \/ StartReturn

Produce == CheckStop \/ RecvNothing \/ RecvFails \/ RecvEvent

Dispatch ==
  \/ DispatcherStops \/ DispatcherSwaps \/ DispatcherWaits \/ DispatcherWakes
  \/ BeginForEach \/ CallCallback \/ EndForEach \/ BatchDone

Next ==
  \/ StartConnect \/ StopBegin \/ OwnerStarts \/ OwnerStops
  \/ Produce \/ Dispatch \/ SpuriousWake
  \/ \E r \in Registrars : GenerateId(r) \/ AddCallback(r)
  \/ \E id \in 1..MaxIds : RemoveCallback(id)

Spec == Init /\ [][Next]_vars

(* Each thread that can go on does: recv() has a timeout of 0.1 s, the     *)
(* callbacks return.  Nobody has to call Start() or Stop().                *)
Fairness ==
  /\ WF_vars(OwnerStarts) /\ WF_vars(OwnerStops)
  /\ WF_vars(Produce) /\ WF_vars(Dispatch)

FairSpec == Spec /\ Fairness

-----------------------------------------------------------------------------
(* Properties.                                                             *)

(* The dispatcher waits on ProcEvQueueCv_ without a predicate, and still   *)
(* neither an event nor Stop() finds it asleep: while it sleeps the queue  *)
(* is empty, and it is awake when Stop() joins it.                         *)
NoMissedWakeup ==
  dispatcher = "waiting" => queue = <<>> /\ owner # "joinDispatcher"

(* Between Stop() and the next Start() nothing is left over: no thread     *)
(* runs, no callback is being called, the socket is closed.                *)
QuietWhenStopped ==
  (owner = "idle" /\ ~Started) =>
    /\ sock = "invalid" /\ ~StopThreads
    /\ producer = "none" /\ dispatcher = "none"

(* The events on their way to the callbacks. *)
Backlog == batch \o queue

(* Callbacks see events in the order of the kernel and none twice, over    *)
(* overflows, stops and restarts.                                          *)
InOrder ==
  /\ \A i, j \in DOMAIN Backlog : i < j => Backlog[i] < Backlog[j]
  /\ \A i \in DOMAIN Backlog : dispatched < Backlog[i]

(* An overflow costs the oldest events, never a newer one than any that is *)
(* still queued, and no event before kProcEvQueueMaxSize + 1 newer ones    *)
(* have come: the limit is reached, and kept, to the event, whatever the   *)
(* dispatcher took out of the queue in between.                            *)
OverflowDropsOldest ==
  /\ Len(queue) <= kProcEvQueueMaxSize + 1
  /\ \A d \in dropped : d + kProcEvQueueMaxSize + 1 <= received
  /\ \A d \in dropped : \A i \in DOMAIN queue : d < queue[i]

(* An event that was received later than the last one dispatched is on its *)
(* way, or was given up by an overflow: nothing else loses it, not even    *)
(* Stop().                                                                 *)
NothingElseLost ==
  (dispatched + 1)..received \subseteq Range(Backlog) \cup dropped

(* Once RemoveProcEvCallback(id) has returned, the callback is not called  *)
(* again, not even for an event whose callbacks are being called.          *)
RemovedIsSilent == Range(calls) \cap removed = {}

(* Stop() returns. *)
StopReturns == owner = "unsubscribing" ~> owner = "idle"

(* An event in the queue is taken to the callbacks or given up by an       *)
(* overflow, unless Stop() is called or there is no dispatcher.            *)
EventLeaves ==
  \A e \in 1..MaxEvents :
    (e \in Range(queue) /\ dispatcher # "none")
      ~> (dispatched >= e \/ e \in dropped \/ StopThreads)
=============================================================================
