# TLA+ models of cpp-done

cpp-done is a collection of C++ components for Linux. This directory holds TLA+
modules that model them, TLC configurations that check the modules on small
instances, and theorems that TLAPS proves for every instance. Source paths below
are relative to `src/`.

## The system

| component | source | state | operations | what makes it hard |
|---|---|---|---|---|
| net::ThreadPool, net::Thread | `http_client/thread_pool.*`, `thread.*` | `running_`, `threads_`, `queue_`, two condition variables, `maxQueueSize_` | `start`, `stop`, `run`, worker loop, destructor | one `notify_one()` per item and per place, `running_` and `threads_.empty()` read without the mutex, order of teardown |
| HttpClient, HttpRequest, HttpResponse | `http_client/http_client.*`, `http_request.h`, `http_response.h` | options, cookie and CA file names, a net::ThreadPool | `send`, `synSend`, `sendImmediate`, one curl handle per transfer | transfers in flight at destruction, failing initialisation, one callback per request |
| HttpCookie | `http_client/http_cookie.*` | a vector of cookies, a file | `readFile`, `writeFile`, `updateOrAddCookie`, `getMatchCookie` | what is read back from what was written |
| ThreadPool, WorkThread, Work | `thread_pool/*` | a queue and a flag per worker, round-robin offset, table of works | `StartPool`, `StopPool`, `PostWork`, `DeleteWork` | notification outside the lock, cancellation that races execution |
| TimerTaskQueue | `timer/*` | `stoped_`, worker threads, an `io_context`, the table of delayed events, a timer | `Start`, `Stop`, `PostEvent`, `PostDelayedEvent`, `ClearDelayedEvent` | `stoped_` read outside the lock, handlers that survive a stop, cancellation of the timer |
| NetlinkProcMon | `netlink/*` | socket, event queue, callback list, `Started_`, `StopThreads_`, two threads | `Start`, `Stop`, `AddProcEvCallback`, `RemoveProcEvCallback` | a wait without predicate, overflow, restarts, removal during delivery |
| SingleInstanceProcess | `single_instance_process/*` | a pid file with an advisory lock | `CheckOnly`, `SigHandler` | several processes at once, files left by dead ones, removal of the name |
| ConcurrentMap | `concurrent_map/concurrent_map.h` | a vector of locked `std::map` buckets | single-key calls, batches, `Size`, `GetAllKey`, `Clear` | whole-map calls are not atomic |
| CrashHandler | `crash_handler/*` | crash files, signal actions | `Init`, `ProcessCrashSig`, rotation | handlers of several threads, signals and processes at once, one lock per process |
| Library | `load_library/load_library.h` | a shared library handle | `Load`, `GetFunctionPoint` | nothing of its own |

HttpClient owns a net::ThreadPool and hands it one task per `send()`; the other
components are independent of one another. `CMakeLists.txt` builds concurrent_map,
http_client, load_library, single_instance_process and timer; thread_pool, netlink
and crash_handler are source only.

What makes each component correct:

- net::ThreadPool: an accepted task starts once, in order; no wake-up is lost;
  `stop()` returns and cuts the queue off; nothing outlives the pool.
- HttpClient: one callback per request; the pool works on nothing after destruction.
- HttpCookie: what was written is read back.
- ThreadPool/WorkThread: pushed work is executed in order, once, unless cancelled before
  it began; stopping returns.
- TimerTaskQueue: an event runs once at most, is lost only where the code means to
  clear it, and nothing runs after `Stop()`.
- NetlinkProcMon: order is kept, only an overflow loses events, a removed callback
  is silent, `Stop()` returns and leaves nothing behind.
- SingleInstanceProcess: at most one instance runs, and the file names it.
- ConcurrentMap: single-key calls are atomic; whole-map calls see each bucket at
  some moment of the call.
- CrashHandler: a process that crashes leaves a trace that can be read, and does end.

`PROJECT.json` lists under `hazards` every place where such a property is at risk.

## Modules

### NetThreadPool (and FifoExecutor, NetThreadPoolProofs)

Actors: the owner (`owner`) that calls `start`, `stop` and the destructor one call at
a time; `Clients` that call `run()`; `Workers`, the net::Thread objects. `pc` holds
where each thread is, `stack` the task bodies it is inside: a body may call `run()`
(`NestedRun`), which executes the new task at once while `threads_` is empty. The two
`run()` overloads are the same code.

| code | model |
|---|---|
| `start()` up to its loop; one turn; return | `Start`; `StartThread`, `PushThread`; `StartReturn` |
| `stop()`: critical section; `join()` per thread; return | `Stop`; `JoinThread` or `JoinThrows`; `StopReturn` |
| `~ThreadPool()` | `Destroy`, then as `stop()` when `running_` was set |
| `run()`: without threads; `notFull_.wait()`; `push_back` and `notify_one` | `RunInCaller`; `RunInPool`, `WaitNotFull`; `Push` |
| `runInThread()`: loop head; task call; exception | `CheckRunning`; `Return`; `Abort` |
| `take()`: `notEmpty_.wait()`; front task; empty task | `WaitNotEmpty`; `Take`; `TakeNothing` |

A critical section of `mutex_` is one step: what it reads and writes is touched by
nobody else meanwhile, except `running_` and `threads_`, whose unlocked accesses are
steps of their own. A condition variable is the set of threads asleep on it;
`notify_one()` removes any one of them, and `SpuriousWake` may remove one at any time.
Assumed of the callers: the pool has one owner, `setMaxQueueSize()` is called before
the first thread exists, nobody is inside `run()` when the pool is destroyed, and a
task object is handed over once (tasks are told apart by identity). An unlocked
`bool` that is written at the same time yields its old or its new value.

`FifoExecutor` is what the pool promises: a line of accepted tasks from whose front
they are started, each once. `ImplementsFifo` states that every behaviour of
NetThreadPool is one of FifoExecutor, with `queue` as the line and the bodies on all
stacks as the active tasks.

### NetlinkProcMon (and NetlinkProcMonProofs)

The owner steps through `Start()` and `Stop()` with each failure `Start()` tolerates
(`StartSubscribeFails`, `SpawnFails`; a failed connect changes nothing). The producer
alternates between the flag and `recv()` (`CheckStop`, `RecvNothing`, `RecvFails`,
`RecvEvent`); receiving and queueing is one step because no other thread produces
events. The dispatcher's critical section is `DispatcherStops`, `DispatcherSwaps` or
`DispatcherWaits`, and `DispatcherWakes` after the wait. `ProcEvCallbacksMutex_` is
held from `BeginForEach` to `EndForEach`; `AddCallback` and `RemoveCallback` need it.
Events are numbers in the order `recv()` returns them. Callbacks do not call the
monitor, and one owner calls `Start()` and `Stop()`. `StopThreads_` is a plain `bool`
read by the producer between system calls; it is modelled as read each time.

### SingleInstance (and MCSingleInstance, SingleInstanceProofs)

Processes execute `main()` of `test.cpp`, one system call per step. A file is an
inode with a sequence of decimal digits; `path` is the inode the name refers to, so a
removed file that is still open goes on existing. `Text` and `Number` are `sprintf`
and `atol`. `Write` replaces at the file offset, which `Read` has moved. `Exit` closes
the descriptor and with it gives up the lock. `Die` stands for SIGKILL, for signals
before the handlers are installed and for every `exit(-1)` after a failed call: all
leave the file as it is. Pids are not reused. `world`, chosen once from `Worlds`, says
what the environment may do: what the file is at first, whether launches and signals may
fall into another process's check, and who may die. `MCSingleInstance` names the worlds
of each run.

### TimerTaskQueue (and MCTimerTaskQueue, TimerTaskQueueProofs)

Callers go through `Start()` and `Stop()` with the unlocked look at `stoped_` as a step
before `startlock`. The `io_context` is a line of handlers (events, `"tick"` for a
timer that expired, `"aborted"` for a cancelled wait) that survives `stop()` and
`restart()`; workers take handlers from it until it is stopped. The timer is external:
`waits` counts its pending waits, `CancelWaits` completes them as aborted, `Expire` as
expired, the latter only while a worker is inside `run_for()`. A post reads `stoped_`
in one step (`PostCheck`) and takes effect in a later one. The periodic check reads the
clock, takes `delay_event_lock_`, posts due events one by one, releases it, cancels
and sets up the timer, each as a step. Left out: `thread_active_timetab_`, which
nothing reads, and events that throw or call `Start()` or `Stop()`.

### ConcurrentMap (and AtomicMap, MCConcurrentMap, ConcurrentMapProofs)

`bucket[b]` is the `std::map` of bucket b, a function on the keys that are there. A
thread is outside, or in one call `op` with its `entries`; `at` is the bucket it treats
next. A call takes the lock of a bucket once, so what `Insert`, `Update`, `Delete`,
`LookUp`, `Contain` and each turn of `GetAllKey`, `Size` and `Clear` do is one step
(`WriteKey`, `ReadKey`, `ListBucket`, `SizeOfBucket`, `ClearBucket`). The batches hold
the lock over a loop: `LockBucket`, `TreatEntry` per entry of the sub-list,
`UnlockBucket`; meanwhile nobody else is let into the bucket (`Unlocked`). The
sub-lists, split off the argument before the first lock, are what `SubList` picks from
it. `Return` ends a call, whose result is then in `list` or `total`. `always` and
`ever` are history variables for `SnapshotBounds`. The callers, keys, values, `Hash`,
`Compare` (a set of pairs), the number of buckets and the possible calls are
constants; no bucket at all, for which the code divides by zero, is excluded, and so
are keys whose `Hash` or `operator<` is not a function. The keys are numbers only
because `std::map` needs them ordered.

`AtomicMap` has no buckets and no locks: one value per key, and for each call what is
left to treat. A call does to each of its keys, at one moment between its start and its
return, what the one-key operation does; entries that name the same key are treated in
their order. `ImplementsAtomicMap` states that every behaviour of ConcurrentMap is one
of AtomicMap, with `Value` (the value in the bucket a key hashes to), `Todo` (the
entries or keys whose bucket lies ahead) and `Found` for its variables.

### WorkThread (and WorkThreadProofs)

One WorkThread and the Work objects pushed into it. `worker` is where the thread is in
the loop of `StartWork()`: it evaluates the predicate of `wait()` under `works_mtx_`
(`LookIntoQueue`) and is then `"inside"` or, about to sleep and still with the mutex,
`"dozing"`; `FallAsleep` gives the mutex up. `Exit` and `Take` are the critical section
behind the wait, `Skip` and `Accept` the look at the status, `Doing` and `Done` the two
assignments around the body. `StopWork` (also the destructor), `StopNotifies` and
`StopJoins` are the three statements of `StopWork()`, none of them under the mutex.
`PushWork` is the look at `stoped_`, `Push` the critical section. `Cancel` is
`set_work_status(kInvalid)`, as `DeleteWork()` calls it. `stoped_` has no value before
the first `StartWork()`, so that it starts as either. Assumed: one owner, who does not
call `StartWork()` while the thread is joinable (std::terminate); bodies end and do not
throw; a work is pushed once. `StartWork()` ends without returning its `bool`; the model
is of a build in which it comes back all the same.

`ImplementsFifo` uses the abstract module of net::ThreadPool: the queue is its line, the
work in the worker's hand is active, whether it is executed or found cancelled.

### CrashHandler (and MCCrashHandler, CrashHandlerProofs)

Threads of several processes share a working directory. `Signal` puts a handler run on
the `stack` of a thread; only its own signal is blocked meanwhile, so that others may
nest. The steps of `ProcessCrashSig()` are `Stages`: `CreateMaps` (`O_EXCL`, so only the
first process of a second saves its maps), `CopyMaps`, `OpenTrace` or `SkipTrace` (the
`back_trace_` switch, which may be set at any time, or a failing `open()`), `LockTrace`,
`WriteFrame` per frame, `UnlockTrace` (`F_UNLCK` and `close()`), `RestoreDefault`,
`RaiseSignal` or, in a debug build, `RaiseStop`. The lock is one per process, as POSIX
has it. `SignalEnds` is a signal after its default action was restored; `Kill` is
SIGKILL, or a fault in the handler of that fault; `Continue` is SIGCONT, after which an
interrupted program goes on and a fault occurs again. The header of a trace is written
in front of the lock and may stand between the frames of another; `trace` holds the
frames only. All is in one second: the files of other seconds are other files. The
result of `fcntl(F_SETLKW)` (line 274) is not looked at; the model takes it for granted
that the lock is given once it is free. A signal does not interrupt the call, as
`SA_RESTART` is set; on a file system that has no locks for it nothing would keep
traces apart.

As it stands the file is in no build and lacks declarations (`CrashSighandler` in line
36, libunwind); the model takes the statements for what they say, and `kCrashLogPath_`
in line 244 as in line 134.

### HttpClient (and MCHttpClient, HttpClientProofs)

A request is sent by `Send` (through the pool) or `SendNow` (`synSend`,
`sendImmediate`, and `send` while the pool has no thread). Its transfer is the sequence
`ReadCookieFilename`, `InitDone` or `InitFails`, `Perform` or `GivesUp`, `Answer` or
`NoAnswer`, `Close` (the destructor of `Curl`), `Callback`, `End`; the four `do...`
functions differ in `Performs` only (`doPut` looks at no result), and a type that is not
known goes straight to the callback. `Cleanup` is the body of `~HttpClient`, `StopPool`
and `JoinPool` are the destruction of the member `threadPool_`.

The destructor waits for the pool and for nothing else, so that a transfer in a thread
of its own may go on when the members are gone: `sendImmediate()` detaches its thread
(`http_client.cpp:213-214`), and no line says that the client has to live until the
callback. What such a transfer reads of the client then is undefined: `ReadFreed` takes
any cookie file name, `Lost` is a crash or a mutex that is never given. Behind
`Curl::init()` it does not touch the client and goes on to its callback. A crash that
ends the whole program needs no action of its own: when the client is gone only such
transfers are left to be cut off.

The pool is taken for what NetThreadPool shows: a line that loses no wake-up and a
`stop()` that joins. Its workers are still threads with a loop head and a `take()`, so
that one may begin another transfer after `stop()`. libcurl is external: any option may
be refused, `curl_easy_perform()` fails or brings an answer with a cookie; a handle
without URL fails; the cookie file is read when the transfer begins, the jar written
when the handle is closed. Assumed of the program: callbacks are set and do not throw,
and no call of the client begins after its destructor has. A callback that sends
is covered, since requests may be sent at any time. Left out: timeouts, CA file and
headers, whose values no property tells apart, and the upload file.

## Runs

Symmetry (of the callers) is used in timer_safety and map, which check no liveness
property. Deadlock is checked in map, where a call can always begin or go on; the other
systems rest when nobody calls them.

| run | what it asks | bounds |
|---|---|---|
| pool_bounded | lost wake-ups, teardown; `run()` returns, tasks start, `stop()` returns | 2 clients, 2 workers, `start(1)` or `start(2)`, 3 tasks, a queue of 1 place set or not |
| pool_reentrant | order, the cut-off by `stop()`; with nested `run()`, exceptions and restarts | 1 client, 2 workers, 3 tasks, unbounded queue |
| netlink | wake-ups, order, overflow, restarts, removal; `Stop()` returns, events leave the queue | queue of 2, 4 events, 2 registrars, 2 ids |
| instance | the file names the one that runs, at least one runs, the check ends | 3 processes with pids of one and two digits, 4 worlds: an empty file that stays; launches and signals in order; no file or a stale one, with deaths at any point |
| instance_stale, instance_race | expected violations, see below | 3 processes |
| timer_safety | overlapping Start and Stop, events at one place | 2 callers, 2 starts, 2 stops, 2 workers, 2 events |
| map | one-key calls and entries of batches atomic and in order, keys at home, bounds on what `Size` and `GetAllKey` return | 2 callers, 2 buckets, 3 keys of which 2 share a bucket, 2 values, 14 calls |
| http | callbacks, truthful answers, cookies and destruction | a GET, a PUT and a request without type, 1 worker beside any number of other threads, 1 cookie file |
| work_thread | order over restarts, cancellation, `StopWork()` returns, the awake worker finds its work | 1 worker, 3 works, any number of sessions |
| crash | whole traces, nobody hangs in a handler | a process with 2 threads and 2 signals, one with 1 and 1, stacks of 2 frames, both builds |
| timer_live | `Stop()` returns, events run, the timer goes on | 1 caller, 2 starts, 1 stop, 1 worker, 2 events |

Why the bounds suffice: two threads on each side of a condition variable and a queue
of one place make every kind of wake-up compete (a notified thread that loses the
place, a spurious one, a thread between its look and its wait); a third task keeps the
queue full while two workers are busy; two workers allow `start(1)` twice. A queue
of two places and four events overflow more than once, before and after a swap. Three
processes are the holder, one in the check and one that comes later. Two starts and
stops overlap in every way two callers can, and include a restart. Two buckets make
every whole-map call and batch meet changes before and behind its place; the batches
have two entries of one bucket, an entry of the other and one key twice. Three works are one in
the worker's hand, one in the queue and one on its way there. Two threads of one process
and a second process are what the lock tells apart; two frames are the fewest that another
trace can come between, and two signals reach one thread nested, two threads, or one
thread before and after the default action was restored.

The bounds appear as constants: `kProcEvQueueMaxSize` (a constant of the code),
`MaxEvents` and `MaxIds` of NetlinkProcMon; `MaxNow` (clock), `MaxStarts`, `MaxStops`
and `Delays` of TimerTaskQueue; `QueueSizes` and `StartSizes`, the arguments of
`setMaxQueueSize()` and `start()`, of NetThreadPool; `Frames` and `MaxSignals` (per
process) of CrashHandler.

Properties, by module:

- NetThreadPool: `ItemsHaveTakers` and `SpaceHasPosters` count, so they say more than
  that nobody sleeps for ever: while one thread sleeps, every task (free place) has an
  awake thread of its own. `OneTaskAfterStop`, `TeardownSafe`, `ImplementsFifo`;
  `CallReturns`, `TaskStarts`, `StopReturns`.
- NetlinkProcMon: `NoMissedWakeup`, `QuietWhenStopped`, `InOrder`,
  `OverflowDropsOldest` (the oldest goes, and only when `kProcEvQueueMaxSize + 1` newer
  ones have come), `NothingElseLost`, `RemovedIsSilent`; `StopReturns`, `EventLeaves`.
- SingleInstance: `RunnerRecorded`, which where it holds implies `AtMostOneRuns`;
  `CheckEnds`, `SomeoneRuns`.
- TimerTaskQueue: `QuietWhenStopped`, `EventAtOnePlace`, `NoneLost`; `StopReturns`,
  `PostedRuns`, `DelayedLeaves`.

- ConcurrentMap: `SnapshotBounds` (`GetAllKey()` lists no key twice, each
  key that was there throughout the call and none that never was; `Size()` lies between
  the two counts), `ImplementsAtomicMap`; `TypeOK` includes that every key is in the
  bucket it hashes to.

- HttpClient: `PoolQuietWhenGone` (of what `send()` gave to the pool nothing is worked on
  any more; transfers in threads of their own are not spoken of), `SuccessIsComplete`, `CookiesKept` (the cookie of an
  answer is in the file when the callback runs and stays, unless another transfer had
  the file open); `SentIsAnswered`, which excepts what the client's destruction finds
  in the line and transfers in threads of their own that outlive the client.

- WorkThread: `ImplementsFifo`; `CancelledForGood` (once cancelled and not in the
  worker's hand past its look, for ever so); `StopReturns`, which excepts the one state
  in which the notification is lost; `AwakeWorkerDrains`.

- CrashHandler: `TracesWhole` (frames of a trace stand together, unless some process was
  inside two handlers at once), `DeadLeftTrace` (with no such exception); `HandlerEnds`.

`TypeOK` of each module says what its variables hold; the runs check it in NetThreadPool
and ConcurrentMap, where it says more than types, and TLAPS proves it of every component.

### Fairness

The map has safety properties only. Elsewhere: weak fairness of each thread's own next step: the operating system schedules every
thread, a free mutex is obtained, task bodies and callbacks end, `recv()` has a
timeout of 0.1 s, timers expire, `curl_easy_perform()` ends by its timeouts, a handler
of a running process goes on. Nobody is assumed to make a call, to be notified
without cause or to fail. `flock()` and `startlock` are asked for finitely often in
each behaviour, so weak fairness is enough for them too.

### Where code and documentation disagree

`single_instance_process.h:1-11` promises one instance at a time. Two runs refute
`AtMostOneRuns`:

- instance_stale: the new pid is written behind the stale one that was read
  (`single_instance_process.cpp:83`); the file names nobody, and the next launch runs
  as well.
- instance_race: the file is created at line 45 and locked at line 51; another process
  locks the empty file in between, and both run.

A third way is in the model without a run of its own: a process that already has the
file open takes it over after `SigHandler()` has removed its name, and a third process
then finds no file.

The run instance shows the circumstances (`Orderly`) in which the promise is kept: an
empty file that nobody removes, or launches and signals one after the other.

## Proofs

`NetThreadPoolProofs` proves of NetThreadPool, for any sets of tasks, any finite sets of clients and
workers, any queue size and with or without nested calls, exceptions and restarts
(the only assumption is `NetThreadPoolAssumption` of the module):

- `TypeCorrect`: `Spec => []TypeOK`;
- `NoLostNotEmpty`: `Spec => []ItemsHaveTakers`;
- `NoLostNotFull`: `Spec => []SpaceHasPosters`;
- `StopCutsOff`: `Spec => []OneTaskAfterStop`;
- `TornDown`: `Spec => []TeardownSafe`;
- `PoolIsFifo`: `Spec => ImplementsFifo`, the refinement of FifoExecutor.

The argument rests on the inductive invariant `Shape`: types; a thread inside a task
body has one on its stack and a caller of `run()` has a task in hand (`CallShape`);
only threads at `take()` sleep on `notEmpty_` and only threads in `run()` on `notFull_`
(`Asleep`); at most one worker exists that `threads_` does not hold, and only while
`start()` still counts it (`Listing`, without which the loop counter could not be
shown to stay a natural number). The two wake-up invariants are inductive relative to
`Shape`: each step either leaves the counts alone, or moves a sleeping thread among
the awake ones together with the item or place it is for. `OneTaskAfterStop` needs
`LastTask`: a worker that took a task after `stop()` is on its way to the loop head,
where it finds `running_` cleared.

`TornDown` needs `Teardown`: `threads_` holds no thread twice; while threads are being
joined exactly those in front of the loop variable are, or all of them in a second
`stop()`, whose `join()` throws to the owner; and a pool that rests with `running_`
cleared has joined all. The destructor looks at `running_`, so the throw never comes
out of it. `PoolIsFifo` needs `Once`: a task is in one hand, once in the
queue or inside one body, so that taking the front of the queue starts a task that has
never run. Each step that moves a task has a lemma that it is a step of FifoExecutor
(`CallerStep`, `PushStep`, `TakeStep`, `ReturnStep`); all others leave the line, the
running tasks and the finished ones alone.

`ConcurrentMapProofs` proves of ConcurrentMap, for any set of callers, any finite set
of keys, any number of buckets above zero, any hash, any `Compare` and any calls
(`ConcurrentMapAssumption`):

- `KeysAtHome`: `Spec => []TypeOK`;
- `BatchesExclude`: `Spec => []OneInside`;
- `BucketsAreAtomic`: `Spec => ImplementsAtomicMap`, the buckets implement the map
  without them;
- `SnapshotWithinBounds`: `Spec => []SnapshotBounds`.

The inductive invariant `Inv` adds to the first two invariants the shape of a call
(`CallShape`): a call about one key has one entry and goes to the bucket of its key
or is past all, only a batch is inside a bucket, and outside a bucket its loop stands
at the first entry. The
refinement is proved action by action: a step that takes or leaves a lock changes
nothing in AtomicMap; a step on one bucket treats exactly the keys at home there, or the
one entry whose turn it is, which `TodoOf` and `WholeMapTodo` show to be left to do;
`ValueStore` says that writing one bucket changes no key of another. `SnapshotBounds`
needs `Snapshot`: `always` and `ever` enclose what the map holds (`Watched`); a
`GetAllKey()` under way has listed, once each, what it had to of the buckets it has
passed (`Listed`), and a `Size()` has counted between the two of them (`Sized`).

`WorkThreadProofs` proves of WorkThread, for any set of works and any number of callers
and sessions (`WorkThreadAssumption`):

- `AtOnePlace`: `Spec => []TypeOK`, where `TypeOK` says that a work is with its caller,
  once in the queue, with the worker or behind it;
- `CancellationHolds`: `Spec => CancelledForGood`;
- `WorksInOrder`: `Spec => ImplementsFifo`.

`TypeOK` is inductive as it stands. The other two are proved step by step from it.

`NetlinkProcMonProofs` proves of NetlinkProcMon, for any bound of the queue and any
numbers of events, ids and registrars (`ProcMonAssumption`):

- `NothingSleptThrough`: `Spec => []NoMissedWakeup`;
- `StopLeavesNothing`: `Spec => []QuietWhenStopped`;
- `CallbacksInOrder`: `Spec => []InOrder`;
- `OnlyOverflowLoses`: `Spec => []NothingElseLost`;
- `OldestFirstOut`: `Spec => []OverflowDropsOldest`;
- `RemovedStaysSilent`: `Spec => []RemovedIsSilent`;
- `QueueBounded`: `Spec => []TypeOK`, which includes that the queue never holds more than
  `kProcEvQueueMaxSize + 1` events.

The first two rest on the inductive invariant `Phases`: what the owner has created or
joined at each point of `Start()` and `Stop()`, and that `StopThreads_` is set exactly
while `Stop()` runs. The next three rest on `Stream`: batch and queue are each increasing,
the batch is older than the queue, dropped events are older than queued ones, nothing
behind `dispatched` is missing but what was dropped, and the batch is empty outside of a
delivery, so that the swap overwrites nothing. That last part needs `Phases`: a
dispatcher is created only where there is none. `OldestFirstOut` needs `Limits` (below)
and `Spaced` as well: an event in the queue is behind the last one received by at least
as many as are queued behind it, so that the front of a full queue is behind by the size
of the queue. `RemovedStaysSilent` rests on `Registered` (an id is
with the registrar that generated it, then in the list, then removed, and never comes
back) and `CallsListed` (the dispatcher calls only what the list has, which stays as it
is meanwhile). `QueueBounded` adds `Limits`: the overflow test looks at the queue after it
has grown, so it leaves one event more than the constant says.

`TimerTaskQueueProofs` proves of TimerTaskQueue, for any callers, workers, events and
delays (`TimerAssumption`):

- `StopJoinsAll`: `Spec => []QuietWhenStopped`;
- `TableInOrder`: `Spec => []TypeOK`, which includes that the table of delayed events
  is in the order of its deadlines;
- `TimerLosesNone`: `Spec => []NoneLost`;
- `EventsAtOnePlace`: `Spec => []EventAtOnePlace`;
- `LocksHaveOwners`: `Spec => []LocksComeFree`, what `StopReturns` rests on besides
  fairness.

The invariant of the first, `Ownership`, says that only the holder of `startlock` is in
the middle of `Start()` or `Stop()`, that every running thread is in the vector, and
that the vector is empty whenever `Stop()` was the last to hold the lock: the unlocked
look at `stoped_` may be stale, but not what is done under the lock. `NoneLost` needs
`OneTimer`: until the second `Start()`, a `Stop()` or a `ClearDelayedEvent()` (`Calm`)
there is one pending wait, one tick in the line or one check under way, so that the check
which sets the timer up again has no wait to cancel. `EventAtOnePlace` is inductive with
`HandsFilled` (a worker has an event in its hand exactly while it runs one): `PlacesAre`
writes the places of an event as a sum, and each step takes it from one and adds it to
the next. `LocksComeFree` says that `startlock` belongs to a caller in the middle of
`Start()` or `Stop()`, which waits for nobody but in `join()`; that the `io_context` is
stopped while somebody joins, so that no `Start()` has restarted it under a `Stop()` and a
worker that comes back to `run_for()` ends; and that one worker at most has
`delay_event_lock_` over several steps.

`HttpClientProofs` proves of HttpClient, for any requests of any kinds, any workers and
cookie files (`HttpClientAssumption`):

- `PoolEndsWithClient`: `Spec => []PoolQuietWhenGone`, from `Line`: a request that waits
  is in the queue once, one in its transfer on the pool has a worker, and only one in a
  thread of its own is ever lost;
- `NoHalfSuccess`: `Spec => []SuccessIsComplete`, from `Options`: a transfer is
  performed with all its options, but for PUT, which the property excepts as `doPut()`
  looks at no result;
- `NoCookieLost`: `Spec => []CookiesKept`, from `Jars`: an answer's cookie is in its
  handle until that is closed, then in the file and in every handle that has read it,
  and of two handles open on one file each is known to overlap;
- `LineInOrder`: `Spec => []TypeOK`, from the three of them and `AtWork`: the request in a
  worker's hand is inside its transfer and came through the pool.

`CrashHandlerProofs` proves of CrashHandler, for any processes, threads, signals and
depths of stack (`CrashHandlerAssumption`):

- `HandlerState`: `Spec => []TypeOK`;
- `TheDeadLeaveTraces`: `Spec => []DeadLeftTrace`, from `Runs` (a handler in the
  unwinding loop has written the frames in front of its own, one past the loop all of
  them, unless it skipped them) and `Ends` (a process that has crashed, or has given a
  signal back its default action, has left a whole trace or skipped one);
- `TracesStandTogether`: `Spec => []TracesWhole`, from `InTurn`: while no process has
  been inside two handlers at once, a process has one handler at most, the lock is that
  of the process whose handler writes, and the last line of the file is the frame this
  handler wrote last;
- `NobodyKeepsTheLock`: `Spec => []LockComesFree`, what `HandlerEnds` rests on besides
  fairness: who waits for the lock waits for a process that is alive and in a handler that
  has still to drop it; it is running, unless it was inside two handlers at once and the
  other one has stopped it. It needs `Waited`: the lock's owner is in front of `F_UNLCK`
  (`Owned`), the dead are in no handler (`Emptied`), and a stopped process has a handler
  behind its `raise()` (`StopsBehind`), which with `InTurn` is its only one.

`SingleInstanceProofs` proves of SingleInstance, for any finite set of pids and any worlds
(`SingleInstanceAssumption`):

- `FileInvariant`: `Spec => []FileInv`, in every world, whoever dies and whatever fails:
  types; a process that is past `open()` has a file (`HasFile`); one between `flock()` and
  `LOCK_UN` has the lock of that file (`Locked`); it writes behind what it has read, so the
  file gets no hole (`Behind`);
- `RunnerIsRecorded`: `Spec => []RunnerRecorded`;
- `OrderlyRunsOne`: `Spec => [](Orderly => AtMostOneRuns)`. What instance_stale and
  instance_race find therefore needs a stale file, or launches that overlap while there is
  no file;
- `NoLockLeftBehind`: `Spec => []LocksAreHeld`, in every world: a process that waits in
  `flock()` waits for one that is between it and `LOCK_UN` with this very file, not for one
  that is gone;
- `NotAllGiveWay`: `Spec => []GaveWayToOne`: where no process is made to end, one is gone
  only because the text of another is in the file.

The last two are what `CheckEnds` and `SomeoneRuns` rest on besides fairness.
`RunnerRecorded` is not inductive: that nobody overwrites the runner's text depends on what
each process in its check has open, has read and has found. `OrderInv` says, of the orderly
worlds (`FileKept`): the text of a process past its `write()` is the content of the file
(`Recorded`); a file that is not empty has such an owner (`Owned`); everyone has the file
open that the name refers to (`SameFile`); who is about to write found it empty (`Fresh`);
what a process in its probe has read is the number in the file (`Probed`); and either the
file is there and nobody creates or removes it, or one process at a time is neither running
nor gone (`Order`). Two pids have different texts because `Number` takes each text back to
its pid (`NumberOfText`). `Text` and `Number` are recursive functions, which for the prover
exist only once it is shown: `Decimal` and `Value` do so by induction, which the module has
as a lemma about sets (`StrongInduction`), proved from the least number outside of the set.
`SomeUnused` finds a free inode for the file that is created: there is one more of them
than processes.

Each proof module begins with the lemmas about sequences that it needs: what `Append`,
`Tail`, a prefix and `\o` do to the members of a sequence, to one without repetitions and to
an increasing one, and how appending, inserting and removing change the number of members
of a kind.

Every safety invariant, action property and refinement that a passing run checks is stated
by a theorem. Only model-checked is liveness: it needs fairness, and with it ENABLED, which
the proof system does not cover. `AtMostOneRuns` is proved where it holds and refuted by two
runs where it does not.

## Plan

1. net::ThreadPool: `NetThreadPool`, `FifoExecutor`. Done, its safety properties and
   the refinement proved.
2. `NetlinkProcMon`, `TimerTaskQueue`: modelled, their safety properties proved.
3. `SingleInstance`: modelled, its safety properties proved.
4. `ConcurrentMap`, `AtomicMap`: modelled, the invariants and the refinement proved.
5. `WorkThread`: modelled, its safety properties proved.
6. `HttpClient`: modelled, its safety properties proved.
7. `CrashHandler`: modelled, its safety properties proved.
8. Open: the line of the `io_context` of TimerTaskQueue as a FIFO of its own.

## Not modelled

- `ThreadPool` (but for the effect of `DeleteWork()`): `stop_` is true from the
  constructor on and nothing clears it, so `PostWork()` returns before it does anything;
  as a template whose body fits no return type it is not compiled for any task. What is
  left is a vector of WorkThreads that are stopped one after the other.
- `HttpCookie`: reading and writing a file of lines, sequential, and used by nobody:
  `HttpClient::cookie_` is never set. (It would not read back what it writes:
  `writeFile()` ends no line, `http_cookie.cpp:104` and `:122`.)
- The rotation of crash files, which never finds a file, `Addr2line()` and `v_popen()`,
  which produce text.
- `Library`, a wrapper of boost::dll with no state of its own; build files; libcurl and
  boost, which are modelled only by how they are used.
