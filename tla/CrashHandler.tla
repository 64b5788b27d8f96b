---------------------------- MODULE CrashHandler ----------------------------
(***************************************************************************)
(* CrashHandler of crash_handler.{h,cpp}: processes of several threads     *)
(* that share a directory and get crash signals at any time, also inside   *)
(* the handler of another signal.                                          *)
(*                                                                         *)
(* Everything happens in one second, so that all processes name the same   *)
(* two files; those of another second have nothing to do with them.  The   *)
(* kernel's part is external: signal masks and actions, and a record lock  *)
(* that belongs to a process.  F_SETLKW is taken to fail for nobody; no    *)
(* signal interrupts it, for SA_RESTART is set, and its other errors,      *)
(* which the code does not look at, are left out.                          *)
(***************************************************************************)
EXTENDS Integers, Sequences, SequencesExt

CONSTANTS
  Procs,
  Threads,
  ProcessOf,   \* the process of each thread
  Signals,     \* the signals Init() takes
  Faults,      \* those that come back when their handler returns: SIGSEGV, SIGABRT, ...
  Frames,      \* the depth of the stacks that are unwound
  MaxSignals,  \* bound: the signals each process gets
  Nobody

ASSUME CrashHandlerAssumption ==
  /\ ProcessOf \in [Threads -> Procs]
  /\ Faults \subseteq Signals
  /\ Frames \in Nat \ {0} /\ MaxSignals \in [Procs -> Nat]
  /\ Nobody \notin Procs

VARIABLES
  release,     \* BUILD_RELEASE
  state,       \* "running", "stopped", "crashed" by a signal, "killed" otherwise
  handled,     \* the signals that CrashSighandler() still takes, of each process
  stack,       \* the handlers each thread is inside, the innermost last
  maps,        \* the crash_process_maps file: "absent", "partial", "whole"
  trace,       \* the frames in the crash_trace file, without the headers
  lock,        \* the process that has locked it
  signals,     \* how many signals each process got
  doubled,     \* history: the processes that were inside two handlers at once
  skipped      \* history: the processes with a handler that wrote no trace

files == <<maps, trace, lock>>
history == <<signals, doubled, skipped>>
vars == <<release, state, handled, stack, files, history>>

(* Mutant of Stages: the default action is restored first. *)
StagesDefaultFirst ==
  <<"default", "maps", "copy", "open", "lock", "frames", "unlock", "raise", "return">>

(* ProcessCrashSig(), step by step. *)
Stages ==
  <<"maps", "copy", "open", "lock", "frames", "unlock", "default", "raise", "return">>

Run == [signal : Signals, at : ToSet(Stages), frame : 1..Frames]

TypeOK ==
  /\ release \in BOOLEAN
  /\ state \in [Procs -> {"running", "stopped", "crashed", "killed"}]
  /\ handled \in [Procs -> SUBSET Signals]
  /\ stack \in [Threads -> Seq(Run)]
  /\ maps \in {"absent", "partial", "whole"}
  /\ trace \in Seq([thread : Threads, signal : Signals, frame : 1..Frames])
  /\ lock \in Procs \cup {Nobody}
  /\ signals \in [Procs -> Nat] /\ doubled \subseteq Procs /\ skipped \subseteq Procs

(* Init() of the handler has been called.  It has cleared no old file:     *)
(* kCrashLogPath_ is empty, so that the files lie in the working directory *)
(* and directory_iterator throws.                                          *)
Init ==
  /\ release \in BOOLEAN
  /\ state = [p \in Procs |-> "running"]
  /\ handled = [p \in Procs |-> Signals]
  /\ stack = [t \in Threads |-> <<>>]
  /\ maps = "absent" /\ trace = <<>> /\ lock = Nobody
  /\ signals = [p \in Procs |-> 0] /\ doubled = {} /\ skipped = {}

-----------------------------------------------------------------------------
(* Processes and signals.                                                  *)

(* A process ends and with it its threads and its lock. *)
End(p, how) ==
  /\ state' = [state EXCEPT ![p] = how]
  /\ stack' = [t \in Threads |-> IF ProcessOf[t] = p THEN <<>> ELSE stack[t]]
  /\ lock' = IF lock = p THEN Nobody ELSE lock
  /\ UNCHANGED <<release, handled, maps, trace>>

(* SIGKILL, or a fault inside the handler of the same fault.               *)
Kill(p) ==
  /\ state[p] \in {"running", "stopped"}
  /\ End(p, "killed")
  /\ UNCHANGED history

Busy(p) == \E t \in Threads : ProcessOf[t] = p /\ stack[t] # <<>>

(* The mask is empty: a handler blocks its own signal only, in its thread. *)
Deliverable(t, s) ==
  /\ state[ProcessOf[t]] = "running" /\ signals[ProcessOf[t]] < MaxSignals[ProcessOf[t]]
  /\ \A i \in DOMAIN stack[t] : stack[t][i].signal # s

Signal(t, s) ==
  LET p == ProcessOf[t]
  IN  /\ Deliverable(t, s) /\ s \in handled[p]
      /\ stack' = [stack EXCEPT ![t] = Append(@, [signal |-> s, at |-> Head(Stages), frame |-> 1])]
      /\ signals' = [signals EXCEPT ![p] = @ + 1]
      /\ doubled' = IF Busy(p) THEN doubled \cup {p} ELSE doubled
      /\ UNCHANGED <<release, state, handled, files, skipped>>

(* The default action of every signal that is taken. *)
SignalEnds(t, s) ==
  /\ Deliverable(t, s) /\ s \notin handled[ProcessOf[t]]
  /\ End(ProcessOf[t], "crashed")
  /\ signals' = [signals EXCEPT ![ProcessOf[t]] = @ + 1]
  /\ UNCHANGED <<doubled, skipped>>

(* SIGCONT, from whoever looked at the stopped process. *)
Continue(p) ==
  /\ state[p] = "stopped"
  /\ state' = [state EXCEPT ![p] = "running"]
  /\ UNCHANGED <<release, handled, stack, files, history>>

-----------------------------------------------------------------------------
(* One handler: the steps of the innermost one of a thread.                *)

At(t, stage) ==
  stack[t] # <<>> /\ Last(stack[t]).at = stage /\ state[ProcessOf[t]] = "running"

(* The handler goes on with what follows a stage. *)
GoesPast(t, stage) ==
  \E n \in 1..(Len(Stages) - 1) :
    /\ Stages[n] = stage
    /\ stack' = [stack EXCEPT ![t][Len(stack[t])].at = Stages[n + 1]]

(* CrashFileCopy() opens with O_EXCL: one process a second saves its maps. *)
CreateMaps(t) ==
  /\ At(t, "maps") /\ GoesPast(t, IF maps = "absent" THEN "maps" ELSE "copy")
  /\ maps' = IF maps = "absent" THEN "partial" ELSE maps
  /\ UNCHANGED <<release, state, handled, trace, lock, history>>

CopyMaps(t) ==
  /\ At(t, "copy") /\ GoesPast(t, "copy")
  /\ maps' = "whole"
  /\ UNCHANGED <<release, state, handled, trace, lock, history>>

(* CrashFileOpenAndWriteCommon(): the header, before the lock.             *)
OpenTrace(t) ==
  /\ At(t, "open") /\ GoesPast(t, "open")
  /\ UNCHANGED <<release, state, handled, files, history>>

(* back_trace_, which anybody may set at any time, is off, or open() fails.*)
SkipTrace(t) ==
  /\ At(t, "open") /\ GoesPast(t, "unlock")
  /\ skipped' = skipped \cup {ProcessOf[t]}
  /\ UNCHANGED <<release, state, handled, files, signals, doubled>>

(* Mutant of Lockable: the lock is not waited for. *)
LockIgnored(p) == TRUE

(* The lock keeps other processes out, not other threads or handlers.      *)
Lockable(p) == lock \in {Nobody, p}

LockTrace(t) ==
  /\ At(t, "lock") /\ GoesPast(t, "lock")
  /\ Lockable(ProcessOf[t]) /\ lock' = ProcessOf[t]
  /\ UNCHANGED <<release, state, handled, maps, trace, history>>

(* One turn of the unwinding loop.                                         *)
WriteFrame(t) ==
  LET frame == Last(stack[t]).frame
      line == [thread |-> t, signal |-> Last(stack[t]).signal, frame |-> frame]
  IN  /\ At(t, "frames")
      /\ trace' = Append(trace, line)
      /\ IF frame < Frames
           THEN stack' = [stack EXCEPT ![t][Len(stack[t])].frame = @ + 1]
           ELSE GoesPast(t, "frames")
      /\ UNCHANGED <<release, state, handled, maps, lock, history>>

(* Mutant of DropLock: the lock is kept. *)
KeepLock(p) == UNCHANGED lock

(* F_UNLCK, and close() as well, drop the lock of the whole process.       *)
DropLock(p) == lock' = IF lock = p THEN Nobody ELSE lock

UnlockTrace(t) ==
  /\ At(t, "unlock") /\ GoesPast(t, "unlock")
  /\ DropLock(ProcessOf[t])
  /\ UNCHANGED <<release, state, handled, maps, trace, history>>

(* signal(signo, SIG_DFL) *)
RestoreDefault(t) ==
  /\ At(t, "default") /\ GoesPast(t, "default")
  /\ handled' = [handled EXCEPT ![ProcessOf[t]] = @ \ {Last(stack[t]).signal}]
  /\ UNCHANGED <<release, state, files, history>>

(* The signal raised is blocked until the handler returns, and then fatal. *)
RaiseSignal(t) ==
  /\ At(t, "raise") /\ release
  /\ End(ProcessOf[t], "crashed")
  /\ UNCHANGED history

(* In a debug build the process stops in front of the return.              *)
RaiseStop(t) ==
  /\ At(t, "raise") /\ GoesPast(t, "raise") /\ ~release
  /\ state' = [state EXCEPT ![ProcessOf[t]] = "stopped"]
  /\ UNCHANGED <<release, handled, files, history>>

(* Continued, it goes on after an interrupt; a fault occurs again.         *)
Return(t) ==
  /\ At(t, "return") /\ Last(stack[t]).signal \notin Faults
  /\ stack' = [stack EXCEPT ![t] = Front(@)]
  /\ UNCHANGED <<release, state, handled, files, history>>

ReturnToFault(t) ==
  /\ At(t, "return") /\ Last(stack[t]).signal \in Faults
  /\ End(ProcessOf[t], "crashed")
  /\ UNCHANGED history

ProcessCrashSig(t) ==
  \/ CreateMaps(t) \/ CopyMaps(t)
  \/ OpenTrace(t) \/ SkipTrace(t) \/ LockTrace(t) \/ WriteFrame(t) \/ UnlockTrace(t)
  \/ RestoreDefault(t) \/ RaiseSignal(t) \/ RaiseStop(t) \/ Return(t) \/ ReturnToFault(t)

Next ==
  \/ \E p \in Procs : Kill(p) \/ Continue(p)
  \/ \E t \in Threads : ProcessCrashSig(t) \/ \E s \in Signals : Signal(t, s) \/ SignalEnds(t, s)

Spec == Init /\ [][Next]_vars

(* A thread in a handler goes on; nobody has to send, kill or continue.    *)
FairSpec == Spec /\ \A t \in Threads : WF_vars(ProcessCrashSig(t))

-----------------------------------------------------------------------------
(* Properties.                                                             *)

(* Unless a process is inside two handlers at once, the frames of a trace  *)
(* stand together, in order, whoever else crashes, is killed or stopped.   *)
(* (Headers of others, written before the lock, may stand between them.)   *)
TracesWhole ==
  doubled = {} =>
    \A i \in DOMAIN trace :
      \/ trace[i].frame = 1
      \/ i > 1 /\ trace[i] = [trace[i - 1] EXCEPT !.frame = @ + 1]

(* A process that a crash signal has ended has left a whole stack trace,   *)
(* however its threads and handlers cut each other off, unless one of its  *)
(* handlers was not to, or could not, write any.                           *)
DeadLeftTrace ==
  \A p \in Procs :
    (state[p] = "crashed" /\ p \notin skipped) =>
      \E t \in Threads, s \in Signals :
        /\ ProcessOf[t] = p
        /\ \A n \in 1..Frames : Contains(trace, [thread |-> t, signal |-> s, frame |-> n])

(* A process does not stay in a handler for ever: it ends, is stopped, or  *)
(* goes on after an interrupt.  What it could wait for is the lock of      *)
(* another process, which only a process inside two handlers at once keeps *)
(* while it is stopped.                                                    *)
HandlerEnds ==
  \A p \in Procs : Busy(p) ~> (~Busy(p) \/ state[p] # "running" \/ doubled # {})
=============================================================================
