---------------------------- MODULE SingleInstance ----------------------------
(***************************************************************************)
(* SingleInstanceProcess of single_instance_process.{h,cpp}: the processes *)
(* that execute the main() of test.cpp, the file at kMyPidFile with its    *)
(* flock(), and the table of live pids that kill(pid, 0) asks.             *)
(*                                                                         *)
(* Every system call is one step.  A process is named by its pid, and the  *)
(* file is the string of decimal digits it holds.                          *)
(***************************************************************************)
EXTENDS Integers, Sequences, FiniteSets

CONSTANTS
  Procs,         \* the pids of the instances, each launched at most once
  StalePid,      \* the pid of a process that is gone, which a stale file holds
  Worlds,        \* the circumstances to consider, see World
  None

(* What the file is before the first launch, what may happen while an      *)
(* instance is in CheckOnly(), and which processes are ended: none, running*)
(* ones by SIGINT or SIGTERM, or any at any point.                         *)
World ==
  [file : {"absent", "empty", "stale"}, overlap : {"anything", "nothing"},
   deaths : {"none", "handled", "any"}]

Inodes == 1..(Cardinality(Procs) + 1)

ASSUME SingleInstanceAssumption ==
  /\ Procs \subseteq Nat \ {0} /\ IsFiniteSet(Procs)
  /\ StalePid \in Nat \ ({0} \cup Procs)
  /\ Worlds \subseteq World
  /\ None \notin Inodes \cup Procs

VARIABLES
  world,     \* the circumstances, chosen once
  pc,        \* where each process is
  fd,        \* fd_: the inode each process has open, or None
  offset,    \* the file offset of fd_
  seen,      \* old_pid: the number each process has read
  path,      \* the inode kMyPidFile names, or None
  content,   \* the digits in each inode
  lock       \* the process that holds the flock() of each inode, or None

local == <<pc, fd, offset, seen>>
files == <<path, content, lock>>
vars == <<world, local, files>>

Checking == {"open", "create", "lockNew", "lockOld", "read", "probe", "write", "unlock", "close"}
Running  == {"handlers", "running"}      \* CheckOnly() has returned
Gone     == {"new", "gone"}

TypeOK ==
  /\ world \in Worlds
  /\ pc \in [Procs -> Checking \cup Running \cup {"handler"} \cup Gone]
  /\ fd \in [Procs -> Inodes \cup {None}]
  /\ offset \in [Procs -> Nat] /\ seen \in [Procs -> Nat]
  /\ path \in Inodes \cup {None}
  /\ content \in [Inodes -> Seq(0..9)]
  /\ lock \in [Inodes -> Procs \cup {None}]

-----------------------------------------------------------------------------
(* sprintf("%d") and atol().                                               *)

Text(pid) ==
  LET decimal[n \in 0..pid] ==
        IF n < 10 THEN <<n>> ELSE Append(decimal[n \div 10], n % 10)
  IN  decimal[pid]

Number(digits) ==
  LET value[i \in 0..Len(digits)] ==
        IF i = 0 THEN 0 ELSE 10 * value[i - 1] + digits[i]
  IN  value[Len(digits)]

Init ==
  /\ world \in Worlds
  /\ pc = [p \in Procs |-> "new"]
  /\ fd = [p \in Procs |-> None]
  /\ offset = [p \in Procs |-> 0] /\ seen = [p \in Procs |-> 0]
  /\ path = IF world.file = "absent" THEN None ELSE 1
  /\ content = [i \in Inodes |->
                  IF i = 1 /\ world.file = "stale" THEN Text(StalePid) ELSE <<>>]
  /\ lock = [i \in Inodes |-> None]

-----------------------------------------------------------------------------
Goes(p, from, to) == pc[p] = from /\ pc' = [pc EXCEPT ![p] = to]

(* A process ends: its descriptor is closed, which frees its lock.         *)
Exit(p) ==
  /\ pc' = [pc EXCEPT ![p] = "gone"]
  /\ fd' = [fd EXCEPT ![p] = None]
  /\ lock' = [i \in Inodes |-> IF lock[i] = p THEN None ELSE lock[i]]
  /\ UNCHANGED <<offset, seen, path, content>>

NobodyChecks == \A q \in Procs : pc[q] \in Gone \cup {"running"}

Launch(p) ==
  /\ Goes(p, "new", "open")
  /\ world.overlap = "nothing" => NobodyChecks
  /\ UNCHANGED <<fd, offset, seen, files>>

(* CheckOnly(): open() without O_CREAT. *)
Open(p) ==
  /\ Goes(p, "open", IF path = None THEN "create" ELSE "lockOld")
  /\ fd' = [fd EXCEPT ![p] = path]
  /\ UNCHANGED <<offset, seen, files>>

(* CreatePidFile(): O_CREAT | O_EXCL. *)
Create(p) ==
  /\ Goes(p, "create", "lockNew")
  /\ path = None
  /\ LET unused == {i \in Inodes : \A q \in Procs : fd[q] # i}
         i == CHOOSE j \in unused : TRUE
     IN  /\ fd' = [fd EXCEPT ![p] = i]
         /\ path' = i
         /\ content' = [content EXCEPT ![i] = <<>>]
  /\ UNCHANGED <<offset, seen, lock>>

CreateFails(p) ==
  /\ pc[p] = "create" /\ path # None
  /\ Exit(p)

(* Mutant of Flock: the lock is shared. *)
FlockShared(p) ==
  lock' = [lock EXCEPT ![fd[p]] = p]

(* flock(LOCK_EX) waits until the lock is free. *)
Flock(p) ==
  /\ lock[fd[p]] = None
  /\ lock' = [lock EXCEPT ![fd[p]] = p]

LockNew(p) ==
  /\ Goes(p, "lockNew", "write")
  /\ Flock(p)
  /\ UNCHANGED <<fd, offset, seen, path, content>>

(* CheckPidFile() *)
LockOld(p) ==
  /\ Goes(p, "lockOld", "read")
  /\ Flock(p)
  /\ UNCHANGED <<fd, offset, seen, path, content>>

(* Mutant of Read: an empty file is not told apart, atol("") is 0. *)
ReadAlwaysProbes(p) ==
  LET digits == content[fd[p]]
  IN  /\ Goes(p, "read", "probe")
      /\ offset' = [offset EXCEPT ![p] = Len(digits)]
      /\ seen' = [seen EXCEPT ![p] = Number(digits)]
      /\ UNCHANGED <<fd, files>>

(* read() moves the offset behind what it returns. *)
Read(p) ==
  LET digits == content[fd[p]]
  IN  /\ Goes(p, "read", IF digits = <<>> THEN "write" ELSE "probe")
      /\ offset' = [offset EXCEPT ![p] = Len(digits)]
      /\ seen' = [seen EXCEPT ![p] = Number(digits)]
      /\ UNCHANGED <<fd, files>>

(* What kill(pid, 0) finds; pid 0 is the caller's own process group. *)
LivePids == {0} \cup {p \in Procs : pc[p] \notin Gone}

(* Mutant of GiveUp: the process tries again. *)
TryAgain(p) ==
  /\ Goes(p, "probe", "open") /\ seen[p] \in LivePids
  /\ fd' = [fd EXCEPT ![p] = None]
  /\ lock' = [lock EXCEPT ![fd[p]] = None]
  /\ offset' = [offset EXCEPT ![p] = 0]
  /\ UNCHANGED <<seen, path, content>>

(* kill(old_pid, 0) finds a process: exit(-1). *)
GiveUp(p) ==
  /\ pc[p] = "probe" /\ seen[p] \in LivePids
  /\ Exit(p)

(* kill(old_pid, 0) says ESRCH. *)
TakeOver(p) ==
  /\ Goes(p, "probe", "write") /\ seen[p] \notin LivePids
  /\ UNCHANGED <<fd, offset, seen, files>>

(* WritePidIntoFd(): the text replaces what the file has at the offset.    *)
Write(p) ==
  LET old == content[fd[p]]
      end == offset[p] + Len(Text(p))
  IN  /\ Goes(p, "write", "unlock")
      /\ content' = [content EXCEPT ![fd[p]] =
                       SubSeq(old, 1, offset[p]) \o Text(p) \o SubSeq(old, end + 1, Len(old))]
      /\ offset' = [offset EXCEPT ![p] = end]
      /\ UNCHANGED <<fd, seen, path, lock>>

Unlock(p) ==
  /\ Goes(p, "unlock", "close")
  /\ lock' = [lock EXCEPT ![fd[p]] = None]
  /\ UNCHANGED <<fd, offset, seen, path, content>>

Close(p) ==
  /\ Goes(p, "close", "handlers")
  /\ fd' = [fd EXCEPT ![p] = None]
  /\ UNCHANGED <<offset, seen, files>>

(* main() installs SigHandler() for SIGINT and SIGTERM and enters Run(). *)
InstallHandlers(p) ==
  /\ Goes(p, "handlers", "running")
  /\ UNCHANGED <<fd, offset, seen, files>>

(* Mutant of SigHandler: the file stays. *)
SigHandlerKeepsFile(p) ==
  /\ world.deaths # "none" /\ (world.overlap = "nothing" => NobodyChecks)
  /\ Goes(p, "running", "handler")
  /\ UNCHANGED <<fd, offset, seen, files>>

(* SigHandler(): remove() whatever file has the name now, then _exit(). *)
SigHandler(p) ==
  /\ world.deaths # "none" /\ (world.overlap = "nothing" => NobodyChecks)
  /\ Goes(p, "running", "handler")
  /\ path' = None
  /\ UNCHANGED <<fd, offset, seen, content, lock>>

HandlerExits(p) == pc[p] = "handler" /\ Exit(p)

(* SIGKILL, a crash, a signal before the handlers are installed, or one of *)
(* the exit(-1) after a failed system call: the file stays as it is.       *)
Die(p) ==
  /\ world.deaths = "any" /\ pc[p] \notin Gone
  /\ Exit(p)

Prologue(p) ==
  \/ Open(p) \/ Create(p) \/ CreateFails(p) \/ LockNew(p) \/ LockOld(p) \/ Read(p)
  \/ GiveUp(p) \/ TakeOver(p) \/ Write(p) \/ Unlock(p) \/ Close(p) \/ InstallHandlers(p)

Next ==
  /\ UNCHANGED world
  /\ \E p \in Procs :
       Launch(p) \/ Prologue(p) \/ SigHandler(p) \/ HandlerExits(p) \/ Die(p)

Spec == Init /\ [][Next]_vars

(* A process that has been launched goes on; nobody has to launch or kill. *)
FairSpec ==
  Spec /\ \A p \in Procs : WF_vars(UNCHANGED world /\ (Prologue(p) \/ HandlerExits(p)))

-----------------------------------------------------------------------------
(* Properties.                                                             *)

(* At most one instance has come back from CheckOnly() and runs.           *)
AtMostOneRuns ==
  \A p, q \in Procs : (pc[p] \in Running /\ pc[q] \in Running) => p = q

(* Nothing removes the file, which is empty at first, or launches and      *)
(* signals come one at a time and every instance leaves by its handler.    *)
Orderly ==
  \/ world.file = "empty" /\ world.deaths = "none"
  \/ world.file # "stale" /\ world.overlap = "nothing" /\ world.deaths # "any"

(* In these circumstances kMyPidFile holds the pid of each instance that   *)
(* runs and nothing else, whoever is examining the file: the next one can  *)
(* find it, and, the file being one, at most one instance runs.            *)
RunnerRecorded ==
  Orderly =>
    \A p \in Procs : pc[p] \in Running => path # None /\ content[path] = Text(p)

(* The check comes to an end, whatever happens to the other processes:     *)
(* nobody is left waiting for the lock of a process that is gone.          *)
CheckEnds ==
  \A p \in Procs : pc[p] = "open" ~> pc[p] \in {"running", "handler", "gone"}

(* Processes that start together do not all give way to one another, as    *)
(* long as none is ended.                                                  *)
SomeoneRuns ==
  \A p \in Procs :
    (pc[p] = "open" /\ world.deaths = "none") ~> \E q \in Procs : pc[q] = "running"
=============================================================================
