------------------------- MODULE CrashHandlerProofs -------------------------
(***************************************************************************)
(* Proofs about CrashHandler, for any processes, threads, signals and      *)
(* depths of stack.  Beside TypeOK two invariants: Runs and Ends, about    *)
(* what each handler has written when it goes on, and InTurn, about who    *)
(* writes while no process is inside two handlers at once.                 *)
(***************************************************************************)
EXTENDS CrashHandler, TLAPS

Line == [thread : Threads, signal : Signals, frame : 1..Frames]

StageNames ==
  {"maps", "copy", "open", "lock", "frames", "unlock", "default", "raise", "return"}

LEMMA RunIs == Run = [signal : Signals, at : StageNames, frame : 1..Frames] /\ Head(Stages) = "maps"
<1>1. ToSet(Stages) = StageNames
  <2>1. DOMAIN Stages = 1..9
    BY DEF Stages
  <2>2. \A i \in 1..9 : Stages[i] \in StageNames
    BY DEF Stages, StageNames
  <2>3. \A x \in StageNames : \E i \in 1..9 : Stages[i] = x
    BY DEF Stages, StageNames
  <2> QED
    BY <2>1, <2>2, <2>3 DEF ToSet
<1>2. Head(Stages) = "maps"
  BY DEF Stages
<1>3. Run = [signal : Signals, at : StageNames, frame : 1..Frames]
  BY <1>1 DEF Run
<1> QED
  BY <1>2, <1>3

Goes(t, to) == stack' = [stack EXCEPT ![t][Len(stack[t])].at = to]

(* What follows each stage. *)
LEMMA Follows ==
  ASSUME NEW t
  PROVE  /\ GoesPast(t, "maps") => Goes(t, "copy")
         /\ GoesPast(t, "copy") => Goes(t, "open")
         /\ GoesPast(t, "open") => Goes(t, "lock")
         /\ GoesPast(t, "lock") => Goes(t, "frames")
         /\ GoesPast(t, "frames") => Goes(t, "unlock")
         /\ GoesPast(t, "unlock") => Goes(t, "default")
         /\ GoesPast(t, "default") => Goes(t, "raise")
         /\ GoesPast(t, "raise") => Goes(t, "return")
<1>1. /\ Stages[1] = "maps" /\ Stages[2] = "copy" /\ Stages[3] = "open" /\ Stages[4] = "lock"
      /\ Stages[5] = "frames" /\ Stages[6] = "unlock" /\ Stages[7] = "default"
      /\ Stages[8] = "raise" /\ Stages[9] = "return" /\ Len(Stages) = 9
  BY DEF Stages
<1>2. \A n \in 1..(Len(Stages) - 1) :
        n = 1 \/ n = 2 \/ n = 3 \/ n = 4 \/ n = 5 \/ n = 6 \/ n = 7 \/ n = 8
  BY <1>1
<1>3. ASSUME NEW stage, GoesPast(t, stage)
      PROVE  \E n \in 1..8 : Stages[n] = stage /\ Goes(t, Stages[n + 1])
  <2>1. 1..(Len(Stages) - 1) = 1..8
    BY <1>1
  <2> QED
    BY <1>3, <2>1, Zenon DEF GoesPast, Goes
<1>4. ASSUME GoesPast(t, "maps") PROVE Goes(t, "copy")
  <2>1. PICK n \in 1..8 : Stages[n] = "maps" /\ Goes(t, Stages[n + 1])
    BY <1>3, <1>4
  <2>2. n = 1
    BY <1>1, <1>2, <2>1
  <2> QED
    BY <1>1, <2>1, <2>2
<1>5. ASSUME GoesPast(t, "copy") PROVE Goes(t, "open")
  <2>1. PICK n \in 1..8 : Stages[n] = "copy" /\ Goes(t, Stages[n + 1])
    BY <1>3, <1>5
  <2>2. n = 2
    BY <1>1, <1>2, <2>1
  <2> QED
    BY <1>1, <2>1, <2>2
<1>6. ASSUME GoesPast(t, "open") PROVE Goes(t, "lock")
  <2>1. PICK n \in 1..8 : Stages[n] = "open" /\ Goes(t, Stages[n + 1])
    BY <1>3, <1>6
  <2>2. n = 3
    BY <1>1, <1>2, <2>1
  <2> QED
    BY <1>1, <2>1, <2>2
<1>7. ASSUME GoesPast(t, "lock") PROVE Goes(t, "frames")
  <2>1. PICK n \in 1..8 : Stages[n] = "lock" /\ Goes(t, Stages[n + 1])
    BY <1>3, <1>7
  <2>2. n = 4
    BY <1>1, <1>2, <2>1
  <2> QED
    BY <1>1, <2>1, <2>2
<1>8. ASSUME GoesPast(t, "frames") PROVE Goes(t, "unlock")
  <2>1. PICK n \in 1..8 : Stages[n] = "frames" /\ Goes(t, Stages[n + 1])
    BY <1>3, <1>8
  <2>2. n = 5
    BY <1>1, <1>2, <2>1
  <2> QED
    BY <1>1, <2>1, <2>2
<1>9. ASSUME GoesPast(t, "unlock") PROVE Goes(t, "default")
  <2>1. PICK n \in 1..8 : Stages[n] = "unlock" /\ Goes(t, Stages[n + 1])
    BY <1>3, <1>9
  <2>2. n = 6
    BY <1>1, <1>2, <2>1
  <2> QED
    BY <1>1, <2>1, <2>2
<1>10. ASSUME GoesPast(t, "default") PROVE Goes(t, "raise")
  <2>1. PICK n \in 1..8 : Stages[n] = "default" /\ Goes(t, Stages[n + 1])
    BY <1>3, <1>10
  <2>2. n = 7
    BY <1>1, <1>2, <2>1
  <2> QED
    BY <1>1, <2>1, <2>2
<1>11. ASSUME GoesPast(t, "raise") PROVE Goes(t, "return")
  <2>1. PICK n \in 1..8 : Stages[n] = "raise" /\ Goes(t, Stages[n + 1])
    BY <1>3, <1>11
  <2>2. n = 8
    BY <1>1, <1>2, <2>1
  <2> QED
    BY <1>1, <2>1, <2>2
<1> QED
  BY <1>4, <1>5, <1>6, <1>7, <1>8, <1>9, <1>10, <1>11

(* A handler of t at a stage goes on to another. *)
LEMMA RunMoves ==
  ASSUME TypeOK, NEW t \in Threads, NEW to \in StageNames, stack[t] # <<>>, Goes(t, to)
  PROVE  /\ stack' \in [Threads -> Seq(Run)]
         /\ \A u \in Threads \ {t} : stack'[u] = stack[u]
         /\ Len(stack'[t]) = Len(stack[t]) /\ Len(stack[t]) \in Nat \ {0}
         /\ \A i \in 1..Len(stack[t]) :
              stack'[t][i] = IF i = Len(stack[t]) THEN [stack[t][i] EXCEPT !.at = to] ELSE stack[t][i]
<1> DEFINE n == Len(stack[t])
<1>1. stack[t] \in Seq(Run) /\ n \in Nat \ {0} /\ stack[t][n] \in Run
  BY DEF TypeOK
<1> DEFINE new == [stack[t] EXCEPT ![n] = [stack[t][n] EXCEPT !.at = to]]
<1>2. stack' = [stack EXCEPT ![t] = new]
  BY DEF Goes
<1>3. [stack[t][n] EXCEPT !.at = to] \in Run
  BY <1>1, RunIs
<1>4. new \in Seq(Run) /\ Len(new) = n
  BY <1>1, <1>3
<1>5. \A i \in 1..n : new[i] = IF i = n THEN [stack[t][i] EXCEPT !.at = to] ELSE stack[t][i]
  BY <1>1
<1> HIDE DEF new
<1>6. stack'[t] = new /\ \A u \in Threads \ {t} : stack'[u] = stack[u]
  BY <1>2 DEF TypeOK
<1>7. stack' \in [Threads -> Seq(Run)]
  BY <1>2, <1>4 DEF TypeOK
<1> QED
  BY <1>1, <1>4, <1>5, <1>6, <1>7

LEMMA InitTypes == Init => TypeOK
<1> SUFFICES ASSUME Init PROVE TypeOK
  OBVIOUS
<1>1. /\ stack \in [Threads -> Seq(Run)] /\ signals \in [Procs -> Nat]
      /\ trace \in Seq([thread : Threads, signal : Signals, frame : 1..Frames])
  BY DEF Init
<1> QED
  BY <1>1 DEF Init, TypeOK

LEMMA EndTypes ==
  ASSUME TypeOK, NEW p \in Procs, NEW how \in {"crashed", "killed"}, End(p, how)
  PROVE  /\ state' \in [Procs -> {"running", "stopped", "crashed", "killed"}]
         /\ stack' \in [Threads -> Seq(Run)] /\ lock' \in Procs \cup {Nobody}
         /\ UNCHANGED <<release, handled, maps, trace>>
BY DEF End, TypeOK

LEMMA SignalTypes ==
  ASSUME TypeOK, NEW t \in Threads, NEW s \in Signals, Signal(t, s) \/ SignalEnds(t, s)
  PROVE  TypeOK'
<1>1. ProcessOf[t] \in Procs /\ signals[ProcessOf[t]] \in Nat
  BY CrashHandlerAssumption DEF TypeOK
<1>2. CASE Signal(t, s)
  <2> DEFINE r == [signal |-> s, at |-> Head(Stages), frame |-> 1]
  <2>1. r \in Run
    BY RunIs, CrashHandlerAssumption DEF StageNames
  <2>2. stack' = [stack EXCEPT ![t] = Append(@, r)]
    BY <1>2 DEF Signal
  <2> HIDE DEF r
  <2>3. stack[t] \in Seq(Run) /\ Append(stack[t], r) \in Seq(Run)
    BY <2>1 DEF TypeOK
  <2>4. stack' \in [Threads -> Seq(Run)]
    BY <2>2, <2>3 DEF TypeOK
  <2>5. /\ signals' \in [Procs -> Nat] /\ doubled' \subseteq Procs
        /\ UNCHANGED <<release, state, handled, files, skipped>>
    BY <1>1, <1>2 DEF Signal, TypeOK
  <2> QED
    BY <2>4, <2>5 DEF TypeOK, files
<1>3. CASE SignalEnds(t, s)
  <2>1. signals' \in [Procs -> Nat] /\ UNCHANGED <<doubled, skipped>>
    BY <1>1, <1>3 DEF SignalEnds, TypeOK
  <2>2. End(ProcessOf[t], "crashed")
    BY <1>3 DEF SignalEnds
  <2> QED
    BY <1>1, <2>1, <2>2, EndTypes DEF TypeOK
<1> QED
  BY <1>2, <1>3

(* A handler that is at a stage. *)
LEMMA AtIs ==
  ASSUME TypeOK, NEW t \in Threads, NEW stage, At(t, stage)
  PROVE  /\ stack[t] # <<>> /\ stack[t] \in Seq(Run) /\ Len(stack[t]) \in Nat \ {0}
         /\ Last(stack[t]) = stack[t][Len(stack[t])] /\ Last(stack[t]) \in Run
         /\ Last(stack[t]).at = stage /\ state[ProcessOf[t]] = "running"
         /\ ProcessOf[t] \in Procs
<1>1. stack[t] \in Seq(Run) /\ stack[t] # <<>> /\ Last(stack[t]).at = stage
      /\ state[ProcessOf[t]] = "running" /\ ProcessOf[t] \in Procs
  BY CrashHandlerAssumption DEF TypeOK, At
<1>2. Last(stack[t]) = stack[t][Len(stack[t])]
  BY DEF Last
<1> QED
  BY <1>1, <1>2

LEMMA FrameWritten ==
  ASSUME TypeOK, NEW t \in Threads, WriteFrame(t)
  PROVE  LET r == Last(stack[t])
             line == [thread |-> t, signal |-> r.signal, frame |-> r.frame]
         IN  /\ line \in Line /\ trace \in Seq(Line) /\ trace' = Append(trace, line)
             /\ trace' \in Seq(Line)
             /\ \/ r.frame < Frames /\ stack' = [stack EXCEPT ![t][Len(stack[t])].frame = @ + 1]
                \/ r.frame = Frames /\ Goes(t, "unlock")
<1> DEFINE r == Last(stack[t])
<1> DEFINE line == [thread |-> t, signal |-> r.signal, frame |-> r.frame]
<1>1. r \in Run /\ Frames \in Nat
  BY AtIs, CrashHandlerAssumption DEF WriteFrame
<1>2. line \in Line /\ trace \in Seq(Line)
  BY <1>1, RunIs DEF Line, TypeOK
<1>3. trace' = Append(trace, line)
  BY DEF WriteFrame
<1>4. r.frame \in 1..Frames
  BY <1>1, RunIs
<1>5. \/ r.frame < Frames /\ stack' = [stack EXCEPT ![t][Len(stack[t])].frame = @ + 1]
      \/ ~(r.frame < Frames) /\ GoesPast(t, "frames")
  BY DEF WriteFrame
<1> HIDE DEF r
<1>6. ~(r.frame < Frames) => r.frame = Frames
  BY <1>1, <1>4
<1> HIDE DEF line
<1>7. trace' \in Seq(Line)
  BY <1>2, <1>3
<1> QED
  BY <1>2, <1>3, <1>5, <1>6, <1>7, Follows DEF r, line

(* The handler goes on to the next frame. *)
LEMMA FrameMoves ==
  ASSUME TypeOK, NEW t \in Threads, stack[t] # <<>>, Last(stack[t]).frame < Frames,
         stack' = [stack EXCEPT ![t][Len(stack[t])].frame = @ + 1]
  PROVE  /\ stack' \in [Threads -> Seq(Run)]
         /\ \A u \in Threads \ {t} : stack'[u] = stack[u]
         /\ Len(stack'[t]) = Len(stack[t]) /\ Len(stack[t]) \in Nat \ {0}
         /\ \A i \in 1..Len(stack[t]) :
              stack'[t][i] = IF i = Len(stack[t]) THEN [stack[t][i] EXCEPT !.frame = @ + 1]
                                                  ELSE stack[t][i]
<1> DEFINE n == Len(stack[t])
<1>1. stack[t] \in Seq(Run) /\ n \in Nat \ {0} /\ stack[t][n] \in Run
  BY DEF TypeOK
<1> DEFINE new == [stack[t] EXCEPT ![n] = [stack[t][n] EXCEPT !.frame = @ + 1]]
<1>2. stack' = [stack EXCEPT ![t] = new]
  OBVIOUS
<1>3. [stack[t][n] EXCEPT !.frame = @ + 1] \in Run
  <2>1. stack[t][n].frame \in 1..Frames /\ stack[t][n].frame < Frames /\ Frames \in Nat
    BY <1>1, RunIs, CrashHandlerAssumption DEF Last
  <2>2. stack[t][n].frame + 1 \in 1..Frames
    BY <2>1
  <2> QED
    BY <1>1, <2>2, RunIs
<1>4. new \in Seq(Run) /\ Len(new) = n
  BY <1>1, <1>3
<1>5. \A i \in 1..n : new[i] = IF i = n THEN [stack[t][i] EXCEPT !.frame = @ + 1] ELSE stack[t][i]
  BY <1>1
<1> HIDE DEF new
<1>6. stack'[t] = new /\ \A u \in Threads \ {t} : stack'[u] = stack[u]
  BY <1>2 DEF TypeOK
<1>7. stack' \in [Threads -> Seq(Run)]
  BY <1>2, <1>4 DEF TypeOK
<1> QED
  BY <1>1, <1>4, <1>5, <1>6, <1>7

(* The stages of a handler that take it to the next and leave the trace.   *)
Passes(t, to) ==
  /\ stack[t] # <<>> /\ Goes(t, to)
  /\ state' \in {state, [state EXCEPT ![ProcessOf[t]] = "stopped"]}
  /\ UNCHANGED <<release, trace, signals, doubled>>

LEMMA Passing ==
  ASSUME TypeOK, NEW t \in Threads
  PROVE  /\ CreateMaps(t) => Passes(t, "copy") \/ Passes(t, "open")
         /\ CopyMaps(t) => Passes(t, "open")
         /\ OpenTrace(t) => Passes(t, "lock")
         /\ SkipTrace(t) => Passes(t, "default")
         /\ LockTrace(t) => Passes(t, "frames")
         /\ UnlockTrace(t) => Passes(t, "default")
         /\ RestoreDefault(t) => Passes(t, "raise")
         /\ RaiseStop(t) => Passes(t, "return")
<1> USE Follows DEF Passes, At, history, files
<1>1. CreateMaps(t) => Passes(t, "copy") \/ Passes(t, "open")
  BY DEF CreateMaps
<1>2. CopyMaps(t) => Passes(t, "open")
  BY DEF CopyMaps
<1>3. OpenTrace(t) => Passes(t, "lock")
  BY DEF OpenTrace
<1>4. SkipTrace(t) => Passes(t, "default")
  BY DEF SkipTrace
<1>5. LockTrace(t) => Passes(t, "frames")
  BY DEF LockTrace
<1>6. UnlockTrace(t) => Passes(t, "default")
  BY DEF UnlockTrace
<1>7. RestoreDefault(t) => Passes(t, "raise")
  BY DEF RestoreDefault
<1>8. RaiseStop(t) => Passes(t, "return")
  BY DEF RaiseStop
<1> QED
  BY <1>1, <1>2, <1>3, <1>4, <1>5, <1>6, <1>7, <1>8

LEMMA HandlerTypes ==
  ASSUME TypeOK, NEW t \in Threads, ProcessCrashSig(t)
  PROVE  TypeOK'
<1>0. ProcessOf[t] \in Procs
  BY CrashHandlerAssumption
<1>1. ASSUME NEW to \in StageNames, Passes(t, to),
             lock' \in Procs \cup {Nobody}, maps' \in {"absent", "partial", "whole"},
             handled' \in [Procs -> SUBSET Signals], skipped' \subseteq Procs
      PROVE  TypeOK'
  <2>1. stack' \in [Threads -> Seq(Run)]
    BY <1>1, RunMoves DEF Passes
  <2>2. state' \in [Procs -> {"running", "stopped", "crashed", "killed"}]
    BY <1>0, <1>1 DEF Passes, TypeOK
  <2> QED
    BY <1>1, <2>1, <2>2 DEF Passes, TypeOK
<1>2. {"copy", "open", "lock", "frames", "unlock", "default", "raise", "return"} \subseteq StageNames
  BY DEF StageNames
<1>3. CASE CreateMaps(t) \/ CopyMaps(t) \/ OpenTrace(t)
  BY <1>1, <1>2, <1>3, Passing DEF CreateMaps, CopyMaps, OpenTrace, TypeOK, files, history
<1>4. CASE SkipTrace(t)
  BY <1>0, <1>1, <1>2, <1>4, Passing DEF SkipTrace, TypeOK, files
<1>5. CASE LockTrace(t) \/ UnlockTrace(t)
  BY <1>0, <1>1, <1>2, <1>5, Passing DEF LockTrace, UnlockTrace, DropLock, TypeOK, history
<1>6. CASE RestoreDefault(t)
  <2>1. handled' \in [Procs -> SUBSET Signals]
    BY <1>0, <1>6 DEF RestoreDefault, TypeOK
  <2> QED
    BY <1>1, <1>2, <1>6, <2>1, Passing DEF RestoreDefault, TypeOK, files, history
<1>7. CASE RaiseStop(t)
  BY <1>1, <1>2, <1>7, Passing DEF RaiseStop, TypeOK, files, history
<1>8. CASE WriteFrame(t)
  <2>1. trace' \in Seq(Line) /\ stack' \in [Threads -> Seq(Run)]
    BY <1>2, <1>8, FrameWritten, FrameMoves, RunMoves, AtIs DEF WriteFrame
  <2> QED
    BY <1>8, <2>1 DEF WriteFrame, TypeOK, Line, history
<1>9. CASE RaiseSignal(t) \/ ReturnToFault(t)
  <2>1. End(ProcessOf[t], "crashed") /\ UNCHANGED history
    BY <1>9 DEF RaiseSignal, ReturnToFault
  <2> QED
    BY <1>0, <2>1, EndTypes DEF TypeOK, history
<1>10. CASE Return(t)
  <2>1. stack[t] \in Seq(Run) /\ stack[t] # <<>>
    BY <1>10 DEF Return, At, TypeOK
  <2>2. Front(stack[t]) \in Seq(Run)
    BY <2>1 DEF Front
  <2>3. stack' \in [Threads -> Seq(Run)]
    BY <1>10, <2>2 DEF Return, TypeOK
  <2> QED
    BY <1>10, <2>3 DEF Return, TypeOK, files, history
<1> QED
  BY <1>3, <1>4, <1>5, <1>6, <1>7, <1>8, <1>9, <1>10 DEF ProcessCrashSig

LEMMA StepTypes == TypeOK /\ [Next]_vars => TypeOK'
<1> SUFFICES ASSUME TypeOK, [Next]_vars PROVE TypeOK'
  OBVIOUS
<1>1. ASSUME NEW p \in Procs, Kill(p) PROVE TypeOK'
  <2>1. End(p, "killed") /\ UNCHANGED history
    BY <1>1 DEF Kill
  <2> QED
    BY <2>1, EndTypes DEF TypeOK, history
<1>2. ASSUME NEW p \in Procs, Continue(p) PROVE TypeOK'
  BY <1>2 DEF Continue, TypeOK, files, history
<1>3. CASE UNCHANGED vars
  BY <1>3 DEF vars, TypeOK, files, history
<1> QED
  BY <1>1, <1>2, <1>3, HandlerTypes, SignalTypes DEF Next

(* Every step gives the files, stacks and histories values of their kinds. *)
THEOREM HandlerState == Spec => []TypeOK
BY InitTypes, StepTypes, PTL DEF Spec

-----------------------------------------------------------------------------
(* The traces of the dead.  A handler that is past its frames has written  *)
(* them all, and one that is writing those before its next; and whoever    *)
(* restores the default action or raises the signal is past them.          *)
Past == {"unlock", "default", "raise", "return"}

Left(p, lines) ==
  \E t \in Threads, s \in Signals :
    /\ ProcessOf[t] = p
    /\ \A n \in 1..Frames : Contains(lines, [thread |-> t, signal |-> s, frame |-> n])

Documented(p, lines, without) == p \in without \/ Left(p, lines)

Progress(t, r, lines, without) ==
  /\ r.at \in {"maps", "copy", "open", "lock"} => r.frame = 1
  /\ r.at = "frames" =>
       \A n \in 1..Frames :
         n < r.frame => Contains(lines, [thread |-> t, signal |-> r.signal, frame |-> n])
  /\ r.at \in Past => Documented(ProcessOf[t], lines, without)

Runs == \A t \in Threads : \A i \in 1..Len(stack[t]) : Progress(t, stack[t][i], trace, skipped)

Ends ==
  \A p \in Procs : (state[p] = "crashed" \/ handled[p] # Signals) => Documented(p, trace, skipped)

(* Nothing is taken out of the trace. *)
Grows ==
  /\ \A x : Contains(trace, x) => Contains(trace', x)
  /\ skipped \subseteq skipped'

LEMMA GrowthKeeps ==
  ASSUME Grows
  PROVE  /\ \A p : Documented(p, trace, skipped) => Documented(p, trace', skipped')
         /\ \A t, r : Progress(t, r, trace, skipped) => Progress(t, r, trace', skipped')
<1>1. \A p : Documented(p, trace, skipped) => Documented(p, trace', skipped')
  BY DEF Grows, Documented, Left
<1>2. ASSUME NEW t, NEW r, Progress(t, r, trace, skipped)
      PROVE  Progress(t, r, trace', skipped')
  BY <1>1, <1>2 DEF Grows, Progress
<1> QED
  BY <1>1, <1>2

LEMMA Growth ==
  ASSUME TypeOK, [Next]_vars
  PROVE  Grows
<1>1. ASSUME UNCHANGED trace PROVE \A x : Contains(trace, x) => Contains(trace', x)
  BY <1>1
<1>2. ASSUME NEW t \in Threads, WriteFrame(t)
      PROVE  /\ \A x : Contains(trace, x) => Contains(trace', x)
             /\ skipped \subseteq skipped'
  <2>1. PICK line \in Line : trace' = Append(trace, line) /\ trace \in Seq(Line)
    BY <1>2, FrameWritten
  <2>2. Len(trace') = Len(trace) + 1 /\ Len(trace) \in Nat
        /\ \A i \in 1..Len(trace) : trace'[i] = trace[i]
    BY <2>1
  <2>3. \A i \in 1..Len(trace) : i \in 1..Len(trace')
    BY <2>2
  <2> QED
    BY <1>2, <2>2, <2>3 DEF Contains, WriteFrame, history
<1>3. (UNCHANGED trace /\ skipped \subseteq skipped') \/ \E t \in Threads : WriteFrame(t)
  <2>1. ASSUME NEW p \in Procs, Kill(p) \/ Continue(p) PROVE UNCHANGED trace /\ skipped \subseteq skipped'
    BY <2>1 DEF Kill, Continue, End, files, history
  <2>2. ASSUME NEW t \in Threads, NEW s \in Signals, Signal(t, s) \/ SignalEnds(t, s)
        PROVE  UNCHANGED trace /\ skipped \subseteq skipped'
    BY <2>2 DEF Signal, SignalEnds, End, files
  <2>3. ASSUME NEW t \in Threads, ProcessCrashSig(t), ~WriteFrame(t)
        PROVE  UNCHANGED trace /\ skipped \subseteq skipped'
    BY <2>3 DEF ProcessCrashSig, CreateMaps, CopyMaps, OpenTrace, SkipTrace, LockTrace, UnlockTrace,
       RestoreDefault, RaiseSignal, RaiseStop, Return, ReturnToFault, End, files, history
  <2>4. CASE UNCHANGED vars
    BY <2>4 DEF vars, files, history
  <2> QED
    BY <2>1, <2>2, <2>3, <2>4 DEF Next
<1> QED
  BY <1>1, <1>2, <1>3 DEF Grows

(* A step that moves one handler and keeps its progress.                   *)
LEMMA MoveKeepsRuns ==
  ASSUME TypeOK, Grows, Runs, NEW t \in Threads, stack[t] # <<>>, NEW r,
         \A u \in Threads \ {t} : stack'[u] = stack[u],
         Len(stack'[t]) = Len(stack[t]), Len(stack[t]) \in Nat \ {0},
         \A i \in 1..Len(stack[t]) : stack'[t][i] = IF i = Len(stack[t]) THEN r ELSE stack[t][i],
         Progress(t, r, trace', skipped')
  PROVE  Runs'
<1> SUFFICES ASSUME NEW u \in Threads, NEW i \in 1..Len(stack'[u])
             PROVE  Progress(u, stack'[u][i], trace', skipped')
  BY DEF Runs
<1>1. CASE u # t
  BY <1>1, GrowthKeeps DEF Runs
<1>2. CASE u = t /\ i # Len(stack[t])
  BY <1>2, GrowthKeeps DEF Runs
<1>3. CASE u = t /\ i = Len(stack[t])
  BY <1>3
<1> QED
  BY <1>1, <1>2, <1>3

(* A process that ends leaves the handlers of others as they are.          *)
LEMMA EndKeepsRuns ==
  ASSUME TypeOK, Grows, Runs, NEW p \in Procs, NEW how, End(p, how)
  PROVE  Runs'
<1> SUFFICES ASSUME NEW u \in Threads, NEW i \in 1..Len(stack'[u])
             PROVE  Progress(u, stack'[u][i], trace', skipped')
  BY DEF Runs
<1>1. stack'[u] = IF ProcessOf[u] = p THEN <<>> ELSE stack[u]
  BY DEF End
<1>2. ProcessOf[u] # p /\ stack'[u] = stack[u]
  BY <1>1
<1> QED
  BY <1>2, GrowthKeeps DEF Runs

(* The progress of the innermost handler of a thread. *)
LEMMA Innermost ==
  ASSUME TypeOK, Runs, NEW t \in Threads, NEW stage, At(t, stage)
  PROVE  Last(stack[t]).at = stage /\ Progress(t, Last(stack[t]), trace, skipped)
BY AtIs DEF Runs

LEMMA PassKeepsRuns ==
  ASSUME TypeOK, Grows, Runs, NEW t \in Threads, NEW to \in StageNames, Passes(t, to),
         Progress(t, [Last(stack[t]) EXCEPT !.at = to], trace', skipped')
  PROVE  Runs'
<1> DEFINE r == [Last(stack[t]) EXCEPT !.at = to]
<1>1. /\ \A u \in Threads \ {t} : stack'[u] = stack[u]
      /\ Len(stack'[t]) = Len(stack[t]) /\ Len(stack[t]) \in Nat \ {0}
      /\ \A i \in 1..Len(stack[t]) :
           stack'[t][i] = IF i = Len(stack[t]) THEN [stack[t][i] EXCEPT !.at = to] ELSE stack[t][i]
  BY RunMoves DEF Passes
<1>2. \A i \in 1..Len(stack[t]) : stack'[t][i] = IF i = Len(stack[t]) THEN r ELSE stack[t][i]
  BY <1>1 DEF Last
<1>3. stack[t] # <<>>
  BY DEF Passes
<1> HIDE DEF r
<1> QED
  BY <1>1, <1>2, <1>3, MoveKeepsRuns DEF r

LEMMA HandlerKeepsRuns ==
  ASSUME TypeOK, Grows, Runs, NEW t \in Threads, ProcessCrashSig(t)
  PROVE  Runs'
<1> DEFINE r == Last(stack[t])
<1>0. ProcessOf[t] \in Procs
  BY CrashHandlerAssumption
<1>1. ASSUME NEW to \in {"copy", "open", "lock"}, NEW from \in {"maps", "copy", "open"},
             Passes(t, to), At(t, from)
      PROVE  Runs'
  <2>1. r \in Run /\ r.at = from /\ Progress(t, r, trace, skipped)
    BY <1>1, Innermost, AtIs
  <2> HIDE DEF r
  <2>2. [r EXCEPT !.at = to].at = to /\ [r EXCEPT !.at = to].frame = 1
    BY <2>1, RunIs DEF Progress
  <2>3. Progress(t, [r EXCEPT !.at = to], trace', skipped')
    BY <2>2 DEF Progress, Past
  <2> QED
    BY <1>1, <2>3, PassKeepsRuns DEF StageNames, r
<1>2. CASE CreateMaps(t) \/ CopyMaps(t) \/ OpenTrace(t)
  BY <1>1, <1>2, Passing DEF CreateMaps, CopyMaps, OpenTrace
<1>3. CASE LockTrace(t)
  <2>1. r \in Run /\ r.at = "lock" /\ Progress(t, r, trace, skipped)
    BY <1>3, Innermost, AtIs DEF LockTrace
  <2> HIDE DEF r
  <2>2. [r EXCEPT !.at = "frames"].at = "frames" /\ [r EXCEPT !.at = "frames"].frame = 1
    BY <2>1, RunIs DEF Progress
  <2>3. \A n \in 1..Frames : ~(n < 1)
    OBVIOUS
  <2>4. Progress(t, [r EXCEPT !.at = "frames"], trace', skipped')
    BY <2>2, <2>3 DEF Progress, Past
  <2> QED
    BY <1>3, <2>4, PassKeepsRuns, Passing DEF StageNames, r
<1>4. ASSUME NEW to \in Past, Passes(t, to), Documented(ProcessOf[t], trace', skipped') PROVE Runs'
  <2>1. r \in Run
    BY <1>4, RunMoves DEF Passes, TypeOK, Last
  <2> HIDE DEF r
  <2>2. [r EXCEPT !.at = to].at = to
    BY <2>1, RunIs
  <2>3. Progress(t, [r EXCEPT !.at = to], trace', skipped')
    BY <1>4, <2>2 DEF Progress, Past
  <2> QED
    BY <1>4, <2>3, PassKeepsRuns DEF StageNames, Past, r
<1>5. CASE SkipTrace(t)
  BY <1>4, <1>5, Passing DEF SkipTrace, Documented, Past
<1>6. ASSUME NEW from \in Past, At(t, from) PROVE Documented(ProcessOf[t], trace', skipped')
  BY <1>6, Innermost, GrowthKeeps DEF Progress
<1>7. CASE UnlockTrace(t) \/ RestoreDefault(t) \/ RaiseStop(t)
  BY <1>4, <1>6, <1>7, Passing DEF UnlockTrace, RestoreDefault, RaiseStop, Past
<1>8. CASE RaiseSignal(t) \/ ReturnToFault(t)
  BY <1>0, <1>8, EndKeepsRuns DEF RaiseSignal, ReturnToFault
<1>9. CASE Return(t)
  <2>1. stack[t] \in Seq(Run) /\ stack[t] # <<>> /\ stack' = [stack EXCEPT ![t] = Front(@)]
    BY <1>9, AtIs DEF Return
  <2>2. /\ \A u \in Threads \ {t} : stack'[u] = stack[u]
        /\ stack'[t] = SubSeq(stack[t], 1, Len(stack[t]) - 1)
    BY <2>1 DEF TypeOK, Front
  <2>3. Len(stack'[t]) = Len(stack[t]) - 1 /\ Len(stack[t]) \in Nat
        /\ \A i \in 1..(Len(stack[t]) - 1) : stack'[t][i] = stack[t][i]
    BY <2>1, <2>2
  <2> SUFFICES ASSUME NEW u \in Threads, NEW i \in 1..Len(stack'[u])
               PROVE  Progress(u, stack'[u][i], trace', skipped')
    BY DEF Runs
  <2>4. i \in 1..Len(stack[u]) /\ stack'[u][i] = stack[u][i]
    BY <2>2, <2>3
  <2> QED
    BY <2>4, GrowthKeeps DEF Runs
<1>10. CASE WriteFrame(t)
  <2> DEFINE line == [thread |-> t, signal |-> r.signal, frame |-> r.frame]
  <2>1. r \in Run /\ r.at = "frames" /\ Progress(t, r, trace, skipped) /\ stack[t] # <<>>
    BY <1>10, Innermost, AtIs DEF WriteFrame
  <2>2. /\ trace \in Seq(Line) /\ line \in Line /\ trace' = Append(trace, line)
        /\ \/ r.frame < Frames /\ stack' = [stack EXCEPT ![t][Len(stack[t])].frame = @ + 1]
           \/ r.frame = Frames /\ Goes(t, "unlock")
    BY <1>10, FrameWritten
  <2>3. r.frame \in 1..Frames /\ Frames \in Nat
    BY <2>1, RunIs, CrashHandlerAssumption
  <2>4. \A n \in 1..Frames :
          n <= r.frame => Contains(trace', [thread |-> t, signal |-> r.signal, frame |-> n])
    <3>1. Contains(trace', line)
      <4> HIDE DEF line
      <4>1. Len(trace') = Len(trace) + 1 /\ Len(trace) \in Nat /\ trace'[Len(trace) + 1] = line
        BY <2>2
      <4> QED
        BY <4>1 DEF Contains
    <3> TAKE n \in 1..Frames
    <3>2. CASE n = r.frame
      BY <3>1, <3>2
    <3>3. CASE n < r.frame
      BY <2>1, <3>3 DEF Progress, Grows
    <3> QED
      BY <2>3, <3>2, <3>3
  <2> HIDE DEF line
  <2>5. CASE r.frame < Frames /\ stack' = [stack EXCEPT ![t][Len(stack[t])].frame = @ + 1]
    <3> DEFINE q == [r EXCEPT !.frame = @ + 1]
    <3>1. /\ \A u \in Threads \ {t} : stack'[u] = stack[u]
          /\ Len(stack'[t]) = Len(stack[t]) /\ Len(stack[t]) \in Nat \ {0}
          /\ \A i \in 1..Len(stack[t]) :
               stack'[t][i] = IF i = Len(stack[t]) THEN [stack[t][i] EXCEPT !.frame = @ + 1]
                                                   ELSE stack[t][i]
      BY <2>1, <2>5, FrameMoves
    <3>2. \A i \in 1..Len(stack[t]) : stack'[t][i] = IF i = Len(stack[t]) THEN q ELSE stack[t][i]
      BY <3>1 DEF Last
    <3>3. q.at = "frames" /\ q.signal = r.signal /\ q.frame = r.frame + 1
      <4> HIDE DEF r
      <4> QED
        BY <2>1, RunIs
    <3> HIDE DEF q, r
    <3>4. \A n \in 1..Frames : n < q.frame => n <= r.frame
      BY <2>3, <3>3
    <3>5. Progress(t, q, trace', skipped')
      BY <2>4, <3>3, <3>4 DEF Progress, Past
    <3> QED
      BY <2>1, <3>1, <3>2, <3>5, MoveKeepsRuns
  <2>6. CASE r.frame = Frames /\ Goes(t, "unlock")
    <3>1. \A n \in 1..Frames : Contains(trace', [thread |-> t, signal |-> r.signal, frame |-> n])
      BY <2>3, <2>4, <2>6
    <3>2. r.signal \in Signals
      BY <2>1, RunIs
    <3> HIDE DEF r
    <3>3. Documented(ProcessOf[t], trace', skipped')
      BY <3>1, <3>2 DEF Documented, Left
    <3>4. [r EXCEPT !.at = "unlock"].at = "unlock"
      BY <2>1, RunIs
    <3>5. Progress(t, [r EXCEPT !.at = "unlock"], trace', skipped')
      BY <3>3, <3>4 DEF Progress
    <3>6. /\ \A u \in Threads \ {t} : stack'[u] = stack[u]
          /\ Len(stack'[t]) = Len(stack[t]) /\ Len(stack[t]) \in Nat \ {0}
          /\ \A i \in 1..Len(stack[t]) :
               stack'[t][i] = IF i = Len(stack[t]) THEN [stack[t][i] EXCEPT !.at = "unlock"]
                                                   ELSE stack[t][i]
      BY <2>1, <2>6, RunMoves DEF StageNames
    <3> DEFINE q == [r EXCEPT !.at = "unlock"]
    <3>7. \A i \in 1..Len(stack[t]) : stack'[t][i] = IF i = Len(stack[t]) THEN q ELSE stack[t][i]
      BY <3>6 DEF Last, r
    <3> HIDE DEF q
    <3> QED
      BY <2>1, <3>5, <3>6, <3>7, MoveKeepsRuns DEF q
  <2> QED
    BY <2>2, <2>5, <2>6
<1> QED
  BY <1>2, <1>3, <1>5, <1>7, <1>8, <1>9, <1>10 DEF ProcessCrashSig

LEMMA SignalKeepsRuns ==
  ASSUME TypeOK, Grows, Runs, NEW t \in Threads, NEW s \in Signals, Signal(t, s) \/ SignalEnds(t, s)
  PROVE  Runs'
<1>1. CASE SignalEnds(t, s)
  BY <1>1, EndKeepsRuns, CrashHandlerAssumption DEF SignalEnds
<1>2. CASE Signal(t, s)
  <2> DEFINE r == [signal |-> s, at |-> "maps", frame |-> 1]
  <2>1. stack' = [stack EXCEPT ![t] = Append(@, r)] /\ stack[t] \in Seq(Run)
    BY <1>2, RunIs DEF Signal, TypeOK
  <2>2. Progress(t, r, trace', skipped')
    BY DEF Progress, Past
  <2> HIDE DEF r
  <2>3. /\ \A u \in Threads \ {t} : stack'[u] = stack[u]
        /\ stack'[t] = Append(stack[t], r)
    BY <2>1 DEF TypeOK
  <2>4. /\ Len(stack'[t]) = Len(stack[t]) + 1 /\ Len(stack[t]) \in Nat
        /\ stack'[t][Len(stack[t]) + 1] = r
        /\ \A i \in 1..Len(stack[t]) : stack'[t][i] = stack[t][i]
    BY <2>1, <2>3
  <2> SUFFICES ASSUME NEW u \in Threads, NEW i \in 1..Len(stack'[u])
               PROVE  Progress(u, stack'[u][i], trace', skipped')
    BY DEF Runs
  <2>5. CASE u = t /\ i = Len(stack[t]) + 1
    BY <2>2, <2>4, <2>5
  <2>6. CASE ~(u = t /\ i = Len(stack[t]) + 1)
    <3>1. i \in 1..Len(stack[u]) /\ stack'[u][i] = stack[u][i]
      BY <2>3, <2>4, <2>6
    <3> QED
      BY <3>1, GrowthKeeps DEF Runs
  <2> QED
    BY <2>5, <2>6
<1> QED
  BY <1>1, <1>2

LEMMA RunsStep == TypeOK /\ Runs /\ [Next]_vars => Runs'
<1> SUFFICES ASSUME TypeOK, Runs, [Next]_vars PROVE Runs'
  OBVIOUS
<1>1. Grows
  BY Growth
<1>2. ASSUME NEW p \in Procs, Kill(p) PROVE Runs'
  BY <1>1, <1>2, EndKeepsRuns DEF Kill
<1>3. CASE UNCHANGED stack
  BY <1>1, <1>3, GrowthKeeps DEF Runs
<1>4. ASSUME NEW p \in Procs, Continue(p) PROVE Runs'
  BY <1>3, <1>4 DEF Continue
<1>5. CASE UNCHANGED vars
  BY <1>3, <1>5 DEF vars
<1> QED
  BY <1>1, <1>2, <1>4, <1>5, HandlerKeepsRuns, SignalKeepsRuns DEF Next

(* Who ends a process by a crash signal, or restores a default action.     *)
LEMMA EndsStep == TypeOK /\ Runs /\ Ends /\ [Next]_vars => Ends'
<1> SUFFICES ASSUME TypeOK, Runs, Ends, [Next]_vars, NEW p \in Procs,
                    state'[p] = "crashed" \/ handled'[p] # Signals
             PROVE  Documented(p, trace', skipped')
  BY DEF Ends
<1>1. Documented(p, trace, skipped) => Documented(p, trace', skipped')
  BY Growth, GrowthKeeps
<1>2. SUFFICES Documented(p, trace, skipped)
  BY <1>1
<1>3. CASE state[p] = "crashed" \/ handled[p] # Signals
  BY <1>3 DEF Ends
<1>4. ASSUME NEW t \in Threads, NEW from \in Past, At(t, from), ProcessOf[t] = p
      PROVE  Documented(p, trace, skipped)
  BY <1>4, Innermost DEF Progress
<1>5. CASE state[p] # "crashed" /\ handled[p] = Signals
  <2>1. ASSUME NEW how \in {"killed", "crashed"}, NEW q \in Procs, End(q, how)
        PROVE  handled'[p] = Signals /\ (state'[p] = "crashed" => p = q /\ how = "crashed")
    BY <1>5, <2>1 DEF End, TypeOK
  <2>2. ASSUME NEW q \in Procs, Kill(q) PROVE FALSE
    BY <2>1, <2>2 DEF Kill
  <2>3. ASSUME NEW q \in Procs, Continue(q) PROVE FALSE
    BY <1>5, <2>3 DEF Continue, TypeOK
  <2>4. ASSUME NEW t \in Threads, NEW s \in Signals, Signal(t, s) PROVE FALSE
    BY <1>5, <2>4 DEF Signal
  <2>5. ASSUME NEW t \in Threads, NEW s \in Signals, SignalEnds(t, s) PROVE FALSE
    <3>1. ProcessOf[t] = p
      BY <2>1, <2>5, CrashHandlerAssumption DEF SignalEnds
    <3> QED
      BY <1>5, <2>5, <3>1 DEF SignalEnds
  <2>6. ASSUME NEW t \in Threads, ProcessCrashSig(t) PROVE Documented(p, trace, skipped)
    <3>1. CASE CreateMaps(t) \/ CopyMaps(t) \/ OpenTrace(t) \/ SkipTrace(t) \/ LockTrace(t)
                 \/ WriteFrame(t) \/ UnlockTrace(t) \/ Return(t)
      BY <1>5, <3>1 DEF CreateMaps, CopyMaps, OpenTrace, SkipTrace, LockTrace, WriteFrame,
                        UnlockTrace, Return
    <3>2. CASE RaiseStop(t)
      BY <1>5, <3>2 DEF RaiseStop, TypeOK
    <3>3. CASE RestoreDefault(t)
      <4>1. ProcessOf[t] = p
        BY <1>5, <3>3 DEF RestoreDefault, TypeOK
      <4> QED
        BY <1>4, <3>3, <4>1 DEF RestoreDefault, Past
    <3>4. CASE RaiseSignal(t)
      <4>1. ProcessOf[t] = p
        BY <2>1, <3>4, CrashHandlerAssumption DEF RaiseSignal
      <4> QED
        BY <1>4, <3>4, <4>1 DEF RaiseSignal, Past
    <3>5. CASE ReturnToFault(t)
      <4>1. ProcessOf[t] = p
        BY <2>1, <3>5, CrashHandlerAssumption DEF ReturnToFault
      <4> QED
        BY <1>4, <3>5, <4>1 DEF ReturnToFault, Past
    <3> QED
      BY <2>6, <3>1, <3>2, <3>3, <3>4, <3>5 DEF ProcessCrashSig
  <2>7. CASE UNCHANGED vars
    BY <1>5, <2>7 DEF vars
  <2> QED
    BY <2>2, <2>3, <2>4, <2>5, <2>6, <2>7 DEF Next
<1> QED
  BY <1>3, <1>5

(* However the threads of a process and their handlers cut each other off, *)
(* a process that a crash signal has ended has left a whole stack trace,   *)
(* if its handlers were to write one and could.                            *)
THEOREM TheDeadLeaveTraces == Spec => []DeadLeftTrace
<1>1. Init => TypeOK /\ Runs /\ Ends
  BY InitTypes DEF Init, Runs, Ends
<1>2. TypeOK /\ Runs /\ Ends /\ [Next]_vars => (TypeOK /\ Runs /\ Ends)'
  BY StepTypes, RunsStep, EndsStep
<1>3. Ends => DeadLeftTrace
  BY DEF Ends, DeadLeftTrace, Documented, Left
<1> QED
  BY <1>1, <1>2, <1>3, PTL DEF Spec

-----------------------------------------------------------------------------
(* The frames of a trace stand together.  As long as no process is inside  *)
(* two handlers at once, the lock of a process is that of its handler: who *)
(* writes frames has it, and has written the last line.                    *)
Single ==
  /\ \A t \in Threads : Len(stack[t]) <= 1
  /\ \A t, u \in Threads :
       stack[t] # <<>> /\ stack[u] # <<>> /\ ProcessOf[t] = ProcessOf[u] => t = u

Holder ==
  \A t \in Threads :
    stack[t] # <<>> /\ stack[t][1].at \in {"frames", "unlock"} => lock = ProcessOf[t]

WroteLast ==
  \A t \in Threads :
    stack[t] # <<>> /\ stack[t][1].at = "frames" /\ stack[t][1].frame > 1 =>
      /\ trace # <<>>
      /\ trace[Len(trace)] =
           [thread |-> t, signal |-> stack[t][1].signal, frame |-> stack[t][1].frame - 1]

Together ==
  \A i \in DOMAIN trace :
    \/ trace[i].frame = 1
    \/ i > 1 /\ trace[i] = [trace[i - 1] EXCEPT !.frame = @ + 1]

InTurn == doubled = {} => Single /\ Holder /\ WroteLast /\ Together

(* The one handler of a thread. *)
LEMMA TheHandler ==
  ASSUME TypeOK, Single, NEW t \in Threads, stack[t] # <<>>
  PROVE  /\ stack[t] \in Seq(Run) /\ Len(stack[t]) = 1
         /\ Last(stack[t]) = stack[t][1] /\ stack[t][1] \in Run
<1>1. stack[t] \in Seq(Run) /\ Len(stack[t]) <= 1
  BY DEF TypeOK, Single
<1>2. Len(stack[t]) \in Nat /\ Len(stack[t]) # 0
  BY <1>1
<1>3. Len(stack[t]) = 1
  <2>1. \A n \in Nat : n # 0 /\ n <= 1 => n = 1
    OBVIOUS
  <2> QED
    BY <1>1, <1>2, <2>1, Zenon
<1> QED
  BY <1>1, <1>3 DEF Last

(* A step in which handlers only disappear, with the locks of their        *)
(* processes.                                                              *)
LEMMA FewerInTurn ==
  ASSUME Single, Holder, WroteLast, Together, trace' = trace,
         \A t \in Threads :
           \/ stack'[t] = <<>>
           \/ stack'[t] = stack[t] /\ (lock = ProcessOf[t] => lock' = ProcessOf[t])
  PROVE  (Single /\ Holder /\ WroteLast /\ Together)'
<1>1. Single'
  <2>1. Len(<<>>) <= 1
    OBVIOUS
  <2> QED
    BY <2>1 DEF Single
<1>2. Holder' /\ WroteLast' /\ Together'
  BY DEF Holder, WroteLast, Together
<1> QED
  BY <1>1, <1>2

LEMMA EndInTurn ==
  ASSUME TypeOK, Single, Holder, WroteLast, Together, NEW p \in Procs, NEW how, End(p, how)
  PROVE  (Single /\ Holder /\ WroteLast /\ Together)'
<1>1. \A t \in Threads :
        \/ stack'[t] = <<>>
        \/ stack'[t] = stack[t] /\ (lock = ProcessOf[t] => lock' = ProcessOf[t])
  BY DEF End
<1> QED
  BY <1>1, FewerInTurn DEF End

(* The handler of t moves on; it does not start or go on to write.         *)
LEMMA PassInTurn ==
  ASSUME TypeOK, Single, Holder, WroteLast, Together, NEW t \in Threads,
         NEW to \in StageNames, Passes(t, to),
         to = "frames" => stack[t][1].frame = 1,
         to \in {"frames", "unlock"} => lock' = ProcessOf[t],
         \A u \in Threads \ {t} :
           stack[u] # <<>> /\ lock = ProcessOf[u] => lock' = ProcessOf[u]
  PROVE  (Single /\ Holder /\ WroteLast /\ Together)'
<1>1. /\ stack[t] \in Seq(Run) /\ Len(stack[t]) = 1 /\ stack[t][1] \in Run /\ stack[t] # <<>>
  BY TheHandler DEF Passes
<1>2. /\ \A u \in Threads \ {t} : stack'[u] = stack[u]
      /\ Len(stack'[t]) = 1 /\ stack'[t][1] = [stack[t][1] EXCEPT !.at = to]
      /\ stack'[t] # <<>>
  <2>1. /\ stack' \in [Threads -> Seq(Run)]
        /\ \A u \in Threads \ {t} : stack'[u] = stack[u]
        /\ Len(stack'[t]) = Len(stack[t])
        /\ \A i \in 1..Len(stack[t]) :
             stack'[t][i] = IF i = Len(stack[t]) THEN [stack[t][i] EXCEPT !.at = to] ELSE stack[t][i]
    BY RunMoves DEF Passes
  <2>2. stack'[t][1] = [stack[t][1] EXCEPT !.at = to] /\ Len(stack'[t]) = 1
    BY <1>1, <2>1
  <2>3. stack'[t] # <<>>
    BY <2>2
  <2> QED
    BY <2>1, <2>2, <2>3
<1>3. stack'[t][1].at = to /\ stack'[t][1].frame = stack[t][1].frame
  BY <1>1, <1>2, RunIs
<1>4. trace' = trace
  BY DEF Passes
<1>5. Single'
  BY <1>1, <1>2 DEF Single
<1>6. Holder'
  <2> SUFFICES ASSUME NEW u \in Threads, stack'[u] # <<>>, stack'[u][1].at \in {"frames", "unlock"}
               PROVE  lock' = ProcessOf[u]
    BY DEF Holder
  <2> QED
    BY <1>2, <1>3 DEF Holder
<1>7. WroteLast'
  <2> SUFFICES ASSUME NEW u \in Threads, stack'[u] # <<>>, stack'[u][1].at = "frames",
                      stack'[u][1].frame > 1
               PROVE  /\ trace # <<>>
                      /\ trace[Len(trace)] = [thread |-> u, signal |-> stack'[u][1].signal,
                                              frame |-> stack'[u][1].frame - 1]
    BY <1>4 DEF WroteLast
  <2>1. u # t
    BY <1>3
  <2> QED
    BY <1>2, <2>1 DEF WroteLast
<1> QED
  BY <1>4, <1>5, <1>6, <1>7 DEF Together

(* The line that is appended follows the last one, or begins a stack.      *)
LEMMA FrameInTurn ==
  ASSUME TypeOK, Single, Holder, WroteLast, Together, NEW t \in Threads, WriteFrame(t)
  PROVE  (Single /\ Holder /\ WroteLast /\ Together)'
<1> DEFINE r == stack[t][1]
<1> DEFINE line == [thread |-> t, signal |-> r.signal, frame |-> r.frame]
<1>1. /\ stack[t] \in Seq(Run) /\ Len(stack[t]) = 1 /\ r \in Run /\ stack[t] # <<>>
      /\ Last(stack[t]) = r /\ r.at = "frames"
  <2>1. stack[t] # <<>> /\ Last(stack[t]).at = "frames"
    BY AtIs DEF WriteFrame
  <2> QED
    BY <2>1, TheHandler
<1>2. /\ line \in Line /\ trace \in Seq(Line) /\ trace' = Append(trace, line)
      /\ \/ r.frame < Frames /\ stack' = [stack EXCEPT ![t][Len(stack[t])].frame = @ + 1]
         \/ r.frame = Frames /\ Goes(t, "unlock")
  <2>1. LET q == Last(stack[t])
            l == [thread |-> t, signal |-> q.signal, frame |-> q.frame]
        IN  /\ l \in Line /\ trace \in Seq(Line) /\ trace' = Append(trace, l)
            /\ \/ q.frame < Frames /\ stack' = [stack EXCEPT ![t][Len(stack[t])].frame = @ + 1]
               \/ q.frame = Frames /\ Goes(t, "unlock")
    BY FrameWritten
  <2> QED
    BY <1>1, <2>1
<1>3. r.frame \in 1..Frames /\ Frames \in Nat
  BY <1>1, RunIs, CrashHandlerAssumption
<1>4. lock' = lock /\ lock = ProcessOf[t]
  BY <1>1 DEF WriteFrame, Holder
<1>5. /\ \A u \in Threads \ {t} : stack'[u] = stack[u]
      /\ Len(stack'[t]) = 1 /\ stack'[t] # <<>>
      /\ \/ stack'[t][1].at = "frames" /\ stack'[t][1].signal = r.signal
            /\ stack'[t][1].frame = r.frame + 1
         \/ stack'[t][1].at = "unlock"
  <2>1. CASE r.frame < Frames /\ stack' = [stack EXCEPT ![t][Len(stack[t])].frame = @ + 1]
    <3>1. /\ \A u \in Threads \ {t} : stack'[u] = stack[u]
          /\ Len(stack'[t]) = Len(stack[t])
          /\ \A i \in 1..Len(stack[t]) :
               stack'[t][i] = IF i = Len(stack[t]) THEN [stack[t][i] EXCEPT !.frame = @ + 1]
                                                   ELSE stack[t][i]
      BY <1>1, <2>1, FrameMoves
    <3>2. stack'[t][1] = [r EXCEPT !.frame = @ + 1] /\ Len(stack'[t]) = 1
      BY <1>1, <3>1
    <3>3. stack'[t] # <<>>
      BY <3>2
    <3> HIDE DEF r
    <3>4. /\ stack'[t][1].at = "frames" /\ stack'[t][1].signal = r.signal
          /\ stack'[t][1].frame = r.frame + 1
      BY <1>1, <3>2, RunIs
    <3> QED
      BY <3>1, <3>2, <3>3, <3>4
  <2>2. CASE Goes(t, "unlock")
    <3>1. /\ \A u \in Threads \ {t} : stack'[u] = stack[u]
          /\ Len(stack'[t]) = Len(stack[t])
          /\ \A i \in 1..Len(stack[t]) :
               stack'[t][i] = IF i = Len(stack[t]) THEN [stack[t][i] EXCEPT !.at = "unlock"]
                                                   ELSE stack[t][i]
      BY <1>1, <2>2, RunMoves DEF StageNames
    <3>2. stack'[t][1] = [r EXCEPT !.at = "unlock"] /\ Len(stack'[t]) = 1
      BY <1>1, <3>1
    <3>3. stack'[t] # <<>>
      BY <3>2
    <3> HIDE DEF r
    <3>4. stack'[t][1].at = "unlock"
      BY <1>1, <3>2, RunIs
    <3> QED
      BY <3>1, <3>2, <3>3, <3>4
  <2> QED
    BY <1>2, <2>1, <2>2
<1> HIDE DEF line
<1>6. /\ Len(trace') = Len(trace) + 1 /\ Len(trace) \in Nat
      /\ DOMAIN trace' = 1..(Len(trace) + 1) /\ DOMAIN trace = 1..Len(trace)
      /\ trace'[Len(trace) + 1] = line /\ \A i \in 1..Len(trace) : trace'[i] = trace[i]
      /\ trace' # <<>>
  BY <1>2
<1>7. Single'
  BY <1>1, <1>5 DEF Single
<1>8. \A u \in Threads \ {t} :
        stack[u] # <<>> /\ stack[u][1].at \in {"frames", "unlock"} => FALSE
  BY <1>1, <1>4 DEF Holder, Single
<1>9. Holder'
  BY <1>4, <1>5, <1>8 DEF Holder
<1>10. WroteLast'
  <2> SUFFICES ASSUME NEW u \in Threads, stack'[u] # <<>>, stack'[u][1].at = "frames",
                      stack'[u][1].frame > 1
               PROVE  /\ trace' # <<>>
                      /\ trace'[Len(trace')] = [thread |-> u, signal |-> stack'[u][1].signal,
                                                frame |-> stack'[u][1].frame - 1]
    BY DEF WroteLast
  <2>1. u = t
    BY <1>5, <1>8
  <2>2. stack'[t][1].signal = r.signal /\ stack'[t][1].frame = r.frame + 1
    BY <1>5, <2>1
  <2>3. stack'[t][1].frame - 1 = r.frame
    BY <1>3, <2>2
  <2> QED
    BY <1>6, <2>1, <2>2, <2>3 DEF line
<1>11. Together'
  <2> SUFFICES ASSUME NEW i \in 1..(Len(trace) + 1)
               PROVE  \/ trace'[i].frame = 1
                      \/ i > 1 /\ trace'[i] = [trace'[i - 1] EXCEPT !.frame = @ + 1]
    BY <1>6 DEF Together
  <2>1. CASE i \in 1..Len(trace)
    <3>1. trace'[i] = trace[i] /\ (i > 1 => i - 1 \in 1..Len(trace))
      BY <1>6, <2>1
    <3>2. i > 1 => trace'[i - 1] = trace[i - 1]
      BY <1>6, <3>1
    <3> QED
      BY <1>6, <2>1, <3>1, <3>2 DEF Together
  <2>2. CASE i = Len(trace) + 1 /\ r.frame = 1
    BY <1>6, <2>2 DEF line
  <2>3. CASE i = Len(trace) + 1 /\ r.frame > 1
    <3> DEFINE last == [thread |-> t, signal |-> r.signal, frame |-> r.frame - 1]
    <3>1. trace # <<>> /\ trace[Len(trace)] = last
      BY <1>1, <2>3 DEF WroteLast
    <3>2. Len(trace) \in 1..Len(trace) /\ i - 1 = Len(trace) /\ i > 1
      BY <1>2, <1>6, <2>3, <3>1
    <3>3. trace'[i - 1] = last /\ trace'[i] = line
      BY <1>6, <2>3, <3>1, <3>2
    <3>4. line = [last EXCEPT !.frame = @ + 1]
      <4>1. (r.frame - 1) + 1 = r.frame
        BY <1>3
      <4> QED
        BY <4>1 DEF line
    <3> HIDE DEF last
    <3> QED
      BY <3>2, <3>3, <3>4
  <2> QED
    BY <1>3, <1>6, <2>1, <2>2, <2>3
<1> QED
  BY <1>7, <1>9, <1>10, <1>11

(* A signal begins the only handler of its process, if none is inside two. *)
LEMMA SignalInTurn ==
  ASSUME TypeOK, Single, Holder, WroteLast, Together, NEW t \in Threads, NEW s \in Signals,
         Signal(t, s), doubled' = {}
  PROVE  (Single /\ Holder /\ WroteLast /\ Together)'
<1> DEFINE r == [signal |-> s, at |-> "maps", frame |-> 1]
<1>1. \A u \in Threads : ProcessOf[u] = ProcessOf[t] => stack[u] = <<>>
  BY DEF Signal, Busy
<1>2. stack' = [stack EXCEPT ![t] = Append(@, r)] /\ stack[t] = <<>>
  BY <1>1, RunIs DEF Signal
<1>3. \A u \in Threads \ {t} : stack'[u] = stack[u]
  BY <1>2 DEF TypeOK
<1>4. stack'[t] = Append(<<>>, r)
  BY <1>2 DEF TypeOK
<1>5. Len(stack'[t]) = 1 /\ stack'[t][1] = r
  <2> HIDE DEF r
  <2> QED
    BY <1>4
<1>6. trace' = trace /\ lock' = lock
  BY DEF Signal, files
<1>7. r.at = "maps"
  OBVIOUS
<1> HIDE DEF r
<1>8. Single'
  <2>1. \A u \in Threads : Len(stack'[u]) <= 1
    <3>1. Len(stack'[t]) <= 1
      BY <1>5
    <3>2. \A u \in Threads \ {t} : Len(stack'[u]) <= 1
      BY <1>3 DEF Single
    <3> QED
      BY <3>1, <3>2
  <2>2. ASSUME NEW u \in Threads, NEW v \in Threads,
               stack'[u] # <<>>, stack'[v] # <<>>, ProcessOf[u] = ProcessOf[v]
        PROVE  u = v
    BY <1>1, <1>3, <2>2 DEF Single
  <2> QED
    BY <2>1, <2>2 DEF Single
<1>9. Holder'
  BY <1>3, <1>5, <1>6, <1>7 DEF Holder
<1>10. WroteLast'
  BY <1>3, <1>5, <1>6, <1>7 DEF WroteLast
<1> QED
  BY <1>6, <1>8, <1>9, <1>10 DEF Together

LEMMA HandlerInTurn ==
  ASSUME TypeOK, Runs, Single, Holder, WroteLast, Together, NEW t \in Threads, ProcessCrashSig(t)
  PROVE  (Single /\ Holder /\ WroteLast /\ Together)'
<1>0. ProcessOf[t] \in Procs
  BY CrashHandlerAssumption
<1>1. ASSUME NEW to \in StageNames \ {"frames", "unlock"}, Passes(t, to), lock' = lock
      PROVE  (Single /\ Holder /\ WroteLast /\ Together)'
  BY <1>1, PassInTurn
<1>2. {"copy", "open", "lock", "default", "raise", "return"} \subseteq StageNames \ {"frames", "unlock"}
  BY DEF StageNames
<1>3. CASE CreateMaps(t)
  BY <1>1, <1>2, <1>3, Passing DEF CreateMaps
<1>4. CASE CopyMaps(t)
  BY <1>1, <1>2, <1>4, Passing DEF CopyMaps
<1>5. CASE OpenTrace(t)
  BY <1>1, <1>2, <1>5, Passing DEF OpenTrace, files
<1>6. CASE SkipTrace(t)
  BY <1>1, <1>2, <1>6, Passing DEF SkipTrace, files
<1>7. CASE RestoreDefault(t)
  BY <1>1, <1>2, <1>7, Passing DEF RestoreDefault, files
<1>8. CASE RaiseStop(t)
  BY <1>1, <1>2, <1>8, Passing DEF RaiseStop, files
<1>9. CASE LockTrace(t)
  <2>1. Passes(t, "frames") /\ lock' = ProcessOf[t] /\ lock \in {Nobody, ProcessOf[t]}
    BY <1>9, Passing DEF LockTrace, Lockable
  <2>2. stack[t] # <<>> /\ Last(stack[t]).at = "lock" /\ Last(stack[t]).frame = 1
    BY <1>9, Innermost, AtIs DEF LockTrace, Progress
  <2>3. stack[t][1].frame = 1
    BY <2>2, TheHandler
  <2>4. \A u \in Threads \ {t} : stack[u] # <<>> /\ lock = ProcessOf[u] => lock' = ProcessOf[u]
    BY <2>1, CrashHandlerAssumption
  <2>5. "frames" \in StageNames
    BY DEF StageNames
  <2> QED
    BY <2>1, <2>3, <2>4, <2>5, PassInTurn
<1>10. CASE UnlockTrace(t)
  <2>1. Passes(t, "default") /\ lock' = IF lock = ProcessOf[t] THEN Nobody ELSE lock
    BY <1>10, Passing DEF UnlockTrace, DropLock
  <2>2. stack[t] # <<>>
    BY <2>1 DEF Passes
  <2>3. \A u \in Threads \ {t} : stack[u] # <<>> /\ lock = ProcessOf[u] => lock' = ProcessOf[u]
    BY <2>1, <2>2 DEF Single
  <2>4. "default" \in StageNames
    BY DEF StageNames
  <2> QED
    BY <2>1, <2>3, <2>4, PassInTurn
<1>11. CASE WriteFrame(t)
  BY <1>11, FrameInTurn
<1>12. CASE RaiseSignal(t) \/ ReturnToFault(t)
  BY <1>0, <1>12, EndInTurn DEF RaiseSignal, ReturnToFault
<1>13. CASE Return(t)
  <2>1. stack[t] \in Seq(Run) /\ Len(stack[t]) = 1 /\ stack' = [stack EXCEPT ![t] = Front(@)]
    BY <1>13, AtIs, TheHandler DEF Return
  <2>2. Front(stack[t]) = <<>>
    BY <2>1 DEF Front
  <2>3. \A u \in Threads : stack'[u] = IF u = t THEN <<>> ELSE stack[u]
    BY <2>1, <2>2 DEF TypeOK
  <2>4. trace' = trace /\ lock' = lock
    BY <1>13 DEF Return, files
  <2> QED
    BY <2>3, <2>4, FewerInTurn
<1> QED
  BY <1>3, <1>4, <1>5, <1>6, <1>7, <1>8, <1>9, <1>10, <1>11, <1>12, <1>13 DEF ProcessCrashSig

(* Who was inside two handlers at once stays in the history. *)
LEMMA DoubledGrows == [Next]_vars => doubled \subseteq doubled'
<1> SUFFICES ASSUME [Next]_vars PROVE doubled \subseteq doubled'
  OBVIOUS
<1>1. ASSUME NEW p \in Procs, Kill(p) \/ Continue(p) PROVE doubled \subseteq doubled'
  BY <1>1 DEF Kill, Continue, history
<1>2. ASSUME NEW t \in Threads, NEW s \in Signals, Signal(t, s) \/ SignalEnds(t, s)
      PROVE  doubled \subseteq doubled'
  BY <1>2 DEF Signal, SignalEnds
<1>3. ASSUME NEW t \in Threads, ProcessCrashSig(t) PROVE doubled \subseteq doubled'
  BY <1>3 DEF ProcessCrashSig, CreateMaps, CopyMaps, OpenTrace, SkipTrace, LockTrace, WriteFrame,
     UnlockTrace, RestoreDefault, RaiseSignal, RaiseStop, Return, ReturnToFault, history
<1>4. CASE UNCHANGED vars
  BY <1>4 DEF vars, history
<1> QED
  BY <1>1, <1>2, <1>3, <1>4 DEF Next

LEMMA InTurnStep == TypeOK /\ Runs /\ InTurn /\ [Next]_vars => InTurn'
<1> SUFFICES ASSUME TypeOK, Runs, InTurn, [Next]_vars, doubled' = {}
             PROVE  (Single /\ Holder /\ WroteLast /\ Together)'
  BY DEF InTurn
<1>1. Single /\ Holder /\ WroteLast /\ Together
  BY DoubledGrows DEF InTurn
<1>2. ASSUME NEW p \in Procs, Kill(p) PROVE (Single /\ Holder /\ WroteLast /\ Together)'
  BY <1>1, <1>2, EndInTurn DEF Kill
<1>3. CASE UNCHANGED <<stack, trace, lock>>
  BY <1>1, <1>3, FewerInTurn
<1>4. ASSUME NEW p \in Procs, Continue(p) PROVE (Single /\ Holder /\ WroteLast /\ Together)'
  BY <1>3, <1>4 DEF Continue, files
<1>5. ASSUME NEW t \in Threads, NEW s \in Signals, SignalEnds(t, s)
      PROVE  (Single /\ Holder /\ WroteLast /\ Together)'
  BY <1>1, <1>5, EndInTurn, CrashHandlerAssumption DEF SignalEnds
<1>6. CASE UNCHANGED vars
  BY <1>3, <1>6 DEF vars, files
<1> QED
  BY <1>1, <1>2, <1>4, <1>5, <1>6, HandlerInTurn, SignalInTurn DEF Next

LEMMA InTurnInit == Init => TypeOK /\ Runs /\ InTurn
<1> SUFFICES ASSUME Init PROVE TypeOK /\ Runs /\ InTurn
  OBVIOUS
<1>1. \A t \in Threads : stack[t] = <<>> /\ Len(stack[t]) = 0
  BY DEF Init
<1>2. Single /\ Holder /\ WroteLast
  BY <1>1 DEF Single, Holder, WroteLast
<1>3. Together
  BY DEF Init, Together
<1> QED
  BY <1>1, <1>2, <1>3, InitTypes DEF Runs, InTurn

(* As long as no process is inside two handlers at once, the frames of     *)
(* every stack trace stand together and in order.                          *)
THEOREM TracesStandTogether == Spec => []TracesWhole
<1>1. TypeOK /\ Runs /\ InTurn /\ [Next]_vars => (TypeOK /\ Runs /\ InTurn)'
  BY StepTypes, RunsStep, InTurnStep
<1>2. InTurn => TracesWhole
  BY DEF InTurn, Together, TracesWhole
<1> QED
  BY <1>1, <1>2, InTurnInit, PTL DEF Spec

-----------------------------------------------------------------------------
(* What HandlerEnds rests on, as far as it is not fairness: who waits for  *)
(* the lock waits for a handler that has still to drop it.                 *)
Writes(p) ==
  \E t \in Threads :
    /\ ProcessOf[t] = p
    /\ \E i \in 1..Len(stack[t]) : stack[t][i].at \in {"frames", "unlock"}

Owned == lock # Nobody => lock \in Procs /\ Writes(lock)

(* The dead are in no handler, and who is stopped is behind the raise().   *)
Emptied == \A t \in Threads : state[ProcessOf[t]] \in {"crashed", "killed"} => stack[t] = <<>>

StopsBehind ==
  \A p \in Procs : state[p] = "stopped" =>
    \E t \in Threads : ProcessOf[t] = p /\ stack[t] # <<>> /\ Last(stack[t]).at = "return"

Waited == Owned /\ Emptied /\ StopsBehind

LEMMA EndKeepsWaited ==
  ASSUME TypeOK, Waited, NEW p \in Procs, NEW how \in {"crashed", "killed"}, End(p, how)
  PROVE  Waited'
<1>1. \A t \in Threads : ProcessOf[t] # p => stack'[t] = stack[t]
  BY DEF End
<1>2. state' = [state EXCEPT ![p] = how] /\ lock' = IF lock = p THEN Nobody ELSE lock
  BY DEF End
<1>3. Owned'
  BY <1>1, <1>2 DEF Waited, Owned, Writes
<1>4. Emptied'
  BY <1>2, CrashHandlerAssumption DEF Waited, Emptied, End, TypeOK
<1>5. StopsBehind'
  <2> SUFFICES ASSUME NEW q \in Procs, state'[q] = "stopped"
               PROVE  \E u \in Threads :
                        ProcessOf[u] = q /\ stack'[u] # <<>> /\ Last(stack'[u]).at = "return"
    BY DEF StopsBehind
  <2>1. q # p /\ state[q] = "stopped"
    BY <1>2 DEF TypeOK
  <2>2. PICK u \in Threads : ProcessOf[u] = q /\ stack[u] # <<>> /\ Last(stack[u]).at = "return"
    BY <2>1 DEF Waited, StopsBehind
  <2> QED
    BY <1>1, <2>1, <2>2
<1> QED
  BY <1>3, <1>4, <1>5 DEF Waited

(* A step of one handler ends no process, and none is stopped elsewhere.   *)
LEMMA StepKeepsOthers ==
  ASSUME TypeOK, Waited, NEW t \in Threads, state[ProcessOf[t]] = "running",
         \A u \in Threads \ {t} : stack'[u] = stack[u],
         \/ state' = state
         \/ /\ state' = [state EXCEPT ![ProcessOf[t]] = "stopped"]
            /\ stack'[t] # <<>> /\ Last(stack'[t]).at = "return"
  PROVE  Emptied' /\ StopsBehind'
<1>1. ProcessOf[t] \in Procs
  BY CrashHandlerAssumption
<1>2. Emptied'
  BY <1>1, CrashHandlerAssumption DEF Waited, Emptied, TypeOK
<1>3. ASSUME NEW p \in Procs, state'[p] = "stopped"
      PROVE  \E u \in Threads : ProcessOf[u] = p /\ stack'[u] # <<>> /\ Last(stack'[u]).at = "return"
  <2>1. CASE p = ProcessOf[t]
    BY <1>1, <1>3, <2>1 DEF TypeOK
  <2>2. CASE p # ProcessOf[t]
    <3>1. state[p] = "stopped"
      BY <1>1, <1>3, <2>2 DEF TypeOK
    <3>2. PICK u \in Threads : ProcessOf[u] = p /\ stack[u] # <<>> /\ Last(stack[u]).at = "return"
      BY <3>1 DEF Waited, StopsBehind
    <3> QED
      BY <2>2, <3>2
  <2> QED
    BY <2>1, <2>2
<1> QED
  BY <1>2, <1>3 DEF StopsBehind

(* What a handler that goes on looks like. *)
LEMMA PassMoves ==
  ASSUME TypeOK, NEW t \in Threads, NEW to \in StageNames, Passes(t, to)
  PROVE  /\ \A u \in Threads \ {t} : stack'[u] = stack[u]
         /\ Len(stack'[t]) = Len(stack[t]) /\ Len(stack[t]) \in Nat \ {0}
         /\ stack'[t][Len(stack[t])].at = to
<1>1. /\ \A u \in Threads \ {t} : stack'[u] = stack[u]
      /\ Len(stack'[t]) = Len(stack[t]) /\ Len(stack[t]) \in Nat \ {0}
      /\ \A i \in 1..Len(stack[t]) :
           stack'[t][i] = IF i = Len(stack[t]) THEN [stack[t][i] EXCEPT !.at = to] ELSE stack[t][i]
  BY RunMoves DEF Passes
<1> DEFINE n == Len(stack[t])
<1>2. n \in 1..n
  BY <1>1
<1>3. stack[t][n] \in Run
  BY <1>2 DEF TypeOK
<1>4. stack'[t][n] = [stack[t][n] EXCEPT !.at = to]
  BY <1>1, <1>2
<1>5. stack'[t][n].at = to
  BY <1>3, <1>4, RunIs
<1> QED
  BY <1>1, <1>5

(* Who writes goes on writing up to the unlock. *)
LEMMA MoveKeepsWriter ==
  ASSUME TypeOK, NEW t \in Threads, NEW to \in StageNames, stack[t] # <<>>, Goes(t, to),
         Last(stack[t]).at \notin {"frames", "unlock"} \/ to \in {"frames", "unlock"},
         NEW p, Writes(p)
  PROVE  Writes(p)'
<1>0. PICK u \in Threads :
        ProcessOf[u] = p /\ \E i \in 1..Len(stack[u]) : stack[u][i].at \in {"frames", "unlock"}
  BY DEF Writes
<1>1. PICK i \in 1..Len(stack[u]) : ProcessOf[u] = p /\ stack[u][i].at \in {"frames", "unlock"}
  BY <1>0
<1>2. /\ \A v \in Threads \ {t} : stack'[v] = stack[v]
      /\ Len(stack'[t]) = Len(stack[t])
      /\ \A j \in 1..Len(stack[t]) :
           stack'[t][j] = IF j = Len(stack[t]) THEN [stack[t][j] EXCEPT !.at = to] ELSE stack[t][j]
  BY RunMoves
<1>3. CASE u # t
  BY <1>1, <1>2, <1>3 DEF Writes
<1>4. CASE u = t
  <2>1. stack'[t][i] = IF i = Len(stack[t]) THEN [stack[t][i] EXCEPT !.at = to] ELSE stack[t][i]
    BY <1>1, <1>2, <1>4
  <2>2. CASE i = Len(stack[t])
    <3>1. Last(stack[t]) = stack[t][i]
      BY <2>2 DEF Last
    <3>2. to \in {"frames", "unlock"}
      BY <1>1, <1>4, <3>1
    <3>3. stack[t][i] \in Run
      BY <1>1, <1>4 DEF TypeOK
    <3>4. stack'[t][i].at = to
      BY <2>1, <2>2, <3>3, RunIs
    <3> QED
      BY <1>1, <1>2, <1>4, <3>2, <3>4 DEF Writes
  <2>3. CASE i # Len(stack[t])
    BY <1>1, <1>2, <1>4, <2>1, <2>3 DEF Writes
  <2> QED
    BY <2>2, <2>3
<1> QED
  BY <1>3, <1>4

LEMMA HandlerKeepsWaited ==
  ASSUME TypeOK, Waited, NEW t \in Threads, ProcessCrashSig(t)
  PROVE  Waited'
<1>0. ProcessOf[t] \in Procs
  BY CrashHandlerAssumption
<1>1. ASSUME NEW to \in StageNames, Passes(t, to), state[ProcessOf[t]] = "running",
             state' = state \/ to = "return"
      PROVE  Emptied' /\ StopsBehind'
  <2>1. /\ \A u \in Threads \ {t} : stack'[u] = stack[u]
        /\ Len(stack'[t]) = Len(stack[t]) /\ Len(stack[t]) \in Nat \ {0}
        /\ stack'[t][Len(stack[t])].at = to
    BY <1>1, PassMoves
  <2>2. stack'[t] # <<>> /\ Last(stack'[t]).at = to
    <3>1. Len(<<>>) = 0
      OBVIOUS
    <3> QED
      BY <2>1, <3>1 DEF Last
  <2> QED
    BY <1>1, <2>1, <2>2, StepKeepsOthers DEF Passes
<1>2. ASSUME NEW to \in StageNames, Passes(t, to), lock' = lock,
             Last(stack[t]).at \notin {"frames", "unlock"}
      PROVE  Owned'
  BY <1>2, MoveKeepsWriter DEF Waited, Owned, Passes
<1>3. {"copy", "open", "lock", "frames", "unlock", "default", "raise", "return"} \subseteq StageNames
  BY DEF StageNames
<1>4. CASE CreateMaps(t) \/ CopyMaps(t) \/ OpenTrace(t) \/ SkipTrace(t) \/ RestoreDefault(t)
  BY <1>1, <1>2, <1>3, <1>4, Passing
  DEF At, CreateMaps, CopyMaps, OpenTrace, SkipTrace, RestoreDefault, files, Waited
<1>5. CASE RaiseStop(t)
  BY <1>1, <1>2, <1>3, <1>5, Passing DEF At, RaiseStop, files, Waited
<1>6. CASE LockTrace(t)
  <2>1. Passes(t, "frames") /\ lock' = ProcessOf[t] /\ state' = state
        /\ state[ProcessOf[t]] = "running"
    BY <1>6, Passing DEF LockTrace, At
  <2>2. /\ Len(stack'[t]) = Len(stack[t]) /\ Len(stack[t]) \in Nat \ {0}
        /\ stack'[t][Len(stack[t])].at = "frames"
    BY <1>3, <2>1, PassMoves
  <2>3. Owned'
    <3>1. Len(stack[t]) \in 1..Len(stack'[t])
      BY <2>2
    <3> QED
      BY <1>0, <2>1, <2>2, <3>1 DEF Owned, Writes
  <2> QED
    BY <1>1, <1>3, <2>1, <2>3 DEF Waited
<1>7. CASE UnlockTrace(t)
  <2>1. Passes(t, "default") /\ lock' = (IF lock = ProcessOf[t] THEN Nobody ELSE lock)
        /\ state' = state /\ state[ProcessOf[t]] = "running"
    BY <1>7, Passing DEF UnlockTrace, DropLock, At
  <2>2. \A u \in Threads \ {t} : stack'[u] = stack[u]
    BY <1>3, <2>1, RunMoves DEF Passes
  <2>3. Owned'
    BY <2>1, <2>2 DEF Waited, Owned, Writes
  <2> QED
    BY <1>1, <1>3, <2>1, <2>3 DEF Waited
<1>8. CASE WriteFrame(t)
  <2>1. stack[t] # <<>> /\ state' = state /\ lock' = lock /\ state[ProcessOf[t]] = "running"
        /\ Last(stack[t]).at = "frames"
    BY <1>8 DEF WriteFrame, At
  <2>2. CASE Goes(t, "unlock")
    <3>1. \A u \in Threads \ {t} : stack'[u] = stack[u]
      BY <1>3, <2>1, <2>2, RunMoves
    <3>2. Owned'
      BY <1>3, <2>1, <2>2, MoveKeepsWriter DEF Waited, Owned
    <3> QED
      BY <2>1, <3>1, <3>2, StepKeepsOthers DEF Waited
  <2>3. CASE Last(stack[t]).frame < Frames
             /\ stack' = [stack EXCEPT ![t][Len(stack[t])].frame = @ + 1]
    <3>1. /\ \A u \in Threads \ {t} : stack'[u] = stack[u]
          /\ Len(stack'[t]) = Len(stack[t])
          /\ \A i \in 1..Len(stack[t]) :
               stack'[t][i] = IF i = Len(stack[t]) THEN [stack[t][i] EXCEPT !.frame = @ + 1]
                                                   ELSE stack[t][i]
      BY <2>1, <2>3, FrameMoves
    <3>2. \A i \in 1..Len(stack[t]) : stack'[t][i].at = stack[t][i].at
      <4> SUFFICES ASSUME NEW i \in 1..Len(stack[t]) PROVE stack'[t][i].at = stack[t][i].at
        OBVIOUS
      <4>1. stack[t][i] \in Run
        BY DEF TypeOK
      <4> QED
        BY <3>1, <4>1, RunIs
    <3>3. Owned'
      BY <2>1, <3>1, <3>2 DEF Waited, Owned, Writes
    <3> QED
      BY <2>1, <3>1, <3>3, StepKeepsOthers DEF Waited
  <2> QED
    BY <1>8, <2>2, <2>3, FrameWritten
<1>9. CASE RaiseSignal(t) \/ ReturnToFault(t)
  BY <1>0, <1>9, EndKeepsWaited DEF RaiseSignal, ReturnToFault
<1>10. CASE Return(t)
  <2>1. /\ stack[t] \in Seq(Run) /\ Len(stack[t]) \in Nat \ {0}
        /\ stack[t][Len(stack[t])].at = "return" /\ state[ProcessOf[t]] = "running"
    BY <1>10, AtIs DEF Return
  <2>2. stack' = [stack EXCEPT ![t] = Front(@)] /\ state' = state /\ lock' = lock
    BY <1>10 DEF Return, files
  <2>3. /\ Len(Front(stack[t])) = Len(stack[t]) - 1
        /\ \A i \in 1..(Len(stack[t]) - 1) : Front(stack[t])[i] = stack[t][i]
    BY <2>1 DEF Front
  <2>4. stack'[t] = Front(stack[t]) /\ \A u \in Threads \ {t} : stack'[u] = stack[u]
    BY <2>2 DEF TypeOK
  <2>5. Owned'
    <3> SUFFICES ASSUME lock # Nobody PROVE Writes(lock)'
      BY <2>2 DEF Waited, Owned
    <3>0. PICK u \in Threads :
            ProcessOf[u] = lock /\ \E i \in 1..Len(stack[u]) : stack[u][i].at \in {"frames", "unlock"}
      BY DEF Waited, Owned, Writes
    <3>1. PICK i \in 1..Len(stack[u]) : ProcessOf[u] = lock /\ stack[u][i].at \in {"frames", "unlock"}
      BY <3>0
    <3>2. CASE u # t
      BY <2>2, <2>4, <3>1, <3>2 DEF Writes
    <3>3. CASE u = t
      <4>1. i \in 1..(Len(stack[t]) - 1)
        BY <2>1, <3>1, <3>3
      <4> QED
        BY <2>2, <2>3, <2>4, <3>1, <3>3, <4>1 DEF Writes
    <3> QED
      BY <3>2, <3>3
  <2> QED
    BY <2>1, <2>2, <2>4, <2>5, StepKeepsOthers DEF Waited
<1> QED
  BY <1>4, <1>5, <1>6, <1>7, <1>8, <1>9, <1>10 DEF ProcessCrashSig

LEMMA SignalKeepsWaited ==
  ASSUME TypeOK, Waited, NEW t \in Threads, NEW s \in Signals, Signal(t, s)
  PROVE  Waited'
<1> DEFINE r == [signal |-> s, at |-> Head(Stages), frame |-> 1]
<1>1. /\ stack' = [stack EXCEPT ![t] = Append(@, r)]
      /\ state' = state /\ lock' = lock /\ state[ProcessOf[t]] = "running"
  BY DEF Signal, Deliverable, files
<1> HIDE DEF r
<1>2. stack'[t] = Append(stack[t], r) /\ \A u \in Threads \ {t} : stack'[u] = stack[u]
  BY <1>1 DEF TypeOK
<1>3. \A i \in 1..Len(stack[t]) : i \in 1..Len(stack'[t]) /\ stack'[t][i] = stack[t][i]
  <2>1. stack[t] \in Seq(Run)
    BY DEF TypeOK
  <2> QED
    BY <1>2, <2>1
<1>4. Owned'
  BY <1>1, <1>2, <1>3 DEF Waited, Owned, Writes
<1> QED
  BY <1>1, <1>2, <1>4, StepKeepsOthers DEF Waited

LEMMA WaitedStep == TypeOK /\ Waited /\ [Next]_vars => Waited'
<1> SUFFICES ASSUME TypeOK, Waited, [Next]_vars PROVE Waited'
  OBVIOUS
<1>1. ASSUME NEW p \in Procs, Kill(p) PROVE Waited'
  BY <1>1, EndKeepsWaited DEF Kill
<1>2. ASSUME NEW p \in Procs, Continue(p) PROVE Waited'
  BY <1>2 DEF Continue, files, Waited, Owned, Writes, Emptied, StopsBehind, TypeOK
<1>3. ASSUME NEW t \in Threads, NEW s \in Signals, SignalEnds(t, s) PROVE Waited'
  BY <1>3, EndKeepsWaited, CrashHandlerAssumption DEF SignalEnds
<1>4. CASE UNCHANGED vars
  BY <1>4 DEF vars, files, Waited, Owned, Writes, Emptied, StopsBehind
<1> QED
  BY <1>1, <1>2, <1>3, <1>4, HandlerKeepsWaited, SignalKeepsWaited DEF Next

(* The process that has the lock is alive and in a handler that has still  *)
(* to drop it; and it can go on, unless it was inside two handlers at once *)
(* and the other one has stopped it.                                       *)
LockComesFree ==
  lock # Nobody =>
    /\ state[lock] \in {"running", "stopped"} /\ Writes(lock)
    /\ doubled = {} => state[lock] = "running"

THEOREM NobodyKeepsTheLock == Spec => []LockComesFree
<1>1. Init => Waited
  BY DEF Init, Waited, Owned, Emptied, StopsBehind
<1>2. TypeOK /\ InTurn /\ Waited => LockComesFree
  <2> SUFFICES ASSUME TypeOK, InTurn, Waited, lock # Nobody
               PROVE  /\ state[lock] \in {"running", "stopped"} /\ Writes(lock)
                      /\ doubled = {} => state[lock] = "running"
    BY DEF LockComesFree
  <2>0. PICK t \in Threads :
          ProcessOf[t] = lock /\ \E i \in 1..Len(stack[t]) : stack[t][i].at \in {"frames", "unlock"}
    BY DEF Waited, Owned, Writes
  <2>1. PICK i \in 1..Len(stack[t]) : ProcessOf[t] = lock /\ stack[t][i].at \in {"frames", "unlock"}
    BY <2>0
  <2>2. state[lock] \in {"running", "stopped"}
    <3>1. Len(<<>>) = 0
      OBVIOUS
    <3>2. stack[t] # <<>>
      BY <2>1, <3>1
    <3> QED
      BY <2>1, <3>2 DEF Waited, Owned, Emptied, TypeOK
  <2>3. ASSUME doubled = {}, state[lock] = "stopped" PROVE FALSE
    <3>1. PICK u \in Threads : ProcessOf[u] = lock /\ stack[u] # <<>> /\ Last(stack[u]).at = "return"
      BY <2>3 DEF Waited, Owned, StopsBehind
    <3>2. stack[t] # <<>> /\ Single
      <4>1. Len(<<>>) = 0
        OBVIOUS
      <4> QED
        BY <2>1, <2>3, <4>1 DEF InTurn
    <3>3. u = t
      BY <2>1, <3>1, <3>2 DEF Single
    <3>4. Len(stack[t]) = 1 /\ Last(stack[t]) = stack[t][1]
      BY <3>2, TheHandler
    <3> QED
      BY <2>1, <3>1, <3>3, <3>4
  <2> QED
    BY <2>2, <2>3 DEF Waited, Owned
<1> QED
  BY <1>1, <1>2, WaitedStep, StepTypes, RunsStep, InTurnStep, InTurnInit, PTL DEF Spec
=============================================================================
