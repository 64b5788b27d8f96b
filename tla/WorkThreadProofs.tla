-------------------------- MODULE WorkThreadProofs --------------------------
(***************************************************************************)
(* Proofs about WorkThread, for any set of works, any number of callers    *)
(* and any number of sessions.  TypeOK, which says that a work is at one   *)
(* place at a time, is inductive; the other results are relative to it.    *)
(***************************************************************************)
EXTENDS WorkThread, Functions, TLAPS

(* Queues without repetitions.                                             *)

(* A longer queue.                                                         *)
LEMMA AppendRange ==
  ASSUME NEW S, NEW s \in Seq(S), NEW e \in S, IsInjective(s), e \notin Range(s)
  PROVE  /\ Append(s, e) \in Seq(S)
         /\ Range(Append(s, e)) = Range(s) \cup {e}
         /\ IsInjective(Append(s, e))
<1> DEFINE t == Append(s, e)
<1>1. /\ t \in Seq(S) /\ DOMAIN t = 1..(Len(s) + 1) /\ DOMAIN s = 1..Len(s)
      /\ Len(s) \in Nat /\ t[Len(s) + 1] = e /\ \A i \in 1..Len(s) : t[i] = s[i]
  OBVIOUS
<1> HIDE DEF t
<1>2. Range(t) = Range(s) \cup {e}
  BY <1>1, SMT DEF Range
<1>3. IsInjective(t)
  BY <1>1, SMT DEF IsInjective, Range
<1> QED
  BY <1>1, <1>2, <1>3 DEF t

(* The queue without its front.                                            *)
LEMMA TailRange ==
  ASSUME NEW S, NEW s \in Seq(S), s # <<>>, IsInjective(s)
  PROVE  /\ Head(s) \in Range(s) /\ Head(s) \in S
         /\ Tail(s) \in Seq(S)
         /\ Range(Tail(s)) = Range(s) \ {Head(s)}
         /\ IsInjective(Tail(s))
<1> DEFINE t == Tail(s)
<1>1. /\ Len(s) \in Nat \ {0} /\ DOMAIN s = 1..Len(s) /\ Head(s) = s[1]
      /\ t \in Seq(S) /\ DOMAIN t = 1..(Len(s) - 1)
      /\ \A i \in 1..(Len(s) - 1) : t[i] = s[i + 1]
      /\ \A i \in 1..Len(s) : s[i] \in S
  OBVIOUS
<1> HIDE DEF t
<1>2. \A i \in 1..(Len(s) - 1) : i + 1 \in 1..Len(s) /\ i + 1 # 1
  BY <1>1
<1>3. \A i \in 1..Len(s) : i # 1 => i - 1 \in 1..(Len(s) - 1) /\ t[i - 1] = s[i]
  <2> TAKE i \in 1..Len(s)
  <2> HAVE i # 1
  <2>1. i - 1 \in 1..(Len(s) - 1) /\ (i - 1) + 1 = i
    BY <1>1
  <2> QED
    BY <1>1, <2>1
<1>4. Range(t) = Range(s) \ {Head(s)}
  <2>1. Range(t) \subseteq Range(s) \ {Head(s)}
    BY <1>1, <1>2, SMT DEF Range, IsInjective
  <2>2. Range(s) \ {Head(s)} \subseteq Range(t)
    BY <1>1, <1>3, SMT DEF Range
  <2> QED
    BY <2>1, <2>2
<1>5. IsInjective(t)
  <2> SUFFICES ASSUME NEW a \in DOMAIN t, NEW b \in DOMAIN t, t[a] = t[b] PROVE a = b
    BY DEF IsInjective
  <2>1. a + 1 = b + 1
    BY <1>1, <1>2 DEF IsInjective
  <2> QED
    BY <1>1, <2>1
<1>6. Head(s) \in Range(s)
  BY <1>1 DEF Range
<1> QED
  BY <1>1, <1>4, <1>5, <1>6 DEF t

-----------------------------------------------------------------------------
LEMMA TypeInit == Init => TypeOK
<1> SUFFICES ASSUME Init PROVE TypeOK
  OBVIOUS
<1>1. IsInjective(works) /\ Range(works) = {} /\ works \in Seq(Works)
  BY DEF Init, IsInjective, Range
<1> QED
  BY <1>1 DEF Init, TypeOK

LEMMA TypeStep == TypeOK /\ [Next]_vars => TypeOK'
<1> SUFFICES ASSUME TypeOK, [Next]_vars PROVE TypeOK'
  OBVIOUS
<1> USE WorkThreadAssumption DEF TypeOK
<1>1. CASE StartWork
  BY <1>1 DEF StartWork, callers
<1>2. CASE StopWork
  BY <1>2 DEF StopWork, callers, thread
<1>3. CASE StopNotifies
  BY <1>3 DEF StopNotifies, NotifyOne, callers
<1>4. CASE StopJoins
  BY <1>4 DEF StopJoins, callers
<1>5. ASSUME NEW k \in Works, PushWork(k) PROVE TypeOK'
  BY <1>5 DEF PushWork, thread
<1>6. ASSUME NEW k \in Works, Push(k) PROVE TypeOK'
  <2>1. k \notin Range(works)
    BY <1>6 DEF Push
  <2>2. /\ works' \in Seq(Works) /\ Range(works') = Range(works) \cup {k}
        /\ IsInjective(works')
    BY <1>6, <2>1, AppendRange DEF Push, PushBack
  <2> QED
    BY <1>6, <2>2 DEF Push, thread
<1>7. ASSUME NEW k \in Works, Cancel(k) PROVE TypeOK'
  BY <1>7 DEF Cancel, callers, thread
<1>8. CASE LookIntoQueue \/ FallAsleep \/ SpuriousWake \/ Exit
  BY <1>8 DEF LookIntoQueue, FallAsleep, SpuriousWake, Exit, WorkerGoes, callers
<1>9. CASE Take
  <2>1. /\ Head(works) \in Range(works) /\ Head(works) \in Works
        /\ works' \in Seq(Works) /\ Range(works') = Range(works) \ {Head(works)}
        /\ IsInjective(works')
    BY <1>9, TailRange DEF Take
  <2> QED
    BY <1>9, <2>1 DEF Take, WorkerGoes, callers
<1>10. CASE Skip
  BY <1>10 DEF Skip, WorkerGoes, PutDown, callers
<1>11. CASE Accept
  BY <1>11 DEF Accept, WorkerGoes, callers
<1>12. CASE Doing
  BY <1>12 DEF Doing, WorkerGoes, callers
<1>13. CASE Done
  BY <1>13 DEF Done, WorkerGoes, PutDown, callers
<1>14. CASE UNCHANGED vars
  BY <1>14 DEF vars, thread, callers
<1> QED
  BY <1>1, <1>2, <1>3, <1>4, <1>5, <1>6, <1>7, <1>8, <1>9, <1>10, <1>11, <1>12, <1>13, <1>14
  DEF Next, WorkerStep

(* Every work is at one place: with its caller, in the queue once, with    *)
(* the worker, or behind it.                                               *)
THEOREM AtOnePlace == Spec => []TypeOK
BY TypeInit, TypeStep, PTL DEF Spec

-----------------------------------------------------------------------------
(* A cancelled work stays so in every step. *)
LEMMA OffStays ==
  ASSUME TypeOK, [Next]_vars, NEW k \in Works, Off(k)
  PROVE  Off(k)'
<1> USE WorkThreadAssumption DEF TypeOK, Off
<1>1. CASE StartWork \/ StopWork \/ StopJoins \/ StopNotifies
  BY <1>1 DEF StartWork, StopWork, StopJoins, StopNotifies, NotifyOne, thread
<1>2. ASSUME NEW j \in Works, PushWork(j) \/ Push(j) \/ Cancel(j) PROVE Off(k)'
  BY <1>2 DEF PushWork, Push, Cancel, thread
<1>3. CASE LookIntoQueue \/ FallAsleep \/ SpuriousWake \/ Exit \/ Take \/ Skip \/ Accept
  BY <1>3 DEF LookIntoQueue, FallAsleep, SpuriousWake, Exit, Take, Skip, Accept, Cancelled,
     WorkerGoes, PutDown
<1>4. CASE Doing \/ Done
  BY <1>4 DEF Doing, Done, WorkerGoes, PutDown
<1>5. CASE UNCHANGED vars
  BY <1>5 DEF vars, thread
<1> QED
  BY <1>1, <1>2, <1>3, <1>4, <1>5 DEF Next, WorkerStep

(* Whoever cancels a work before the worker has looked at its status keeps *)
(* it from running, whatever else happens meanwhile.                       *)
THEOREM CancellationHolds == Spec => CancelledForGood
<1>1. TypeOK /\ [Next]_vars => [\A k \in Works : Off(k) => Off(k)']_vars
  BY OffStays
<1> QED
  BY <1>1, AtOnePlace, PTL DEF Spec, CancelledForGood

-----------------------------------------------------------------------------
LEMMA InitRefines == Init => Fifo!Init
BY DEF Init, Fifo!Init

LEMMA StepRefines ==
  ASSUME TypeOK, [Next]_vars
  PROVE  [Fifo!Next]_(Fifo!vars)
<1> USE WorkThreadAssumption DEF TypeOK
<1>1. CASE StartWork \/ StopWork \/ StopJoins \/ StopNotifies
  BY <1>1 DEF StartWork, StopWork, StopJoins, StopNotifies, NotifyOne, thread, Fifo!vars
<1>2. ASSUME NEW k \in Works, PushWork(k) \/ Cancel(k) PROVE UNCHANGED Fifo!vars
  BY <1>2 DEF PushWork, Cancel, thread, Fifo!vars
<1>3. ASSUME NEW k \in Works, Push(k) PROVE Fifo!Accept(k)
  BY <1>3 DEF Push, PushBack, thread, Range, Fifo!Accept, Fifo!Fresh, Fifo!Range
<1>4. CASE LookIntoQueue \/ FallAsleep \/ SpuriousWake \/ Exit \/ Accept \/ Doing
  BY <1>4 DEF LookIntoQueue, FallAsleep, SpuriousWake, Exit, Accept, Doing, Fifo!vars
<1>5. CASE Take
  <2>1. held = None /\ Head(works) # None
    BY <1>5, TailRange DEF Take, WorkerGoes
  <2> QED
    BY <1>5, <2>1 DEF Take, Fifo!Next, Fifo!Begin
<1>6. CASE Skip \/ Done
  <2>1. held \in Works
    BY <1>6 DEF Skip, Done, WorkerGoes
  <2>2. Fifo!End(held)
    BY <1>6, <2>1 DEF Skip, Done, PutDown, Fifo!End
  <2> QED
    BY <2>1, <2>2 DEF Fifo!Next
<1>7. CASE UNCHANGED vars
  BY <1>7 DEF vars, thread, Fifo!vars
<1> QED
  BY <1>1, <1>2, <1>3, <1>4, <1>5, <1>6, <1>7 DEF Next, WorkerStep, Fifo!Next

(* Works are treated in the order in which they reached the queue and once *)
(* each, over all sessions, whatever StopWork() leaves behind.             *)
THEOREM WorksInOrder == Spec => ImplementsFifo
BY InitRefines, StepRefines, AtOnePlace, PTL DEF Spec, ImplementsFifo, Fifo!Spec
=============================================================================
