------------------------- MODULE NetThreadPoolProofs -------------------------
(***************************************************************************)
(* Proofs about NetThreadPool, for any sets of tasks, any finite sets of   *)
(* clients and workers, and any queue size.  Shape is the inductive        *)
(* invariant everything rests on; the two wake-up invariants, the cut-off  *)
(* of stop(), the teardown and the places of tasks (Once), from which the  *)
(* refinement of FifoExecutor follows, are inductive relative to it.       *)
(***************************************************************************)
EXTENDS NetThreadPool, Functions, FiniteSetTheorems, TLAPS

(* Sequences without repetitions.                                          *)

(* What appending adds to the elements of a sequence.                      *)
LEMMA RangeAppend ==
  ASSUME NEW S, NEW s \in Seq(S), NEW e \in S
  PROVE  Range(Append(s, e)) = Range(s) \cup {e}
<1>1. Len(Append(s, e)) = Len(s) + 1 /\ Len(s) \in Nat
  OBVIOUS
<1>2. DOMAIN s = 1..Len(s) /\ DOMAIN Append(s, e) = 1..(Len(s) + 1)
  BY <1>1
<1>3. \A i \in 1..Len(s) : Append(s, e)[i] = s[i]
  OBVIOUS
<1>4. Append(s, e)[Len(s) + 1] = e
  OBVIOUS
<1>5. 1..(Len(s) + 1) = 1..Len(s) \cup {Len(s) + 1}
  BY <1>1
<1>6. Range(s) = {s[i] : i \in 1..Len(s)}
  BY <1>2 DEF Range
<1>7. Range(Append(s, e)) = {Append(s, e)[i] : i \in 1..Len(s)} \cup {Append(s, e)[Len(s) + 1]}
  BY <1>2, <1>5 DEF Range
<1> QED
  BY <1>3, <1>4, <1>6, <1>7

(* A sequence that grows at its front.                                     *)
LEMMA PrependRange ==
  ASSUME NEW S, NEW s \in Seq(S), NEW e \in S, IsInjective(s), e \notin Range(s)
  PROVE  /\ <<e>> \o s \in Seq(S)
         /\ Range(<<e>> \o s) = {e} \cup Range(s)
         /\ IsInjective(<<e>> \o s)
<1> DEFINE t == <<e>> \o s
<1>1. /\ t \in Seq(S) /\ DOMAIN t = 1..(Len(s) + 1) /\ DOMAIN s = 1..Len(s)
      /\ Len(s) \in Nat /\ t[1] = e /\ \A i \in 2..(Len(s) + 1) : t[i] = s[i - 1]
  OBVIOUS
<1> HIDE DEF t
<1>2. Range(t) = {e} \cup Range(s)
  <2>1. ASSUME NEW x \in Range(t) PROVE x \in {e} \cup Range(s)
    <3>1. PICK i \in 1..(Len(s) + 1) : x = t[i]
      BY <1>1, <2>1 DEF Range
    <3>2. i # 1 => i \in 2..(Len(s) + 1) /\ i - 1 \in DOMAIN s
      BY <1>1
    <3> QED
      BY <1>1, <3>1, <3>2 DEF Range
  <2>2. ASSUME NEW x \in Range(s) PROVE x \in Range(t)
    <3>1. PICK i \in 1..Len(s) : x = s[i]
      BY <1>1, <2>2 DEF Range
    <3>2. i + 1 \in 2..(Len(s) + 1) /\ i + 1 \in DOMAIN t /\ (i + 1) - 1 = i
      BY <1>1
    <3>3. t[i + 1] = x
      BY <1>1, <3>1, <3>2
    <3> QED
      BY <3>2, <3>3 DEF Range
  <2>3. e \in Range(t)
    <3>1. 1 \in DOMAIN t
      BY <1>1
    <3> QED
      BY <1>1, <3>1 DEF Range
  <2> QED
    BY <2>1, <2>2, <2>3
<1>3. ASSUME NEW a \in DOMAIN t, NEW b \in DOMAIN t, t[a] = t[b] PROVE a = b
  <2>1. \A i \in DOMAIN t : i = 1 \/ (i \in 2..(Len(s) + 1) /\ i - 1 \in DOMAIN s)
    BY <1>1
  <2>2. \A i \in DOMAIN t : i # 1 => t[i] = s[i - 1] /\ t[i] # e
    BY <1>1, <2>1 DEF Range
  <2>3. CASE a = 1 \/ b = 1
    BY <1>1, <1>3, <2>2, <2>3
  <2>4. CASE a # 1 /\ b # 1
    <3>1. s[a - 1] = s[b - 1] /\ a - 1 \in DOMAIN s /\ b - 1 \in DOMAIN s
      BY <1>3, <2>1, <2>2, <2>4
    <3>2. a - 1 = b - 1
      BY <3>1 DEF IsInjective
    <3> QED
      BY <1>1, <1>3, <3>2
  <2> QED
    BY <2>3, <2>4
<1> QED
  BY <1>1, <1>2, <1>3 DEF t, IsInjective

(* A longer queue.                                                         *)
LEMMA AppendRange ==
  ASSUME NEW S, NEW s \in Seq(S), NEW e \in S, IsInjective(s), e \notin Range(s)
  PROVE  /\ Append(s, e) \in Seq(S)
         /\ Range(Append(s, e)) = Range(s) \cup {e}
         /\ IsInjective(Append(s, e))
<1> DEFINE t == Append(s, e)
<1>1. /\ t \in Seq(S) /\ DOMAIN t = 1..(Len(s) + 1) /\ DOMAIN s = 1..Len(s)
      /\ Len(s) \in Nat /\ t[Len(s) + 1] = e /\ \A i \in 1..Len(s) : t[i] = s[i]
  OBVIOUS
<1> HIDE DEF t
<1>2. Range(t) = Range(s) \cup {e}
  BY <1>1, SMT DEF Range
<1>3. IsInjective(t)
  BY <1>1, SMT DEF IsInjective, Range
<1> QED
  BY <1>1, <1>2, <1>3 DEF t

(* The queue without its front.                                            *)
LEMMA TailRange ==
  ASSUME NEW S, NEW s \in Seq(S), s # <<>>, IsInjective(s)
  PROVE  /\ Head(s) \in Range(s) /\ Head(s) \in S
         /\ Tail(s) \in Seq(S)
         /\ Range(Tail(s)) = Range(s) \ {Head(s)}
         /\ IsInjective(Tail(s))
<1> DEFINE t == Tail(s)
<1>1. /\ Len(s) \in Nat \ {0} /\ DOMAIN s = 1..Len(s) /\ Head(s) = s[1]
      /\ t \in Seq(S) /\ DOMAIN t = 1..(Len(s) - 1)
      /\ \A i \in 1..(Len(s) - 1) : t[i] = s[i + 1]
      /\ \A i \in 1..Len(s) : s[i] \in S
  OBVIOUS
<1> HIDE DEF t
<1>2. \A i \in 1..(Len(s) - 1) : i + 1 \in 1..Len(s) /\ i + 1 # 1
  BY <1>1
<1>3. \A i \in 1..Len(s) : i # 1 => i - 1 \in 1..(Len(s) - 1) /\ t[i - 1] = s[i]
  <2> TAKE i \in 1..Len(s)
  <2> HAVE i # 1
  <2>1. i - 1 \in 1..(Len(s) - 1) /\ (i - 1) + 1 = i
    BY <1>1
  <2> QED
    BY <1>1, <2>1
<1>4. Range(t) = Range(s) \ {Head(s)}
  <2>1. Range(t) \subseteq Range(s) \ {Head(s)}
    BY <1>1, <1>2, SMT DEF Range, IsInjective
  <2>2. Range(s) \ {Head(s)} \subseteq Range(t)
    BY <1>1, <1>3, SMT DEF Range
  <2> QED
    BY <2>1, <2>2
<1>5. IsInjective(t)
  <2> SUFFICES ASSUME NEW a \in DOMAIN t, NEW b \in DOMAIN t, t[a] = t[b] PROVE a = b
    BY DEF IsInjective
  <2>1. a + 1 = b + 1
    BY <1>1, <1>2 DEF IsInjective
  <2> QED
    BY <1>1, <2>1
<1>6. Head(s) \in Range(s)
  BY <1>1 DEF Range
<1> QED
  BY <1>1, <1>4, <1>5, <1>6 DEF t

-----------------------------------------------------------------------------
(* A thread inside a task body has one on its stack, and a caller of run() *)
(* that waits for space has its task in hand.                              *)
CallShape ==
  \A th \in AllThreads :
    /\ pc[th] = "exec" => stack[th] # <<>>
    /\ pc[th] = "post" => arg[th] \in Tasks

(* Only workers in take() sleep on notEmpty_, only callers of run() on     *)
(* notFull_.                                                               *)
Asleep ==
  /\ \A w \in notEmpty : pc[w] = "take"
  /\ \A th \in notFull : pc[th] = "post"

(* At most one created thread is not in threads_, and only while start()   *)
(* still counts it.                                                        *)
Listing ==
  \/ Unlisted = {}
  \/ owner \in {"starting", "dead"} /\ toStart > 0 /\ \E w \in Workers : Unlisted = {w}

Shape == TypeOK /\ CallShape /\ Asleep /\ Listing

(* Where a thread goes after a call is decided by the bodies it is in.     *)
LEMMA ResumeExec ==
  ASSUME NEW th, NEW frames
  PROVE  /\ Resume(th, frames) = "exec" <=> frames # <<>>
         /\ Resume(th, frames) \in {"exec", "loop", "idle"}
BY DEF Resume

(* A constructed pool has the shape.                                       *)
LEMMA InitShape == Init => Shape
<1> SUFFICES ASSUME Init PROVE Shape
  OBVIOUS
<1> USE NetThreadPoolAssumption DEF Init, ThreadsAssumption
<1>1. TypeOK
  <2>1. running \in BOOLEAN
    OBVIOUS
  <2> QED
    BY <2>1 DEF TypeOK, AllThreads
<1>2. CallShape /\ Asleep
  BY DEF CallShape, Asleep, AllThreads
<1>3. Listing
  <2>1. Workers = Unborn
    BY DEF Unborn, AllThreads
  <2> QED
    BY <2>1 DEF Listing, Unlisted
<1> QED
  BY <1>1, <1>2, <1>3 DEF Shape

USE DEF AllThreads

(* No step of any thread takes a variable out of its type.                 *)
LEMMA TypeStep == Shape /\ [Next]_vars => TypeOK'
<1> SUFFICES ASSUME Shape, Next PROVE TypeOK'
  BY DEF Shape, TypeOK, vars, members, lines, control, ownerVars, history
<1> USE NetThreadPoolAssumption DEF Shape, TypeOK, members, lines, control, ownerVars, history, ThreadsAssumption
<1>1. ASSUME NEW th \in AllThreads, NEW t \in Tasks, RunInCaller(th, t) PROVE TypeOK'
  BY <1>1 DEF RunInCaller
<1>2. ASSUME NEW th \in AllThreads, NEW t \in Tasks, RunInPool(th, t) PROVE TypeOK'
  BY <1>2 DEF RunInPool
<1>3. ASSUME NEW th \in AllThreads, WaitNotFull(th) PROVE TypeOK'
  BY <1>3 DEF WaitNotFull
<1>4. ASSUME NEW th \in AllThreads, Push(th) PROVE TypeOK'
  BY <1>4, ResumeExec DEF Push, PushBack, NotifyOne, CallShape
<1>5. ASSUME NEW th \in AllThreads, Return(th) PROVE TypeOK'
  BY <1>5, ResumeExec DEF Return, CallShape
<1>6. ASSUME NEW th \in AllThreads, SpuriousWake(th) PROVE TypeOK'
  BY <1>6 DEF SpuriousWake
<1>7. ASSUME NEW w \in Workers, CheckRunning(w) PROVE TypeOK'
  BY <1>7 DEF CheckRunning
<1>8. ASSUME NEW w \in Workers, WaitNotEmpty(w) PROVE TypeOK'
  BY <1>8 DEF WaitNotEmpty
<1>9. ASSUME NEW w \in Workers, Take(w) PROVE TypeOK'
  BY <1>9 DEF Take, NotifyOne
<1>10. ASSUME NEW w \in Workers, TakeNothing(w) PROVE TypeOK'
  BY <1>10 DEF TakeNothing
<1>11. ASSUME NEW w \in Workers, Abort(w) PROVE TypeOK'
  BY <1>11 DEF Abort
<1>12. ASSUME NEW n \in QueueSizes, SetMaxQueueSize(n) PROVE TypeOK'
  BY <1>12 DEF SetMaxQueueSize
<1>13. ASSUME NEW n \in StartSizes, Start(n) PROVE TypeOK'
  BY <1>13 DEF Start
<1>14. ASSUME NEW w \in Workers, StartThread(w) PROVE TypeOK'
  BY <1>14 DEF StartThread
<1>15. ASSUME NEW w \in Workers, PushThread(w) PROVE TypeOK'
  BY <1>15 DEF PushThread, Listing
<1>16. CASE StartReturn
  BY <1>16 DEF StartReturn
<1>17. ASSUME NEW caller \in {"stopping", "destroying"}, StopAs(caller) PROVE TypeOK'
  <2>1. running' \in BOOLEAN
    BY <1>17 DEF StopAs
  <2>2. notEmpty' \subseteq Workers /\ joinAt' \in Nat /\ joinAt' >= 1
    BY <1>17 DEF StopAs, NotifyAll
  <2> QED
    BY <1>17, <2>1, <2>2 DEF StopAs
<1>18. CASE Destroy /\ ~running
  BY <1>18 DEF Destroy
<1>19. CASE JoinThread
  BY <1>19 DEF JoinThread
<1>20. CASE JoinThrows
  BY <1>20 DEF JoinThrows
<1>21. CASE StopReturn
  BY <1>21 DEF StopReturn
<1>22. Stop => StopAs("stopping")
  BY DEF Stop
<1>23. Destroy /\ running => StopAs("destroying")
  BY DEF Destroy
<1> QED
  BY <1>1, <1>2, <1>3, <1>4, <1>5, <1>6, <1>7, <1>8, <1>9, <1>10, <1>11, <1>12, <1>13, <1>14,
     <1>15, <1>16, <1>17, <1>18, <1>19, <1>20, <1>21, <1>22, <1>23
     DEF Next, Call, Proceed, Work, OwnerProceeds, OwnerCalls

(* Every step keeps the stacks and the sleepers in shape.                  *)
LEMMA CallStep == Shape /\ [Next]_vars => CallShape' /\ Asleep'
<1> SUFFICES ASSUME Shape, Next PROVE CallShape' /\ Asleep'
  BY DEF Shape, CallShape, Asleep, vars, members, lines, control, ownerVars, history
<1> USE DEF Shape, TypeOK, CallShape, Asleep, control, lines
<1>1. ASSUME NEW th \in AllThreads, NEW t \in Tasks, RunInCaller(th, t) PROVE CallShape' /\ Asleep'
  BY <1>1 DEF RunInCaller, MayCallRun
<1>2. ASSUME NEW th \in AllThreads, NEW t \in Tasks, RunInPool(th, t) PROVE CallShape' /\ Asleep'
  BY <1>2 DEF RunInPool, MayCallRun
<1>3. ASSUME NEW th \in AllThreads, WaitNotFull(th) PROVE CallShape' /\ Asleep'
  BY <1>3 DEF WaitNotFull
<1>4. ASSUME NEW th \in AllThreads, Push(th) PROVE CallShape' /\ Asleep'
  BY <1>4, ResumeExec DEF Push, NotifyOne
<1>5. ASSUME NEW th \in AllThreads, Return(th) PROVE CallShape' /\ Asleep'
  BY <1>5, ResumeExec DEF Return
<1>6. ASSUME NEW th \in AllThreads, SpuriousWake(th) PROVE CallShape' /\ Asleep'
  BY <1>6 DEF SpuriousWake
<1>7. ASSUME NEW w \in Workers, CheckRunning(w) PROVE CallShape' /\ Asleep'
  BY <1>7 DEF CheckRunning
<1>8. ASSUME NEW w \in Workers, WaitNotEmpty(w) PROVE CallShape' /\ Asleep'
  BY <1>8 DEF WaitNotEmpty
<1>9. ASSUME NEW w \in Workers, Take(w) PROVE CallShape' /\ Asleep'
  BY <1>9 DEF Take, NotifyOne
<1>10. ASSUME NEW w \in Workers, TakeNothing(w) PROVE CallShape' /\ Asleep'
  BY <1>10 DEF TakeNothing
<1>11. ASSUME NEW w \in Workers, StartThread(w) PROVE CallShape' /\ Asleep'
  BY <1>11 DEF StartThread, Unborn
<1>12. ASSUME NEW caller, StopAs(caller) PROVE CallShape' /\ Asleep'
  BY <1>12 DEF StopAs, NotifyAll
<1>13. ASSUME UNCHANGED <<lines, control>> PROVE CallShape' /\ Asleep'
  BY <1>13
<1> QED
  <2>1. CASE \E w \in Workers : PushThread(w) \/ Abort(w)
    BY <2>1, <1>13 DEF PushThread, Abort
  <2>2. CASE \/ \E n \in QueueSizes : SetMaxQueueSize(n)
             \/ \E n \in StartSizes : Start(n)
    BY <2>2, <1>13 DEF SetMaxQueueSize, Start
  <2>3. CASE StartReturn \/ JoinThread \/ JoinThrows \/ StopReturn
    BY <2>3, <1>13 DEF StartReturn, JoinThread, JoinThrows, StopReturn
  <2>4. CASE Stop \/ Destroy
    BY <2>4, <1>12, <1>13 DEF Stop, Destroy
  <2> QED
    BY <1>1, <1>2, <1>3, <1>4, <1>5, <1>6, <1>7, <1>8, <1>9, <1>10, <1>11, <2>1, <2>2, <2>3, <2>4
       DEF Next, Call, Proceed, Work, OwnerProceeds, OwnerCalls

(* Which workers exist and are not listed changes only in start(). *)
LEMMA ListingStep == Shape /\ [Next]_vars => Listing'
<1> SUFFICES ASSUME Shape, Next PROVE Listing'
  BY DEF Shape, Listing, Unlisted, Unborn, vars, members, control, ownerVars
<1> USE DEF Shape, TypeOK, control, members, ownerVars
<1>1. ASSUME UNCHANGED <<threads, owner, toStart>>, Unborn' = Unborn PROVE Listing'
  BY <1>1 DEF Listing, Unlisted
<1>2. ASSUME NEW th \in AllThreads, th \notin Unborn, NEW to \in {"idle", "loop", "take", "exec", "post", "exited"},
             pc' = [pc EXCEPT ![th] = to]
      PROVE  Unborn' = Unborn
  BY <1>2 DEF Unborn
<1>3. ASSUME NEW th \in AllThreads, Call(th) \/ Proceed(th) \/ SpuriousWake(th) PROVE Listing'
  <2>1. CASE \E t \in Tasks : RunInCaller(th, t) \/ RunInPool(th, t)
    BY <2>1, <1>1, <1>2 DEF RunInCaller, RunInPool, MayCallRun, Unborn
  <2>2. CASE Push(th)
    BY <2>2, <1>1, <1>2, ResumeExec DEF Push, Unborn
  <2>3. CASE Return(th)
    BY <2>3, <1>1, <1>2, ResumeExec DEF Return, Unborn
  <2>4. CASE WaitNotFull(th) \/ SpuriousWake(th)
    BY <2>4, <1>1 DEF WaitNotFull, SpuriousWake, Unborn
  <2> QED
    BY <1>3, <2>1, <2>2, <2>3, <2>4 DEF Call, Proceed
<1>4. ASSUME NEW w \in Workers, Work(w) PROVE Listing'
  <2>1. CASE CheckRunning(w) \/ Take(w) \/ TakeNothing(w)
    BY <2>1, <1>1, <1>2 DEF CheckRunning, Take, TakeNothing, Unborn
  <2>2. CASE WaitNotEmpty(w)
    BY <2>2, <1>1 DEF WaitNotEmpty, Unborn
  <2> QED
    BY <1>4, <2>1, <2>2 DEF Work
<1>5. ASSUME NEW w \in Workers, StartThread(w) PROVE Listing'
  <2>1. Unborn' = Unborn \ {w} /\ Unlisted = {} /\ w \in Unborn /\ threads' = threads
    BY <1>5 DEF StartThread, Unborn
  <2>2. Unlisted' \subseteq {w}
    BY <2>1 DEF Unlisted
  <2> QED
    BY <1>5, <2>2 DEF StartThread, Listing
<1>6. ASSUME NEW w \in Workers, PushThread(w) PROVE Listing'
  <2>1. Unlisted = {w}
    BY <1>6 DEF PushThread, Listing
  <2>2. Range(threads') = Range(threads) \cup {w}
    BY <1>6, RangeAppend DEF PushThread
  <2>3. Unborn' = Unborn
    BY <1>6 DEF PushThread, Unborn
  <2>4. Unlisted' = {}
    BY <2>1, <2>2, <2>3 DEF Unlisted
  <2> QED
    BY <2>4 DEF Listing
<1>7. ASSUME UNCHANGED <<threads, pc>>, Unlisted = {} PROVE Listing'
  BY <1>7 DEF Listing, Unlisted, Unborn
<1>8. CASE StartReturn \/ Stop \/ Destroy \/ JoinThread \/ JoinThrows \/ StopReturn
  <2>1. Unlisted = {}
    BY <1>8 DEF StartReturn, Stop, Destroy, JoinThread, JoinThrows, StopReturn, Joining, Listing
  <2>2. UNCHANGED <<threads, pc>>
    BY <1>8 DEF StartReturn, Stop, Destroy, JoinThread, JoinThrows, StopReturn, StopAs
  <2> QED
    BY <2>1, <2>2, <1>7
<1>9. ASSUME NEW n \in QueueSizes \cup StartSizes, SetMaxQueueSize(n) \/ Start(n) PROVE Listing'
  BY <1>9, <1>7 DEF SetMaxQueueSize, Start, Listing
<1>10. ASSUME NEW w \in Workers, Abort(w) PROVE Listing'
  BY <1>10 DEF Abort, Listing, Unlisted, Unborn
<1> QED
  BY <1>3, <1>4, <1>5, <1>6, <1>8, <1>9, <1>10 DEF Next, OwnerProceeds, OwnerCalls

(* The shape is an invariant of the pool.                                  *)
LEMMA ShapeInvariant == Spec => []Shape
<1>1. Shape /\ [Next]_vars => Shape'
  BY TypeStep, CallStep, ListingStep DEF Shape
<1> QED
  BY InitShape, <1>1, PTL DEF Spec

(* Type correctness of the pool: every variable keeps its type, for any    *)
(* number of clients, workers and tasks.                                   *)
THEOREM TypeCorrect == Spec => []TypeOK
<1>1. Shape => TypeOK
  BY DEF Shape
<1> QED
  BY ShapeInvariant, <1>1, PTL

-----------------------------------------------------------------------------
(* There are finitely many threads, so that the sets of awake ones can be  *)
(* counted.                                                                *)
LEMMA FiniteThreads == IsFiniteSet(AllThreads)
BY NetThreadPoolAssumption, FS_Union DEF ThreadsAssumption

(* The awake takers and posters can be counted.                            *)
LEMMA TakersFinite ==
  /\ IsFiniteSet(Takers) /\ IsFiniteSet(Posters)
  /\ Cardinality(Takers) \in Nat /\ Cardinality(Posters) \in Nat
<1>1. Takers \subseteq AllThreads /\ Posters \subseteq AllThreads
  BY DEF Takers, Posters
<1> QED
  BY <1>1, FiniteThreads, FS_Subset, FS_CardinalityType

(* One more thread of a finite set counts for one more.                    *)
LEMMA OneMore ==
  ASSUME NEW S, IsFiniteSet(S), NEW x, x \notin S
  PROVE  Cardinality(S \cup {x}) = Cardinality(S) + 1
BY FS_AddElement

(* One thread less counts for one less.                                    *)
LEMMA OneLess ==
  ASSUME NEW S, IsFiniteSet(S), NEW x \in S
  PROVE  Cardinality(S \ {x}) = Cardinality(S) - 1
BY FS_RemoveElement

(* A larger set of threads counts for no less.                             *)
LEMMA MoreIsMore ==
  ASSUME NEW S, NEW T, IsFiniteSet(T), S \subseteq T
  PROVE  Cardinality(S) <= Cardinality(T)
BY FS_Subset

(* Every step either leaves tasks and takers alone or moves both.          *)
LEMMA ItemsStep == Shape /\ ItemsHaveTakers /\ [Next]_vars => ItemsHaveTakers'
<1> SUFFICES ASSUME Shape, ItemsHaveTakers, Next PROVE ItemsHaveTakers'
  BY DEF ItemsHaveTakers, Takers, vars, lines, control
<1> USE DEF Shape, TypeOK, control, lines
(* The steps that leave the queue alone and do not end a wait for a mutex. *)
<1>1. ASSUME queue' = queue, notEmpty' \subseteq notEmpty, Takers \subseteq Takers' PROVE ItemsHaveTakers'
  <2>1. IsFiniteSet(Takers')
    <3>1. Takers' \subseteq AllThreads
      BY DEF Takers
    <3> QED
      BY <3>1, FiniteThreads, FS_Subset
  <2>2. Cardinality(Takers) <= Cardinality(Takers') /\ Cardinality(Takers') \in Nat
    BY <1>1, <2>1, MoreIsMore, FS_CardinalityType
  <2> QED
    BY <1>1, <2>2, TakersFinite DEF ItemsHaveTakers
<1>2. ASSUME NEW th \in AllThreads, NEW to \in {"idle", "loop", "exec", "post", "exited"},
             pc[th] # "take", pc' = [pc EXCEPT ![th] = to], notEmpty' = notEmpty
      PROVE  Takers' = Takers
  BY <1>2 DEF Takers
<1>3. ASSUME NEW th \in AllThreads, Call(th) \/ WaitNotFull(th) \/ Return(th) \/ SpuriousWake(th)
      PROVE ItemsHaveTakers'
  <2>1. CASE \E t \in Tasks : RunInCaller(th, t) \/ RunInPool(th, t)
    BY <2>1, <1>1, <1>2 DEF RunInCaller, RunInPool, MayCallRun
  <2>2. CASE Return(th)
    BY <2>2, <1>1, <1>2, ResumeExec DEF Return
  <2>3. CASE WaitNotFull(th) \/ SpuriousWake(th)
    BY <2>3, <1>1 DEF WaitNotFull, SpuriousWake, Takers
  <2> QED
    BY <1>3, <2>1, <2>2, <2>3 DEF Call
<1>4. ASSUME NEW th \in AllThreads, Push(th) PROVE ItemsHaveTakers'
  <2> SUFFICES ASSUME notEmpty' # {} PROVE Len(queue') <= Cardinality(Takers')
    BY DEF ItemsHaveTakers
  <2>1. PICK w \in notEmpty : notEmpty' = notEmpty \ {w}
    BY <1>4 DEF Push, NotifyOne
  <2>2. pc[w] = "take" /\ w \in Workers
    BY <2>1 DEF Asleep
  <2>3. Takers' = Takers \cup {w} /\ w \notin Takers
    BY <1>4, <2>1, <2>2, ResumeExec DEF Push, Takers
  <2>4. Cardinality(Takers') = Cardinality(Takers) + 1
    BY <2>3, OneMore, TakersFinite
  <2>5. Len(queue') = Len(queue) + 1
    BY <1>4 DEF Push, PushBack, CallShape
  <2> QED
    BY <2>1, <2>4, <2>5, TakersFinite DEF ItemsHaveTakers
<1>5. ASSUME NEW w \in Workers, Take(w) PROVE ItemsHaveTakers'
  <2>1. Takers' = Takers \ {w} /\ w \in Takers
    BY <1>5 DEF Take, Takers
  <2>2. Cardinality(Takers') = Cardinality(Takers) - 1
    BY <2>1, OneLess, TakersFinite
  <2>3. Len(queue') = Len(queue) - 1 /\ notEmpty' = notEmpty
    BY <1>5 DEF Take
  <2> QED
    BY <2>2, <2>3, TakersFinite DEF ItemsHaveTakers
<1>6. ASSUME queue = <<>>, queue' = queue PROVE ItemsHaveTakers'
  <2>1. IsFiniteSet(Takers')
    <3>1. Takers' \subseteq AllThreads
      BY DEF Takers
    <3> QED
      BY <3>1, FiniteThreads, FS_Subset
  <2> QED
    BY <1>6, <2>1, FS_CardinalityType DEF ItemsHaveTakers
<1>7. ASSUME NEW w \in Workers, WaitNotEmpty(w) \/ TakeNothing(w) PROVE ItemsHaveTakers'
  BY <1>6, <1>7 DEF WaitNotEmpty, TakeNothing
<1>8. ASSUME NEW w \in Workers, CheckRunning(w) \/ StartThread(w) PROVE ItemsHaveTakers'
  BY <1>1, <1>8 DEF CheckRunning, StartThread, Takers, Unborn
<1>9. ASSUME NEW caller, StopAs(caller) PROVE ItemsHaveTakers'
  BY <1>9 DEF StopAs, NotifyAll, ItemsHaveTakers
<1>10. ASSUME UNCHANGED <<lines, control>> PROVE ItemsHaveTakers'
  BY <1>10, <1>1 DEF Takers
<1> QED
  <2>1. CASE \E w \in Workers : PushThread(w) \/ Abort(w)
    BY <2>1, <1>10 DEF PushThread, Abort
  <2>2. CASE \/ \E n \in QueueSizes : SetMaxQueueSize(n)
             \/ \E n \in StartSizes : Start(n)
    BY <2>2, <1>10 DEF SetMaxQueueSize, Start
  <2>3. CASE StartReturn \/ JoinThread \/ JoinThrows \/ StopReturn
    BY <2>3, <1>10 DEF StartReturn, JoinThread, JoinThrows, StopReturn
  <2>4. CASE Stop \/ Destroy
    BY <2>4, <1>9, <1>10 DEF Stop, Destroy
  <2> QED
    BY <1>3, <1>4, <1>5, <1>7, <1>8, <2>1, <2>2, <2>3, <2>4
       DEF Next, Proceed, Work, OwnerProceeds, OwnerCalls

(* However many clients, workers and tasks there are, notify_one() per     *)
(* push_back() is enough: a worker sleeps on notEmpty_ only while every    *)
(* queued task has an awake worker of its own.                             *)
THEOREM NoLostNotEmpty == Spec => []ItemsHaveTakers
<1>1. Init => ItemsHaveTakers
  BY DEF Init, ItemsHaveTakers
<1> QED
  BY <1>1, ShapeInvariant, ItemsStep, PTL DEF Spec

-----------------------------------------------------------------------------
(* Every step either leaves places and posters alone or moves both.        *)
LEMMA SpaceStep == Shape /\ SpaceHasPosters /\ [Next]_vars => SpaceHasPosters'
<1> SUFFICES ASSUME Shape, SpaceHasPosters, Next PROVE SpaceHasPosters'
  BY DEF SpaceHasPosters, Posters, vars, members, lines, control
<1> USE DEF Shape, TypeOK, control, lines
<1>0. IsFiniteSet(Posters') /\ Cardinality(Posters') \in Nat
  <2>1. Posters' \subseteq AllThreads
    BY DEF Posters
  <2> QED
    BY <2>1, FiniteThreads, FS_Subset, FS_CardinalityType
<1>1. ASSUME queue' = queue, maxQueueSize' = maxQueueSize, notFull' \subseteq notFull,
             Posters \subseteq Posters'
      PROVE  SpaceHasPosters'
  <2>1. Cardinality(Posters) <= Cardinality(Posters')
    BY <1>0, <1>1, MoreIsMore
  <2> QED
    BY <1>0, <1>1, <2>1, TakersFinite DEF SpaceHasPosters
<1>2. ASSUME NEW th \in AllThreads, NEW to \in {"idle", "loop", "take", "exec", "post", "exited"},
             pc[th] # "post", pc' = [pc EXCEPT ![th] = to], notFull' = notFull
      PROVE  Posters \subseteq Posters'
  BY <1>2 DEF Posters
<1>3. ASSUME NEW th \in AllThreads, Call(th) \/ Return(th) \/ SpuriousWake(th)
      PROVE SpaceHasPosters'
  <2>1. CASE \E t \in Tasks : RunInCaller(th, t) \/ RunInPool(th, t)
    BY <2>1, <1>1, <1>2 DEF RunInCaller, RunInPool, MayCallRun, members
  <2>2. CASE Return(th)
    BY <2>2, <1>1, <1>2, ResumeExec DEF Return, members
  <2>3. CASE SpuriousWake(th)
    BY <2>3, <1>1 DEF SpuriousWake, Posters, members
  <2> QED
    BY <1>3, <2>1, <2>2, <2>3 DEF Call
<1>4. ASSUME NEW th \in AllThreads, WaitNotFull(th) PROVE SpaceHasPosters'
  BY <1>0, <1>4 DEF WaitNotFull, isFull, members, SpaceHasPosters
<1>5. ASSUME NEW th \in AllThreads, Push(th) PROVE SpaceHasPosters'
  <2>1. Posters' = Posters \ {th} /\ th \in Posters
    BY <1>5, ResumeExec DEF Push, Posters
  <2>2. Cardinality(Posters') = Cardinality(Posters) - 1
    BY <2>1, OneLess, TakersFinite
  <2>3. Len(queue') = Len(queue) + 1
    BY <1>5 DEF Push, PushBack, CallShape
  <2>4. notFull' = notFull /\ maxQueueSize' = maxQueueSize
    BY <1>5 DEF Push, members
  <2> QED
    BY <2>2, <2>3, <2>4, TakersFinite DEF SpaceHasPosters
<1>6. ASSUME NEW w \in Workers, Take(w) PROVE SpaceHasPosters'
  <2> SUFFICES ASSUME notFull' # {}
               PROVE  Len(queue') + Cardinality(Posters') >= maxQueueSize'
    BY DEF SpaceHasPosters
  <2>1. Len(queue') = Len(queue) - 1 /\ Len(queue') \in Nat /\ maxQueueSize' = maxQueueSize
    BY <1>6 DEF Take, members
  <2>2. CASE maxQueueSize = 0
    BY <1>0, <2>1, <2>2
  <2>3. CASE maxQueueSize > 0
    <3>1. PICK th \in notFull : notFull' = notFull \ {th}
      BY <1>6, <2>3 DEF Take, NotifyOne
    <3>2. pc[th] = "post" /\ th # w
      BY <1>6, <3>1 DEF Take, Asleep
    <3>3. Posters' = Posters \cup {th} /\ th \notin Posters
      BY <1>6, <3>1, <3>2 DEF Take, Posters
    <3>4. Cardinality(Posters') = Cardinality(Posters) + 1
      BY <3>3, OneMore, TakersFinite
    <3> QED
      BY <2>1, <3>1, <3>4, TakersFinite DEF SpaceHasPosters
  <2> QED
    BY <2>2, <2>3
<1>7. ASSUME NEW w \in Workers, CheckRunning(w) \/ TakeNothing(w) \/ StartThread(w)
      PROVE SpaceHasPosters'
  BY <1>1, <1>2, <1>7 DEF CheckRunning, TakeNothing, StartThread, Unborn, members
<1>8. ASSUME UNCHANGED <<maxQueueSize, queue, notFull, control>> PROVE SpaceHasPosters'
  BY <1>8, <1>1 DEF Posters
<1>9. ASSUME NEW n \in QueueSizes, SetMaxQueueSize(n) PROVE SpaceHasPosters'
  BY <1>9 DEF SetMaxQueueSize, SpaceHasPosters, Asleep
<1> QED
  <2>1. CASE \E w \in Workers : PushThread(w) \/ Abort(w) \/ WaitNotEmpty(w)
    BY <2>1, <1>8 DEF PushThread, Abort, WaitNotEmpty, members
  <2>2. CASE \E n \in StartSizes : Start(n)
    BY <2>2, <1>8 DEF Start
  <2>3. CASE StartReturn \/ JoinThread \/ JoinThrows \/ StopReturn
    BY <2>3, <1>8 DEF StartReturn, JoinThread, JoinThrows, StopReturn, members
  <2>4. CASE Stop \/ Destroy
    BY <2>4, <1>8 DEF Stop, Destroy, StopAs, members
  <2> QED
    BY <1>3, <1>4, <1>5, <1>6, <1>7, <1>9, <2>1, <2>2, <2>3, <2>4
       DEF Next, Proceed, Work, OwnerProceeds, OwnerCalls

(* However many callers of run() wait for space, notify_one() per          *)
(* pop_front() is enough: a caller sleeps on notFull_ only while every     *)
(* free place has an awake caller of its own.                              *)
THEOREM NoLostNotFull == Spec => []SpaceHasPosters
<1>1. Init => SpaceHasPosters
  BY DEF Init, SpaceHasPosters
<1> QED
  BY <1>1, ShapeInvariant, SpaceStep, PTL DEF Spec

-----------------------------------------------------------------------------
(* A worker that took a task after stop() executes it, and then finds      *)
(* running_ cleared: it does not come back to take().                      *)
LastTask ==
  \A w \in Workers :
    \/ late[w] = 0
    \/ late[w] = 1 /\ ~running /\ pc[w] \in {"exec", "post", "loop", "exited"}

(* No step lets a worker that took its last task take another.             *)
LEMMA LastTaskStep == Shape /\ LastTask /\ [Next]_vars => LastTask'
<1> SUFFICES ASSUME Shape, LastTask, Next PROVE LastTask'
  BY DEF LastTask, vars, members, control, history
<1> USE DEF Shape, TypeOK, control, members, history
<1>1. ASSUME UNCHANGED <<pc, late>>, running' = running \/ running' = FALSE PROVE LastTask'
  BY <1>1 DEF LastTask
<1>2. ASSUME NEW th \in AllThreads, NEW to \in {"idle", "exec", "post", "loop", "exited"},
             pc' = [pc EXCEPT ![th] = to], pc[th] \in {"idle", "exec", "post", "loop", "exited"},
             th \in Workers => to # "idle", UNCHANGED <<running, late>>
      PROVE  LastTask'
  BY <1>2 DEF LastTask
<1>3. ASSUME NEW th \in AllThreads, NEW frames
      PROVE  th \in Workers => Resume(th, frames) # "idle"
  BY DEF Resume
<1>4. ASSUME NEW th \in AllThreads, Call(th) \/ Proceed(th) \/ SpuriousWake(th) PROVE LastTask'
  <2>1. CASE \E t \in Tasks : RunInCaller(th, t) \/ RunInPool(th, t)
    BY <2>1, <1>2 DEF RunInCaller, RunInPool, MayCallRun
  <2>2. CASE Push(th)
    BY <2>2, <1>2, <1>3, ResumeExec DEF Push
  <2>3. CASE Return(th)
    BY <2>3, <1>2, <1>3, ResumeExec DEF Return
  <2>4. CASE WaitNotFull(th) \/ SpuriousWake(th)
    BY <2>4, <1>1 DEF WaitNotFull, SpuriousWake
  <2> QED
    BY <1>4, <2>1, <2>2, <2>3, <2>4 DEF Call, Proceed
<1>5. ASSUME NEW w \in Workers, CheckRunning(w) PROVE LastTask'
  BY <1>5 DEF CheckRunning, LastTask
<1>6. ASSUME NEW w \in Workers, Take(w) PROVE LastTask'
  BY <1>6 DEF Take, LastTask
<1>7. ASSUME NEW w \in Workers, TakeNothing(w) PROVE LastTask'
  BY <1>7 DEF TakeNothing, LastTask
<1>8. ASSUME NEW w \in Workers, StartThread(w) PROVE LastTask'
  BY <1>8 DEF StartThread, Unborn, LastTask
<1>9. ASSUME NEW n \in StartSizes, Start(n) PROVE LastTask'
  BY <1>9 DEF Start, LastTask
<1> QED
  <2>1. CASE \E w \in Workers : PushThread(w) \/ Abort(w) \/ WaitNotEmpty(w)
    BY <2>1, <1>1 DEF PushThread, Abort, WaitNotEmpty
  <2>2. CASE \E n \in QueueSizes : SetMaxQueueSize(n)
    BY <2>2, <1>1 DEF SetMaxQueueSize
  <2>3. CASE StartReturn \/ JoinThread \/ JoinThrows \/ StopReturn
    BY <2>3, <1>1 DEF StartReturn, JoinThread, JoinThrows, StopReturn
  <2>4. CASE Stop \/ Destroy
    BY <2>4, <1>1 DEF Stop, Destroy, StopAs
  <2> QED
    BY <1>4, <1>5, <1>6, <1>7, <1>8, <1>9, <2>1, <2>2, <2>3, <2>4
       DEF Next, Work, OwnerProceeds, OwnerCalls

(* stop() cuts the queue off, for any number of workers and tasks: each    *)
(* worker takes at most one task after running_ was cleared.               *)
THEOREM StopCutsOff == Spec => []OneTaskAfterStop
<1>1. Init => LastTask
  BY DEF Init, LastTask
<1>2. LastTask => OneTaskAfterStop
  BY DEF LastTask, OneTaskAfterStop
<1> QED
  BY <1>1, <1>2, ShapeInvariant, LastTaskStep, PTL DEF Spec
-----------------------------------------------------------------------------
(* The threads stop() has joined in its loop.                              *)
JoinedSoFar == {threads[i] : i \in {k \in DOMAIN threads : k < joinAt}}

(* A pool that is not started again joins every thread it lists, once, and *)
(* has joined them all when stop() is through; until the first stop() none *)
(* is joined.                                                              *)
Teardown ==
  /\ IsInjective(threads)
  /\ joined \subseteq Range(threads) /\ \A w \in joined : pc[w] = "exited"
  /\ running => joined = {}
  /\ Joining => ~running
  /\ owner = "starting" => running
  /\ owner = "destroyed" => ~running
  /\ owner # "dead"
  /\ (owner \in {"idle", "destroyed"} /\ ~running) => Range(threads) \subseteq joined
  /\ Joining => \/ joined = JoinedSoFar
                \/ owner = "stopping" /\ Range(threads) \subseteq joined

LEMMA TeardownInit == Init => Teardown
<1> SUFFICES ASSUME Init PROVE Teardown
  OBVIOUS
<1>1. threads = <<>> /\ DOMAIN threads = {} /\ Range(threads) = {}
  BY DEF Init, Range
<1> QED
  BY <1>1 DEF Init, Teardown, Joining, IsInjective

(* The calls and the work of the threads: a joined worker makes no step.   *)
LEMMA ThreadsKeepTeardown ==
  ASSUME Shape, Teardown, UNCHANGED <<members, ownerVars>>,
         NEW th \in AllThreads, pc[th] # "exited",
         UNCHANGED pc \/ \E there : pc' = [pc EXCEPT ![th] = there]
  PROVE  Teardown'
BY DEF Shape, TypeOK, Teardown, members, ownerVars, Joining, JoinedSoFar

LEMMA TeardownStep ==
  ASSUME ~Restart, Throwing = {}, Shape, Teardown, Next
  PROVE  Teardown'
<1> USE NetThreadPoolAssumption DEF ThreadsAssumption
<1>1. ASSUME NEW th \in AllThreads, Call(th) \/ Proceed(th) \/ SpuriousWake(th) PROVE Teardown'
  <2>1. CASE Call(th)
    BY <2>1, ThreadsKeepTeardown DEF Call, RunInCaller, RunInPool, MayCallRun
  <2>2. CASE WaitNotFull(th)
    BY <2>2, ThreadsKeepTeardown DEF WaitNotFull, control
  <2>3. CASE Push(th)
    BY <2>3, ThreadsKeepTeardown DEF Push
  <2>4. CASE Return(th)
    BY <2>4, ThreadsKeepTeardown DEF Return
  <2>5. CASE SpuriousWake(th)
    BY <2>5, ThreadsKeepTeardown DEF SpuriousWake, control, Shape, Asleep
  <2> QED
    BY <1>1, <2>1, <2>2, <2>3, <2>4, <2>5 DEF Proceed
<1>2. ASSUME NEW w \in Workers, Work(w) PROVE Teardown'
  BY <1>2, ThreadsKeepTeardown
  DEF Work, CheckRunning, WaitNotEmpty, Take, TakeNothing, control
<1>3. ASSUME NEW w \in Workers, Abort(w) PROVE Teardown'
  BY <1>3 DEF Abort
<1> USE DEF Shape, TypeOK, Teardown, members, lines, control, ownerVars, Joining, JoinedSoFar
<1>4. ASSUME NEW n \in QueueSizes, SetMaxQueueSize(n) PROVE Teardown'
  BY <1>4 DEF SetMaxQueueSize
<1>5. ASSUME NEW n \in StartSizes, Start(n) PROVE Teardown'
  BY <1>5 DEF Start
<1>6. CASE Stop
  <2>1. JoinedSoFar' = {}
    BY <1>6 DEF Stop, StopAs
  <2> QED
    BY <1>6, <2>1 DEF Stop, StopAs
<1>7. CASE Destroy
  <2>1. CASE running
    <3>1. JoinedSoFar' = {}
      BY <1>7, <2>1 DEF Destroy, StopAs
    <3> QED
      BY <1>7, <2>1, <3>1 DEF Destroy, StopAs
  <2>2. CASE ~running
    BY <1>7, <2>2 DEF Destroy
  <2> QED
    BY <2>1, <2>2
<1>8. ASSUME NEW w \in Workers, StartThread(w) PROVE Teardown'
  BY <1>8 DEF StartThread, Unborn
<1>9. ASSUME NEW w \in Workers, PushThread(w) PROVE Teardown'
  <2>1. /\ IsInjective(threads') /\ Range(threads') = Range(threads) \cup {w}
    BY <1>9, AppendRange DEF PushThread, Unlisted
  <2> QED
    BY <1>9, <2>1 DEF PushThread
<1>10. CASE StartReturn
  BY <1>10 DEF StartReturn
<1>11. Joining => joinAt \in Nat /\ joinAt >= 1 /\ DOMAIN threads = 1..Len(threads)
  OBVIOUS
<1>12. CASE JoinThread
  <2>1. joinAt \in DOMAIN threads /\ joinAt' = joinAt + 1 /\ joined' = joined \cup {threads[joinAt]}
    BY <1>11, <1>12 DEF JoinThread
  <2>2. \A k \in DOMAIN threads : k < joinAt + 1 <=> k < joinAt \/ k = joinAt
    BY <1>11
  <2>3. JoinedSoFar' = JoinedSoFar \cup {threads[joinAt]}
    BY <1>12, <2>1, <2>2 DEF JoinThread
  <2>4. threads[joinAt] \in Range(threads) /\ threads[joinAt] \notin joined
    BY <1>12, <2>1 DEF Range, JoinThread
  <2> QED
    BY <1>12, <2>1, <2>3, <2>4 DEF JoinThread
<1>13. CASE JoinThrows
  <2>1. joinAt \in DOMAIN threads /\ threads[joinAt] \in joined
    BY <1>11, <1>13 DEF JoinThrows
  <2>2. threads[joinAt] \notin JoinedSoFar
    BY <1>11, <2>1 DEF IsInjective
  <2>3. owner = "stopping" /\ Range(threads) \subseteq joined
    BY <1>13, <2>1, <2>2 DEF JoinThrows
  <2> QED
    BY <1>13, <2>3 DEF JoinThrows
<1>14. CASE StopReturn
  <2>1. JoinedSoFar = Range(threads)
    BY <1>11, <1>14 DEF StopReturn, Range
  <2> QED
    BY <1>14, <2>1 DEF StopReturn
<1> QED
  BY <1>1, <1>2, <1>3, <1>4, <1>5, <1>6, <1>7, <1>8, <1>9, <1>10, <1>12, <1>13, <1>14
  DEF Next, OwnerProceeds, OwnerCalls

(* A pool that is not started again after stop() is torn down without a    *)
(* second join and leaves no worker behind.                                *)
THEOREM TornDown == Spec => []TeardownSafe
<1> DEFINE Calm == ~Restart /\ Throwing = {}
<1>1. Init => (Calm => Teardown)
  BY TeardownInit
<1>2. Shape /\ (Calm => Teardown) /\ [Next]_vars => (Calm => Teardown)'
  <2> SUFFICES ASSUME Shape, Calm, Teardown, [Next]_vars PROVE Teardown'
    OBVIOUS
  <2>1. CASE UNCHANGED vars
    BY <2>1 DEF vars, members, lines, control, ownerVars, Teardown, Joining, JoinedSoFar
  <2> QED
    BY <2>1, TeardownStep
<1>3. Shape /\ (Calm => Teardown) => TeardownSafe
  <2> SUFFICES ASSUME Shape, Calm, Teardown PROVE TeardownSafe
    BY DEF TeardownSafe
  <2>1. ASSUME owner = "destroyed", NEW w \in Workers, pc[w] # "unborn" PROVE pc[w] = "exited"
    <3>1. Unlisted = {}
      BY <2>1 DEF Shape, Listing
    <3>2. w \in Range(threads)
      BY <2>1, <3>1 DEF Unlisted, Unborn
    <3> QED
      BY <2>1, <3>2 DEF Teardown
  <2> QED
    BY <2>1 DEF TeardownSafe, Teardown
<1> HIDE DEF Calm
<1> QED
  BY ShapeInvariant, <1>1, <1>2, <1>3, PTL DEF Spec
-----------------------------------------------------------------------------
(* A task is at one place: handed over by one caller, once in the queue,   *)
(* or inside one body; and a thread outside of any body has none on its    *)
(* stack.                                                                  *)
Once ==
  /\ \A th \in AllThreads : pc[th] \notin {"exec", "post"} => stack[th] = <<>>
  /\ IsInjective(queue) /\ Range(queue) \cap InCall = {}
  /\ \A th \in AllThreads : IsInjective(stack[th])
  /\ \A th, u \in AllThreads : th # u => Range(stack[th]) \cap Range(stack[u]) = {}
  /\ \A th \in AllThreads : arg[th] # Null => arg[th] \notin Range(queue) \cup InCall \cup finished
  /\ \A th, u \in AllThreads : th # u /\ arg[th] # Null => arg[th] # arg[u]

LEMMA OnceInit == Init => Once
<1> SUFFICES ASSUME Init PROVE Once
  OBVIOUS
<1>1. Range(<<>>) = {} /\ IsInjective(<<>>)
  BY DEF Range, IsInjective
<1> QED
  BY <1>1 DEF Init, Once, InCall

(* What happens to the set of running tasks when one stack changes.        *)
LEMMA OneStack ==
  ASSUME Shape, NEW th \in AllThreads, NEW s, stack' = [stack EXCEPT ![th] = s]
  PROVE  /\ stack'[th] = s /\ \A u \in AllThreads \ {th} : stack'[u] = stack[u]
         /\ \A x : x \in InCall' <=>
              x \in Range(s) \/ \E u \in AllThreads \ {th} : x \in Range(stack[u])
<1>1. stack'[th] = s /\ \A u \in AllThreads \ {th} : stack'[u] = stack[u]
  BY DEF Shape, TypeOK
<1>2. \A x : x \in InCall' <=> \E u \in AllThreads : x \in Range(stack'[u])
  BY DEF InCall
<1>3. \A x : (\E u \in AllThreads : x \in Range(stack'[u])) <=>
              x \in Range(s) \/ \E u \in AllThreads \ {th} : x \in Range(stack[u])
  BY <1>1
<1> QED
  BY <1>1, <1>2, <1>3

LEMMA InCallIs == \A x : x \in InCall <=> \E u \in AllThreads : x \in Range(stack[u])
BY DEF InCall

(* The steps that move a task, each a step of FifoExecutor.                *)
LEMMA CallerStep ==
  ASSUME Shape, Once, NEW th \in AllThreads, NEW t \in Tasks, RunInCaller(th, t)
  PROVE  Once' /\ Fifo!RunInCaller(t)
<1>1. /\ t \notin Range(queue) /\ t \notin InCall /\ t \notin finished
      /\ \A u \in AllThreads : arg[u] # t
  BY DEF RunInCaller, Fresh, Range, Shape, TypeOK
<1>2. /\ stack' = [stack EXCEPT ![th] = <<t>> \o stack[th]]
      /\ pc' = [pc EXCEPT ![th] = "exec"] /\ UNCHANGED <<queue, arg, finished>>
  BY DEF RunInCaller, lines, history, Shape, TypeOK
<1>3. /\ Range(<<t>> \o stack[th]) = {t} \cup Range(stack[th])
      /\ IsInjective(<<t>> \o stack[th])
  BY <1>1, InCallIs, PrependRange DEF Shape, TypeOK, Once
<1>4. InCall' = InCall \cup {t}
  BY <1>2, <1>3, OneStack, InCallIs
<1>5. \A u \in AllThreads \ {th} : stack'[u] = stack[u] /\ pc'[u] = pc[u]
  BY <1>2 DEF Shape, TypeOK
<1>6. stack'[th] = <<t>> \o stack[th] /\ pc'[th] = "exec"
  BY <1>2 DEF Shape, TypeOK
<1>7. \A u \in AllThreads \ {th} :
        t \notin Range(stack[u]) /\ Range(stack[th]) \cap Range(stack[u]) = {}
  BY <1>1, InCallIs DEF Once
<1>8. \A u, v \in AllThreads : u # v => Range(stack'[u]) \cap Range(stack'[v]) = {}
  <2>1. \A x \in AllThreads \ {th} : Range(stack'[th]) \cap Range(stack'[x]) = {}
    BY <1>3, <1>5, <1>6, <1>7
  <2>2. \A x, y \in AllThreads \ {th} : x # y => Range(stack'[x]) \cap Range(stack'[y]) = {}
    BY <1>5 DEF Once
  <2> QED
    BY <2>1, <2>2
<1>9. Once'
  BY <1>1, <1>2, <1>3, <1>4, <1>5, <1>6, <1>8 DEF Once
<1> QED
  BY <1>1, <1>2, <1>4, <1>9 DEF Fifo!RunInCaller, Fifo!Fresh, Range, Fifo!Range

LEMMA TakeStep ==
  ASSUME Shape, Once, NEW w \in Workers, Take(w)
  PROVE  Once' /\ Fifo!Begin
<1> DEFINE t == Head(queue)
<1>1. /\ queue # <<>> /\ queue' = Tail(queue) /\ stack[w] = <<>>
      /\ stack' = [stack EXCEPT ![w] = <<t>>] /\ pc' = [pc EXCEPT ![w] = "exec"]
      /\ UNCHANGED <<arg, finished>>
  BY DEF Take, Once
<1>2. /\ t \in Range(queue) /\ Range(queue') = Range(queue) \ {t} /\ IsInjective(queue')
  BY <1>1, TailRange DEF Shape, TypeOK, Once
<1>3. Range(<<t>>) = {t} /\ IsInjective(<<t>>) /\ Range(<<>>) = {}
  BY DEF Range, IsInjective
<1> HIDE DEF t
<1>4. InCall' = InCall \cup {t}
  BY <1>1, <1>3, OneStack, InCallIs
<1>5. \A u \in AllThreads \ {w} : stack'[u] = stack[u] /\ pc'[u] = pc[u]
  BY <1>1 DEF Shape, TypeOK
<1>6. stack'[w] = <<t>> /\ pc'[w] = "exec"
  BY <1>1 DEF Shape, TypeOK
<1>7. \A u \in AllThreads : t \notin Range(stack[u])
  BY <1>2, InCallIs DEF Once
<1>8. \A u, v \in AllThreads : u # v => Range(stack'[u]) \cap Range(stack'[v]) = {}
  <2> TAKE u, v \in AllThreads
  <2>1. CASE u = w
    BY <1>3, <1>5, <1>6, <1>7, <2>1 DEF Once
  <2>2. CASE v = w
    BY <1>3, <1>5, <1>6, <1>7, <2>2 DEF Once
  <2>3. CASE u # w /\ v # w
    BY <1>5, <2>3 DEF Once
  <2> QED
    BY <2>1, <2>2, <2>3
<1>9. Once'
  BY <1>1, <1>2, <1>3, <1>4, <1>5, <1>6, <1>8 DEF Once
<1> QED
  BY <1>1, <1>4, <1>9 DEF Fifo!Begin, t

LEMMA ReturnStep ==
  ASSUME Shape, Once, NEW th \in AllThreads, Return(th)
  PROVE  Once' /\ Fifo!End(Head(stack[th])) /\ Head(stack[th]) \in Tasks
<1> DEFINE t == Head(stack[th])
<1> DEFINE s == Tail(stack[th])
<1>1. /\ pc[th] = "exec" /\ stack[th] # <<>> /\ stack[th] \in Seq(Tasks)
      /\ stack' = [stack EXCEPT ![th] = s] /\ pc' = [pc EXCEPT ![th] = Resume(th, stack'[th])]
      /\ finished' = finished \cup {t} /\ UNCHANGED <<queue, arg>>
  BY DEF Return, lines, Shape, CallShape, TypeOK
<1>2. /\ t \in Range(stack[th]) /\ t \in Tasks /\ Range(s) = Range(stack[th]) \ {t}
      /\ IsInjective(s)
  BY <1>1, TailRange DEF Once
<1> HIDE DEF t, s
<1>3. \A u \in AllThreads \ {th} :
        t \notin Range(stack[u]) /\ Range(stack[th]) \cap Range(stack[u]) = {}
  BY <1>2 DEF Once
<1>4. InCall' = InCall \ {t} /\ t \in InCall
  <2>1. \A x : x \in InCall' <=>
          x \in Range(s) \/ \E u \in AllThreads \ {th} : x \in Range(stack[u])
    BY <1>1, OneStack
  <2>2. \A x : x \in InCall <=>
          x \in Range(stack[th]) \/ \E u \in AllThreads \ {th} : x \in Range(stack[u])
    BY InCallIs
  <2> QED
    BY <1>2, <1>3, <2>1, <2>2
<1>5. \A u \in AllThreads \ {th} : stack'[u] = stack[u] /\ pc'[u] = pc[u]
  BY <1>1 DEF Shape, TypeOK
<1>6. stack'[th] = s /\ (pc'[th] # "exec" => s = <<>>)
  BY <1>1, ResumeExec DEF Shape, TypeOK
<1>7. \A u, v \in AllThreads : u # v => Range(stack'[u]) \cap Range(stack'[v]) = {}
  BY <1>2, <1>3, <1>5, <1>6 DEF Once
<1>8. \A u \in AllThreads : arg[u] # Null => arg[u] # t
  BY <1>4 DEF Once
<1>9. Once'
  BY <1>1, <1>2, <1>4, <1>5, <1>6, <1>7, <1>8 DEF Once
<1> QED
  BY <1>1, <1>2, <1>4, <1>9 DEF Fifo!End, t

LEMMA PushStep ==
  ASSUME Shape, Once, NEW th \in AllThreads, Push(th)
  PROVE  Once' /\ Fifo!Accept(arg[th]) /\ arg[th] \in Tasks
<1> DEFINE t == arg[th]
<1>1. /\ t \in Tasks /\ t # Null /\ queue' = Append(queue, t)
      /\ arg' = [arg EXCEPT ![th] = Null]
      /\ pc' = [pc EXCEPT ![th] = Resume(th, stack[th])] /\ UNCHANGED <<stack, finished>>
  BY NetThreadPoolAssumption DEF Push, PushBack, history, Shape, CallShape, ThreadsAssumption
<1>2. t \notin Range(queue) /\ t \notin InCall /\ t \notin finished
  BY <1>1 DEF Once
<1>3. Range(queue') = Range(queue) \cup {t} /\ IsInjective(queue')
  BY <1>1, <1>2, AppendRange DEF Shape, TypeOK, Once
<1>4. /\ arg'[th] = Null /\ pc'[th] = Resume(th, stack[th])
      /\ \A u \in AllThreads \ {th} : arg'[u] = arg[u] /\ pc'[u] = pc[u]
  BY <1>1 DEF Shape, TypeOK
<1>5. \A u \in AllThreads \ {th} : arg[u] # t
  BY <1>1 DEF Once
<1> HIDE DEF t
<1>6. pc'[th] # "exec" => stack[th] = <<>>
  BY <1>4, ResumeExec
<1>7. InCall' = InCall
  BY <1>1 DEF InCall
<1>8. Once'
  <2>1. \A u \in AllThreads : pc'[u] \notin {"exec", "post"} => stack'[u] = <<>>
    BY <1>1, <1>4, <1>6 DEF Once
  <2>2. /\ \A u \in AllThreads : IsInjective(stack'[u])
        /\ \A u, v \in AllThreads : u # v => Range(stack'[u]) \cap Range(stack'[v]) = {}
    BY <1>1 DEF Once
  <2>3. Range(queue') \cap InCall' = {}
    BY <1>2, <1>3, <1>7 DEF Once
  <2>4. \A u \in AllThreads : arg'[u] # Null => u # th /\ arg'[u] = arg[u]
    BY <1>4
  <2>5. \A u \in AllThreads : arg'[u] # Null => arg'[u] \notin Range(queue') \cup InCall' \cup finished'
    BY <1>1, <1>3, <1>5, <1>7, <2>4 DEF Once
  <2>6. \A u, v \in AllThreads : u # v /\ arg'[u] # Null => arg'[u] # arg'[v]
    BY <1>4, <2>4 DEF Once
  <2> QED
    BY <1>3, <2>1, <2>2, <2>3, <2>5, <2>6 DEF Once
<1> QED
  BY <1>1, <1>2, <1>7, <1>8 DEF Fifo!Accept, Fifo!Fresh, Range, Fifo!Range, t

LEMMA HandOverStep ==
  ASSUME Shape, Once, NEW th \in AllThreads, NEW t \in Tasks, RunInPool(th, t)
  PROVE  Once' /\ UNCHANGED <<queue, InCall, finished>>
<1>1. /\ t \notin Range(queue) /\ t \notin InCall /\ t \notin finished
      /\ \A u \in AllThreads : arg[u] # t
  BY DEF RunInPool, Fresh, Range, Shape, TypeOK
<1>2. /\ arg'[th] = t /\ pc'[th] = "post" /\ UNCHANGED <<queue, stack, finished>>
      /\ \A u \in AllThreads \ {th} : arg'[u] = arg[u] /\ pc'[u] = pc[u]
  BY DEF RunInPool, lines, history, Shape, TypeOK
<1>3. InCall' = InCall
  BY <1>2 DEF InCall
<1> QED
  BY <1>1, <1>2, <1>3 DEF Once

(* All other steps move no task.                                           *)
LEMMA OtherSteps ==
  ASSUME Shape, Once, UNCHANGED <<queue, stack, arg, finished>>,
         \A th \in AllThreads : pc'[th] \notin {"exec", "post"} => pc[th] \notin {"exec", "post"}
  PROVE  Once' /\ UNCHANGED <<queue, InCall, finished>>
<1>1. InCall' = InCall
  BY DEF InCall
<1> QED
  BY <1>1 DEF Once

LEMMA FifoStep ==
  ASSUME Shape, Once, [Next]_vars
  PROVE  Once' /\ [Fifo!Next]_(Fifo!vars)
<1> DEFINE Goal == Once' /\ [Fifo!Next]_(Fifo!vars)
<1> SUFFICES Goal
  OBVIOUS
<1>1. (Once' /\ UNCHANGED <<queue, InCall, finished>>) => Goal
  BY DEF Fifo!vars
<1>2. (UNCHANGED <<queue, control, finished>>) => Goal
  BY <1>1, OtherSteps DEF control
<1>3. ASSUME NEW th \in AllThreads, Call(th) \/ Proceed(th) \/ SpuriousWake(th) PROVE Goal
  <2>1. ASSUME NEW t \in Tasks, RunInCaller(th, t) PROVE Goal
    BY <2>1, CallerStep DEF Fifo!Next
  <2>2. ASSUME NEW t \in Tasks, RunInPool(th, t) PROVE Goal
    BY <2>2, <1>1, HandOverStep
  <2>3. CASE Push(th)
    BY <2>3, PushStep DEF Fifo!Next
  <2>4. CASE Return(th)
    BY <2>4, ReturnStep DEF Fifo!Next
  <2>5. CASE WaitNotFull(th) \/ SpuriousWake(th)
    BY <2>5, <1>2 DEF WaitNotFull, SpuriousWake, history
  <2> QED
    BY <1>3, <2>1, <2>2, <2>3, <2>4, <2>5 DEF Call, Proceed
<1>4. ASSUME NEW w \in Workers, Work(w) \/ Abort(w) PROVE Goal
  <2>1. CASE Take(w)
    BY <2>1, TakeStep DEF Fifo!Next
  <2>2. CASE WaitNotEmpty(w) \/ Abort(w)
    BY <2>2, <1>2 DEF WaitNotEmpty, Abort, lines, history
  <2>3. CASE CheckRunning(w) \/ TakeNothing(w)
    <3>1. /\ pc[w] \notin {"exec", "post"} /\ UNCHANGED <<queue, stack, arg, finished>>
          /\ \A u \in AllThreads \ {w} : pc'[u] = pc[u]
      BY <2>3 DEF CheckRunning, TakeNothing, lines, history, Shape, TypeOK
    <3> QED
      BY <1>1, <3>1, OtherSteps
  <2> QED
    BY <1>4, <2>1, <2>2, <2>3 DEF Work
<1>5. ASSUME NEW w \in Workers, StartThread(w) \/ PushThread(w) PROVE Goal
  <2>1. CASE StartThread(w)
    <3>1. /\ pc[w] \notin {"exec", "post"} /\ UNCHANGED <<queue, stack, arg, finished>>
          /\ \A u \in AllThreads \ {w} : pc'[u] = pc[u]
      BY <2>1 DEF StartThread, Unborn, lines, history, Shape, TypeOK
    <3> QED
      BY <1>1, <3>1, OtherSteps
  <2> QED
    BY <1>5, <2>1, <1>2 DEF PushThread, lines, history
<1>6. CASE \/ StartReturn \/ JoinThread \/ JoinThrows \/ StopReturn
           \/ \E n \in QueueSizes : SetMaxQueueSize(n)
           \/ \E n \in StartSizes : Start(n)
  BY <1>6, <1>2
  DEF StartReturn, JoinThread, JoinThrows, StopReturn, SetMaxQueueSize, Start, lines, history
<1>7. CASE Stop \/ Destroy
  BY <1>7, <1>2 DEF Stop, Destroy, StopAs, lines, history
<1>8. CASE UNCHANGED vars
  BY <1>8, <1>2 DEF vars, lines, history
<1> HIDE DEF Goal
<1>9. CASE Next
  <2>1. CASE OwnerProceeds
    BY <1>5, <1>6, <2>1 DEF OwnerProceeds
  <2>2. CASE OwnerCalls
    BY <1>6, <1>7, <2>2 DEF OwnerCalls
  <2> QED
    BY <1>3, <1>4, <1>9, <2>1, <2>2 DEF Next
<1> QED
  BY <1>8, <1>9

(* Whatever threads and condition variables do, tasks are started once     *)
(* each and in the order run() accepted them.                              *)
THEOREM PoolIsFifo == Spec => ImplementsFifo
<1>1. Init => Fifo!Init
  BY DEF Init, Fifo!Init, InCall, Range
<1>2. Shape /\ Once /\ [Next]_vars => Once' /\ [Fifo!Next]_(Fifo!vars)
  BY FifoStep
<1> QED
  BY OnceInit, ShapeInvariant, <1>1, <1>2, PTL DEF Spec, ImplementsFifo, Fifo!Spec
=============================================================================
