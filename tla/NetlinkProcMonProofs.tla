------------------------ MODULE NetlinkProcMonProofs ------------------------
(***************************************************************************)
(* Proofs about NetlinkProcMon, for any bound of the queue, any number of  *)
(* events, registrars and ids.  Three inductive invariants: Phases, about  *)
(* the owner and the two threads, and Stream and Registered, about the     *)
(* events and the callbacks, which take from Phases that no dispatcher is  *)
(* there when one is created.                                              *)
(***************************************************************************)
EXTENDS NetlinkProcMon, Functions, TLAPS

(* Sequences of numbers in increasing order, and the sets of their members.*)

Increasing(s) == \A i, j \in 1..Len(s) : i < j => s[i] < s[j]

LEMMA RangeIs ==
  ASSUME NEW s \in Seq(Nat)
  PROVE  /\ Len(s) \in Nat /\ Range(s) \subseteq Nat
         /\ \A i \in 1..Len(s) : s[i] \in Range(s)
         /\ \A x \in Range(s) : \E i \in 1..Len(s) : x = s[i]
         /\ s = <<>> => Range(s) = {}
BY DEF Range

LEMMA EmptyIs == <<>> \in Seq(Nat) /\ Range(<<>>) = {} /\ Increasing(<<>>)
<1>1. <<>> \in Seq(Nat)
  OBVIOUS
<1>2. Range(<<>>) = {}
  BY <1>1, RangeIs
<1>3. Increasing(<<>>)
  BY DEF Increasing
<1> QED
  BY <1>1, <1>2, <1>3

LEMMA TailOfIncreasing ==
  ASSUME NEW s \in Seq(Nat), s # <<>>, Increasing(s)
  PROVE  /\ Tail(s) \in Seq(Nat) /\ Increasing(Tail(s))
         /\ Range(s) = {Head(s)} \cup Range(Tail(s))
         /\ \A x \in Range(Tail(s)) : Head(s) < x
<1> DEFINE n == Len(s)
<1> DEFINE t == Tail(s)
<1>1. /\ n \in Nat /\ n >= 1 /\ Len(t) = n - 1 /\ Head(s) = s[1] /\ t \in Seq(Nat)
      /\ \A i \in 1..Len(t) : t[i] = s[i + 1] /\ i + 1 \in 1..n /\ s[i + 1] \in Nat
  OBVIOUS
<1> HIDE DEF t
<1>2. ASSUME NEW i \in 1..Len(t), NEW j \in 1..Len(t), i < j PROVE t[i] < t[j]
  <2>1. i + 1 \in 1..n /\ j + 1 \in 1..n /\ i + 1 < j + 1
    BY <1>1, <1>2
  <2>2. s[i + 1] < s[j + 1]
    BY <2>1 DEF Increasing
  <2> QED
    BY <1>1, <2>2
<1>3. ASSUME NEW i \in 1..Len(t) PROVE s[1] < t[i] /\ t[i] \in Range(s)
  <2>1. i + 1 \in 1..n /\ 1 \in 1..n /\ 1 < i + 1
    BY <1>1
  <2>2. s[1] < s[i + 1] /\ s[i + 1] \in Range(s)
    BY <2>1, RangeIs DEF Increasing
  <2> QED
    BY <1>1, <2>2
<1>4. ASSUME NEW i \in 1..n, i # 1 PROVE s[i] \in Range(t)
  <2>1. i - 1 \in 1..Len(t) /\ t[i - 1] = s[i]
    BY <1>1, <1>4
  <2>2. \A k \in 1..Len(t) : t[k] \in Range(t)
    BY <1>1, RangeIs
  <2> QED
    BY <2>1, <2>2
<1>5. s[1] \in Range(s)
  BY <1>1, RangeIs
<1>6. \A x \in Range(t) : \E i \in 1..Len(t) : x = t[i]
  BY <1>1, RangeIs
<1>7. \A x \in Range(s) : \E i \in 1..n : x = s[i]
  BY RangeIs
<1>8. Range(s) = {s[1]} \cup Range(t)
  BY <1>3, <1>4, <1>5, <1>6, <1>7
<1>9. \A x \in Range(t) : s[1] < x
  BY <1>3, <1>6
<1>10. Increasing(t)
  BY <1>2 DEF Increasing
<1> QED
  BY <1>1, <1>8, <1>9, <1>10 DEF t

LEMMA AppendLarger ==
  ASSUME NEW s \in Seq(Nat), NEW e \in Nat
  PROVE  /\ Append(s, e) \in Seq(Nat) /\ Range(Append(s, e)) = Range(s) \cup {e}
         /\ (Increasing(s) /\ \A x \in Range(s) : x < e) => Increasing(Append(s, e))
<1> DEFINE n == Len(s)
<1> DEFINE t == Append(s, e)
<1>1. /\ n \in Nat /\ Len(t) = n + 1 /\ t[n + 1] = e /\ t \in Seq(Nat)
      /\ \A i \in 1..n : t[i] = s[i] /\ i \in 1..Len(t) /\ s[i] \in Range(s)
  BY RangeIs
<1> HIDE DEF t
<1>2. \A i \in 1..Len(t) : i \in 1..n \/ i = n + 1
  BY <1>1
<1>3. Range(t) = Range(s) \cup {e}
  <2>1. \A i \in 1..Len(t) : t[i] \in Range(t)
    BY <1>1, RangeIs
  <2>2. ASSUME NEW x \in Range(s) PROVE x \in Range(t)
    <3>1. PICK i \in 1..n : x = s[i]
      BY RangeIs
    <3>2. i \in 1..Len(t) /\ t[i] = x
      BY <1>1, <3>1
    <3> QED
      BY <2>1, <3>2
  <2>3. e \in Range(t)
    BY <1>1, <2>1
  <2>4. \A i \in 1..Len(t) : t[i] \in Range(s) \cup {e}
    BY <1>1, <1>2
  <2> QED
    BY <1>1, <2>2, <2>3, <2>4, RangeIs
<1>4. ASSUME Increasing(s), \A x \in Range(s) : x < e,
             NEW i \in 1..Len(t), NEW j \in 1..Len(t), i < j
      PROVE  t[i] < t[j]
  <2>1. i \in 1..n
    BY <1>1, <1>2, <1>4
  <2>2. CASE j \in 1..n
    BY <1>1, <1>4, <2>1, <2>2 DEF Increasing
  <2>3. CASE j = n + 1
    BY <1>1, <1>4, <2>1, <2>3
  <2> QED
    BY <1>2, <2>2, <2>3
<1> QED
  BY <1>1, <1>3, <1>4 DEF t, Increasing

LEMMA ConcatIncreasing ==
  ASSUME NEW s \in Seq(Nat), NEW t \in Seq(Nat), Increasing(s), Increasing(t),
         \A x \in Range(s), y \in Range(t) : x < y
  PROVE  /\ s \o t \in Seq(Nat) /\ Increasing(s \o t)
         /\ Range(s \o t) = Range(s) \cup Range(t)
<1> DEFINE n == Len(s)
<1> DEFINE u == s \o t
<1>1. /\ n \in Nat /\ Len(t) \in Nat /\ Len(u) = n + Len(t) /\ u \in Seq(Nat)
      /\ \A i \in 1..n : u[i] = s[i] /\ i \in 1..Len(u)
      /\ \A i \in 1..Len(t) : u[n + i] = t[i] /\ n + i \in 1..Len(u)
  OBVIOUS
<1> HIDE DEF u
<1>2. \A i \in 1..Len(u) : i \in 1..n \/ (i - n \in 1..Len(t) /\ i = n + (i - n))
  BY <1>1
<1>3. \A i \in 1..n : s[i] \in Range(s)
  BY RangeIs
<1>4. \A i \in 1..Len(t) : t[i] \in Range(t)
  BY RangeIs
<1>5. ASSUME NEW i \in 1..Len(u), NEW j \in 1..Len(u), i < j PROVE u[i] < u[j]
  <2>1. CASE i \in 1..n /\ j \in 1..n
    BY <1>1, <1>5, <2>1 DEF Increasing
  <2>2. CASE i \in 1..n /\ j \notin 1..n
    BY <1>1, <1>2, <1>3, <1>4, <2>2
  <2>3. CASE i \notin 1..n
    <3>1. i - n \in 1..Len(t) /\ j - n \in 1..Len(t) /\ i - n < j - n
      BY <1>1, <1>2, <1>5, <2>3
    <3>2. i = n + (i - n) /\ j = n + (j - n)
      BY <1>1
    <3>3. u[n + (i - n)] = t[i - n] /\ u[n + (j - n)] = t[j - n]
      BY <1>1, <3>1
    <3> QED
      BY <3>1, <3>2, <3>3 DEF Increasing
  <2> QED
    BY <2>1, <2>2, <2>3
<1>6. \A i \in 1..Len(u) : u[i] \in Range(u)
  BY <1>1, RangeIs
<1>7. \A i \in 1..Len(u) : u[i] \in Range(s) \cup Range(t)
  <2> TAKE i \in 1..Len(u)
  <2>1. CASE i \in 1..n
    BY <1>1, <1>3, <2>1
  <2>2. CASE i \notin 1..n
    BY <1>1, <1>2, <1>4, <2>2
  <2> QED
    BY <2>1, <2>2
<1>8. ASSUME NEW x \in Range(s) PROVE x \in Range(u)
  <2>1. PICK i \in 1..n : x = s[i]
    BY RangeIs
  <2>2. i \in 1..Len(u) /\ u[i] = x
    BY <1>1, <2>1
  <2> QED
    BY <1>6, <2>2
<1>9. ASSUME NEW x \in Range(t) PROVE x \in Range(u)
  <2>1. PICK i \in 1..Len(t) : x = t[i]
    BY RangeIs
  <2>2. n + i \in 1..Len(u) /\ u[n + i] = x
    BY <1>1, <2>1
  <2> QED
    BY <1>6, <2>2
<1> QED
  BY <1>1, <1>5, <1>7, <1>8, <1>9, RangeIs DEF u, Increasing

-----------------------------------------------------------------------------
(* Sequences without repetitions: one member more, and one less.           *)

(* A longer queue.                                                         *)
LEMMA AppendRange ==
  ASSUME NEW S, NEW s \in Seq(S), NEW e \in S, IsInjective(s), e \notin Range(s)
  PROVE  /\ Append(s, e) \in Seq(S)
         /\ Range(Append(s, e)) = Range(s) \cup {e}
         /\ IsInjective(Append(s, e))
<1> DEFINE t == Append(s, e)
<1>1. /\ t \in Seq(S) /\ DOMAIN t = 1..(Len(s) + 1) /\ DOMAIN s = 1..Len(s)
      /\ Len(s) \in Nat /\ t[Len(s) + 1] = e /\ \A i \in 1..Len(s) : t[i] = s[i]
  OBVIOUS
<1> HIDE DEF t
<1>2. Range(t) = Range(s) \cup {e}
  BY <1>1, SMT DEF Range
<1>3. IsInjective(t)
  BY <1>1, SMT DEF IsInjective, Range
<1> QED
  BY <1>1, <1>2, <1>3 DEF t

LEMMA ConcatIs ==
  ASSUME NEW S, NEW s \in Seq(S), NEW t \in Seq(S)
  PROVE  /\ s \o t \in Seq(S) /\ Len(s \o t) = Len(s) + Len(t)
         /\ \A i \in 1..Len(s) : (s \o t)[i] = s[i]
         /\ \A i \in (Len(s) + 1)..(Len(s) + Len(t)) : (s \o t)[i] = t[i - Len(s)]
OBVIOUS

LEMMA SubSeqIs ==
  ASSUME NEW S, NEW s \in Seq(S), NEW a \in Nat, NEW b \in 0..Len(s), a >= 1, a <= b + 1
  PROVE  /\ SubSeq(s, a, b) \in Seq(S) /\ Len(SubSeq(s, a, b)) = b - a + 1
         /\ \A i \in 1..(b - a + 1) : SubSeq(s, a, b)[i] = s[a + i - 1]
<1>1. SubSeq(s, a, b) \in Seq(S) /\ Len(SubSeq(s, a, b)) = b - a + 1
  OBVIOUS
<1>2. \A i \in 1..(b - a + 1) : SubSeq(s, a, b)[i] = s[a + i - 1]
  OBVIOUS
<1> QED
  BY <1>1, <1>2

(* A sequence without its n-th member. *)
Without(s, n) == SubSeq(s, 1, n - 1) \o SubSeq(s, n + 1, Len(s))

LEMMA WithoutAt ==
  ASSUME NEW S, NEW s \in Seq(S), NEW n \in 1..Len(s)
  PROVE  /\ Without(s, n) \in Seq(S) /\ Len(Without(s, n)) = Len(s) - 1
         /\ \A i \in 1..(Len(s) - 1) : Without(s, n)[i] = s[IF i < n THEN i ELSE i + 1]
<1> DEFINE a == SubSeq(s, 1, n - 1)
<1> DEFINE b == SubSeq(s, n + 1, Len(s))
<1>1. Len(s) \in Nat /\ n - 1 \in 0..Len(s) /\ n + 1 \in Nat /\ n + 1 >= 1
      /\ n + 1 <= Len(s) + 1 /\ Len(s) \in 0..Len(s)
  OBVIOUS
<1>2. /\ a \in Seq(S) /\ Len(a) = n - 1
      /\ \A i \in 1..(n - 1) : a[i] = s[i]
  <2>1. /\ a \in Seq(S) /\ Len(a) = (n - 1) - 1 + 1
        /\ \A i \in 1..((n - 1) - 1 + 1) : a[i] = s[1 + i - 1]
    BY <1>1, SubSeqIs
  <2>2. n \in Nat /\ (n - 1) - 1 + 1 = n - 1 /\ \A i \in 1..(n - 1) : 1 + i - 1 = i
    BY <1>1
  <2> HIDE DEF a
  <2> QED
    BY <2>1, <2>2
<1>3. /\ b \in Seq(S) /\ Len(b) = Len(s) - n
      /\ \A i \in 1..(Len(s) - n) : b[i] = s[n + i]
  <2>1. /\ b \in Seq(S) /\ Len(b) = Len(s) - (n + 1) + 1
        /\ \A i \in 1..(Len(s) - (n + 1) + 1) : b[i] = s[(n + 1) + i - 1]
    BY <1>1, SubSeqIs
  <2> HIDE DEF b
  <2> QED
    BY <1>1, <2>1
<1> HIDE DEF a, b
<1>4. /\ a \o b \in Seq(S) /\ Len(a \o b) = Len(a) + Len(b)
      /\ \A i \in 1..Len(a) : (a \o b)[i] = a[i]
      /\ \A i \in (Len(a) + 1)..(Len(a) + Len(b)) : (a \o b)[i] = b[i - Len(a)]
  BY <1>2, <1>3, ConcatIs
<1> DEFINE t == a \o b
<1> HIDE DEF t
<1>5. t \in Seq(S) /\ Len(t) = Len(s) - 1
  BY <1>1, <1>2, <1>3, <1>4 DEF t
<1>6. ASSUME NEW i \in 1..(Len(s) - 1) PROVE t[i] = s[IF i < n THEN i ELSE i + 1]
  <2>1. CASE i < n
    BY <1>2, <1>4, <2>1 DEF t
  <2>2. CASE i >= n
    <3>1. t[i] = b[i - Len(a)]
      BY <1>1, <1>2, <1>3, <1>4, <2>2 DEF t
    <3>2. i - Len(a) \in 1..(Len(s) - n) /\ n + (i - Len(a)) = i + 1
      BY <1>1, <1>2, <2>2
    <3>3. b[i - Len(a)] = s[n + (i - Len(a))]
      BY <1>3, <3>2
    <3> QED
      BY <1>1, <2>2, <3>1, <3>2, <3>3
  <2> QED
    BY <1>1, <2>1, <2>2
<1> QED
  BY <1>5, <1>6 DEF t, a, b, Without

(* What is left has the other members, each once. *)
LEMMA WithoutRange ==
  ASSUME NEW S, NEW s \in Seq(S), IsInjective(s), NEW n \in 1..Len(s)
  PROVE  /\ Without(s, n) \in Seq(S)
         /\ Range(Without(s, n)) = Range(s) \ {s[n]}
         /\ IsInjective(Without(s, n))
<1> DEFINE t == Without(s, n)
<1>0. Len(s) \in Nat
  OBVIOUS
<1>1. /\ t \in Seq(S) /\ Len(t) = Len(s) - 1 /\ Len(s) \in Nat
      /\ \A i \in 1..(Len(s) - 1) : t[i] = s[IF i < n THEN i ELSE i + 1]
  BY <1>0, WithoutAt, Zenon
<1> HIDE DEF t
<1>2. DOMAIN s = 1..Len(s) /\ DOMAIN t = 1..(Len(s) - 1)
  BY <1>1
<1>3. \A i, j \in 1..Len(s) : s[i] = s[j] => i = j
  BY <1>2 DEF IsInjective
<1>4. IsInjective(t)
  <2> SUFFICES ASSUME NEW i \in 1..(Len(s) - 1), NEW j \in 1..(Len(s) - 1), t[i] = t[j]
               PROVE  i = j
    BY <1>2 DEF IsInjective
  <2> DEFINE place(k) == IF k < n THEN k ELSE k + 1
  <2>1. place(i) \in 1..Len(s) /\ place(j) \in 1..Len(s)
    BY <1>1
  <2>2. place(i) = place(j)
    BY <1>1, <1>3, <2>1
  <2> QED
    BY <2>2
<1>5. ASSUME NEW x \in Range(t) PROVE x \in Range(s) \ {s[n]}
  <2>1. PICK i \in 1..(Len(s) - 1) : x = t[i]
    BY <1>2 DEF Range
  <2>2. PICK k \in 1..Len(s) : x = s[k] /\ k # n
    BY <1>1, <2>1
  <2> QED
    BY <1>2, <1>3, <2>2 DEF Range
<1>6. ASSUME NEW x \in Range(s) \ {s[n]} PROVE x \in Range(t)
  <2>1. PICK k \in 1..Len(s) : x = s[k] /\ k # n
    BY <1>2 DEF Range
  <2>2. PICK i \in 1..(Len(s) - 1) : k = IF i < n THEN i ELSE i + 1
    <3>1. CASE k < n
      <4>1. k \in 1..(Len(s) - 1)
        BY <1>1, <3>1
      <4> QED
        BY <3>1, <4>1
    <3>2. CASE k > n
      <4>1. k - 1 \in 1..(Len(s) - 1) /\ ~(k - 1 < n) /\ k = (k - 1) + 1
        BY <1>1, <3>2
      <4> QED
        BY <4>1
    <3> QED
      BY <2>1, <3>1, <3>2
  <2>3. t[i] = x
    BY <1>1, <2>1, <2>2
  <2> QED
    BY <1>2, <2>3 DEF Range
<1> QED
  BY <1>1, <1>4, <1>5, <1>6 DEF t

-----------------------------------------------------------------------------
Stopping == {"unsubscribing", "joinProducer", "notify", "joinDispatcher", "closing"}

Starting == {"subscribing", "spawnProducer", "spawnDispatcher", "started"}

(* What the owner has set up or taken down at each point of Start() and    *)
(* Stop().  StopThreads_ is set exactly while Stop() runs.                 *)
Phases ==
  /\ Started \in BOOLEAN /\ StopThreads \in BOOLEAN
  /\ owner \in {"idle"} \cup Starting \cup Stopping
  /\ StopThreads <=> owner \in Stopping
  /\ owner \in Stopping => Started
  /\ owner \in Starting => ~Started
  /\ owner \in {"subscribing", "spawnProducer"} => producer = "none"
  /\ owner \in {"subscribing", "spawnProducer", "spawnDispatcher"} => dispatcher = "none"
  /\ owner \in {"notify", "joinDispatcher", "closing"} => producer = "none"
  /\ owner = "closing" => dispatcher = "none"
  /\ QuietWhenStopped
  /\ NoMissedWakeup

LEMMA PhasesInit == Init => Phases
BY DEF Init, Phases, Stopping, Starting, QuietWhenStopped, NoMissedWakeup

LEMMA PhasesStep == Phases /\ [Next]_vars => Phases'
<1> SUFFICES ASSUME Phases, [Next]_vars PROVE Phases'
  OBVIOUS
<1> USE DEF Phases, Stopping, Starting, QuietWhenStopped, NoMissedWakeup
<1>1. CASE StartConnect
  BY <1>1 DEF StartConnect, OwnerGoes, events
<1>2. CASE StopBegin
  BY <1>2 DEF StopBegin, OwnerGoes, events
<1>3. CASE StartSubscribeFails \/ StartSubscribe
  BY <1>3 DEF StartSubscribeFails, StartSubscribe, OwnerGoes, CloseNetlink, events
<1>4. CASE SpawnProducer \/ SpawnDispatcher \/ SpawnFails
  BY <1>4 DEF SpawnProducer, SpawnDispatcher, SpawnFails, OwnerGoes, events
<1>5. CASE StartReturn
  BY <1>5 DEF StartReturn, OwnerGoes, events
<1>6. CASE StopUnsubscribe \/ StopJoinProducer
  BY <1>6 DEF StopUnsubscribe, StopJoinProducer, OwnerGoes, events
<1>7. CASE StopNotify \/ StopJoinDispatcher \/ StopReturn
  BY <1>7 DEF StopNotify, Notify, StopJoinDispatcher, StopReturn, CloseNetlink, OwnerGoes, events
<1>8. CASE CheckStop \/ RecvNothing \/ RecvFails
  BY <1>8 DEF CheckStop, RecvNothing, RecvFails, session, events
<1>9. CASE RecvEvent
  BY <1>9 DEF RecvEvent, Notify, session
<1>10. CASE DispatcherStops \/ DispatcherWaits \/ SpuriousWake \/ EndForEach \/ BatchDone
  BY <1>10 DEF DispatcherStops, DispatcherWaits, SpuriousWake, EndForEach, BatchDone, session, events
<1>11. CASE DispatcherSwaps \/ DispatcherWakes \/ BeginForEach \/ CallCallback
  BY <1>11 DEF DispatcherSwaps, DispatcherWakes, SwapQueue, BeginForEach, CallCallback, session, events
<1>12. ASSUME NEW r \in Registrars, GenerateId(r) \/ AddCallback(r) PROVE Phases'
  BY <1>12 DEF GenerateId, AddCallback, session, events
<1>13. ASSUME NEW id \in 1..MaxIds, RemoveCallback(id) PROVE Phases'
  BY <1>13 DEF RemoveCallback, session, events
<1>14. CASE UNCHANGED vars
  BY <1>14 DEF vars, session, events
<1> QED
  BY <1>1, <1>2, <1>3, <1>4, <1>5, <1>6, <1>7,
     <1>8, <1>9, <1>10, <1>11, <1>12, <1>13, <1>14
  DEF Next, OwnerStarts, OwnerStops, Produce, Dispatch

(* No event and no Stop() finds the dispatcher asleep in a wait() that has *)
(* no predicate.                                                           *)
THEOREM NothingSleptThrough == Spec => []NoMissedWakeup
<1>1. Phases => NoMissedWakeup
  BY DEF Phases
<1> QED
  BY PhasesInit, PhasesStep, <1>1, PTL DEF Spec

(* Stop() leaves neither a thread nor a socket behind.                     *)
THEOREM StopLeavesNothing == Spec => []QuietWhenStopped
<1>1. Phases => QuietWhenStopped
  BY DEF Phases
<1> QED
  BY PhasesInit, PhasesStep, <1>1, PTL DEF Spec

-----------------------------------------------------------------------------
(* The events.  The dispatcher's batch is older than the queue, each is in *)
(* the order of the kernel, and what is missing behind the last event      *)
(* dispatched was dropped.  Outside of a delivery the batch is empty, so   *)
(* that a swap overwrites nothing.                                         *)

Delivering == {"deliver", "calling"}

Stream ==
  /\ queue \in Seq(Nat) /\ batch \in Seq(Nat) /\ dropped \subseteq Nat
  /\ received \in Nat /\ dispatched \in Nat /\ dispatched <= received
  /\ dispatcher \notin Delivering => batch = <<>>
  /\ Increasing(queue) /\ Increasing(batch)
  /\ \A x \in Range(batch) \cup Range(queue) : dispatched < x /\ x <= received
  /\ \A x \in Range(batch), y \in Range(queue) : x < y
  /\ \A d \in dropped : d <= received
  /\ \A d \in dropped, y \in Range(queue) : d < y
  /\ (dispatched + 1)..received \subseteq Range(batch) \cup Range(queue) \cup dropped

LEMMA StreamInit == Init => Stream
<1> SUFFICES ASSUME Init PROVE Stream
  OBVIOUS
<1>1. /\ queue = <<>> /\ batch = <<>> /\ received = 0 /\ dispatched = 0 /\ dropped = {}
  BY DEF Init
<1>2. (dispatched + 1)..received = {}
  BY <1>1
<1> QED
  BY <1>1, <1>2, EmptyIs DEF Stream

(* The step that can reorder or lose: a new event, with or without an      *)
(* overflow.                                                               *)
LEMMA RecvKeepsStream == Stream /\ RecvEvent => Stream'
<1> SUFFICES ASSUME Stream, RecvEvent PROVE Stream'
  OBVIOUS
<1> DEFINE new == received + 1
<1> DEFINE kept == IF QueueFull THEN Tail(queue) ELSE queue
<1>1. /\ received' = new /\ UNCHANGED <<batch, dispatched>>
      /\ queue' = Append(kept, new)
      /\ dropped' = IF QueueFull THEN dropped \cup {Head(queue)} ELSE dropped
      /\ dispatcher' \notin Delivering => dispatcher \notin Delivering
  BY DEF RecvEvent, Enqueue, Notify, Delivering
<1>2. new \in Nat
  BY DEF Stream
<1>3. QueueFull => queue # <<>>
  BY ProcMonAssumption DEF QueueFull
<1>4. /\ kept \in Seq(Nat) /\ Increasing(kept) /\ Range(kept) \subseteq Range(queue)
      /\ dropped' \subseteq Nat /\ dropped \subseteq dropped'
      /\ \A d \in dropped' : d <= received
      /\ \A d \in dropped', y \in Range(kept) : d < y
      /\ Range(queue) \cup dropped \subseteq Range(kept) \cup dropped'
  <2>1. CASE QueueFull
    <3>1. /\ Tail(queue) \in Seq(Nat) /\ Increasing(Tail(queue))
          /\ Range(queue) = {Head(queue)} \cup Range(Tail(queue))
          /\ \A y \in Range(Tail(queue)) : Head(queue) < y
      BY <1>3, <2>1, TailOfIncreasing DEF Stream
    <3>2. Head(queue) \in Nat /\ Head(queue) <= received
      BY <3>1, RangeIs DEF Stream
    <3> QED
      BY <1>1, <2>1, <3>1, <3>2 DEF Stream
  <2>2. CASE ~QueueFull
    BY <1>1, <2>2 DEF Stream
  <2> QED
    BY <2>1, <2>2
<1> HIDE DEF kept
<1>5. \A x \in Range(batch) \cup Range(kept) : x \in Nat /\ dispatched < x /\ x <= received
  BY <1>4, RangeIs DEF Stream
<1>6. \A x \in Range(batch) \cup Range(kept) : x < new
  BY <1>5 DEF Stream
<1>7. /\ queue' \in Seq(Nat) /\ Range(queue') = Range(kept) \cup {new}
      /\ Increasing(queue')
  BY <1>1, <1>2, <1>4, <1>6, AppendLarger
<1>8. \A x \in Range(batch) \cup Range(queue') : dispatched < x /\ x <= new
  BY <1>5, <1>6, <1>7 DEF Stream
<1>9. \A x \in Range(batch), y \in Range(queue') : x < y
  BY <1>4, <1>6, <1>7 DEF Stream
<1>10. \A d \in dropped' : d < new
  BY <1>4 DEF Stream
<1>11. ASSUME NEW d \in dropped', NEW y \in Range(queue') PROVE d < y
  <2>1. CASE y = new
    BY <1>10, <2>1
  <2>2. CASE y \in Range(kept)
    BY <1>4, <2>2
  <2> QED
    BY <1>7, <2>1, <2>2
<1>12. (dispatched + 1)..new \subseteq Range(batch) \cup Range(queue') \cup dropped'
  <2>1. (dispatched + 1)..new \subseteq ((dispatched + 1)..received) \cup {new}
    BY DEF Stream
  <2> QED
    BY <2>1, <1>4, <1>7 DEF Stream
<1>13. \A d \in dropped' : d <= new
  BY <1>2, <1>4, <1>10
<1>14. dispatched <= new
  BY DEF Stream
<1> QED
  BY <1>1, <1>2, <1>4, <1>7, <1>8, <1>9, <1>11, <1>12, <1>13, <1>14 DEF Stream

(* The swap takes the place of an empty batch. *)
LEMMA SwapKeepsStream ==
  ASSUME Stream, SwapQueue, dispatcher \in {"top", "woken"}, dispatcher' = "deliver",
         UNCHANGED <<received, dispatched, dropped>>
  PROVE  Stream'
<1>1. batch = <<>>
  BY DEF Stream, Delivering
<1> QED
  BY <1>1, EmptyIs DEF Stream, SwapQueue, Delivering

LEMMA HigherStart ==
  ASSUME NEW a \in Nat, NEW b \in Nat, NEW c \in Nat, a < b
  PROVE  \A x \in (b + 1)..c : x \in (a + 1)..c /\ x # b
OBVIOUS

LEMMA BeginKeepsStream == Stream /\ BeginForEach => Stream'
<1> SUFFICES ASSUME Stream, BeginForEach PROVE Stream'
  OBVIOUS
<1>1. /\ batch # <<>> /\ batch' = Tail(batch) /\ dispatched' = Head(batch)
      /\ dispatcher' = "calling" /\ UNCHANGED <<queue, received, dropped>>
  BY DEF BeginForEach
<1>2. /\ batch' \in Seq(Nat) /\ Increasing(batch')
      /\ Range(batch) = {dispatched'} \cup Range(batch')
      /\ \A x \in Range(batch') : dispatched' < x
  BY <1>1, TailOfIncreasing DEF Stream
<1>3. dispatched' \in Nat /\ dispatched < dispatched' /\ dispatched' <= received
  BY <1>2, RangeIs DEF Stream
<1>4. \A x \in Range(batch') \cup Range(queue) : dispatched' < x /\ x <= received
  BY <1>2 DEF Stream
<1>5. \A x \in (dispatched' + 1)..received :
         x \in (dispatched + 1)..received /\ x # dispatched'
  <2>1. dispatched \in Nat /\ received \in Nat
    BY DEF Stream
  <2> QED
    BY <1>3, <2>1, HigherStart
<1>6. (dispatched' + 1)..received \subseteq Range(batch') \cup Range(queue) \cup dropped
  BY <1>2, <1>5 DEF Stream
<1> QED
  BY <1>1, <1>2, <1>3, <1>4, <1>6 DEF Stream, Delivering

(* All other steps leave the events alone, and the dispatcher delivering   *)
(* if it was.                                                              *)
LEMMA OthersKeepStream ==
  ASSUME Stream, UNCHANGED events,
         dispatcher' \notin Delivering => dispatcher \notin Delivering \/ batch = <<>>
  PROVE  Stream'
<1>1. dispatcher' \notin Delivering => batch = <<>>
  BY DEF Stream
<1> QED
  BY <1>1 DEF Stream, events

LEMMA StreamStep == Stream /\ Phases /\ [Next]_vars => Stream'
<1> SUFFICES ASSUME Stream, Phases, [Next]_vars PROVE Stream'
  OBVIOUS
<1>1. CASE RecvEvent
  BY <1>1, RecvKeepsStream
<1>2. CASE BeginForEach
  BY <1>2, BeginKeepsStream
<1>3. CASE DispatcherSwaps \/ DispatcherWakes
  BY <1>3, SwapKeepsStream DEF DispatcherSwaps, DispatcherWakes
<1> USE DEF Delivering
<1>4. CASE StartConnect \/ StopBegin
  BY <1>4, OthersKeepStream DEF StartConnect, StopBegin
<1>5. CASE OwnerStarts
  <2>1. CASE SpawnDispatcher
    <3>1. dispatcher = "none" /\ UNCHANGED events
      BY <2>1 DEF SpawnDispatcher, OwnerGoes, Phases
    <3> QED
      BY <3>1, OthersKeepStream
  <2> QED
    BY <1>5, <2>1, OthersKeepStream
    DEF OwnerStarts, StartSubscribeFails, StartSubscribe, SpawnProducer, SpawnFails,
        StartReturn
<1>6. CASE OwnerStops
  BY <1>6, OthersKeepStream
  DEF OwnerStops, StopUnsubscribe, StopJoinProducer, StopNotify, Notify,
      StopJoinDispatcher, StopReturn, Dead
<1>7. CASE CheckStop \/ RecvNothing \/ RecvFails
  BY <1>7, OthersKeepStream DEF CheckStop, RecvNothing, RecvFails
<1>8. CASE DispatcherStops \/ DispatcherWaits \/ SpuriousWake
  BY <1>8, OthersKeepStream DEF DispatcherStops, DispatcherWaits, SpuriousWake
<1>9. CASE CallCallback \/ EndForEach \/ BatchDone
  BY <1>9, OthersKeepStream DEF CallCallback, EndForEach, BatchDone
<1>10. ASSUME NEW r \in Registrars, GenerateId(r) \/ AddCallback(r) PROVE Stream'
  BY <1>10, OthersKeepStream DEF GenerateId, AddCallback
<1>11. ASSUME NEW id \in 1..MaxIds, RemoveCallback(id) PROVE Stream'
  BY <1>11, OthersKeepStream DEF RemoveCallback
<1>12. CASE UNCHANGED vars
  BY <1>12, OthersKeepStream DEF vars
<1> QED
  BY <1>1, <1>2, <1>3, <1>4, <1>5, <1>6, <1>7, <1>8, <1>9, <1>10, <1>11, <1>12
  DEF Next, Produce, Dispatch

LEMMA StreamHolds == Spec => []Stream
BY PhasesInit, PhasesStep, StreamInit, StreamStep, PTL DEF Spec

(* Callbacks see the events in the order of the kernel, none twice.        *)
THEOREM CallbacksInOrder == Spec => []InOrder
<1>1. Stream => InOrder
  <2> SUFFICES ASSUME Stream PROVE InOrder
    OBVIOUS
  <2>1. /\ Backlog \in Seq(Nat) /\ Increasing(Backlog)
        /\ Range(Backlog) = Range(batch) \cup Range(queue)
    BY ConcatIncreasing DEF Stream, Backlog
  <2>2. \A i \in 1..Len(Backlog) : Backlog[i] \in Range(Backlog)
    BY <2>1, RangeIs
  <2>3. DOMAIN Backlog = 1..Len(Backlog)
    BY <2>1
  <2>4. \A i \in 1..Len(Backlog) : dispatched < Backlog[i]
    BY <2>1, <2>2 DEF Stream
  <2> QED
    BY <2>1, <2>3, <2>4 DEF InOrder, Increasing
<1> QED
  BY StreamHolds, <1>1, PTL

(* Only an overflow loses an event: no wakeup, stop or restart does.       *)
THEOREM OnlyOverflowLoses == Spec => []NothingElseLost
<1>1. Stream => NothingElseLost
  <2> SUFFICES ASSUME Stream PROVE NothingElseLost
    OBVIOUS
  <2>1. Range(Backlog) = Range(batch) \cup Range(queue)
    BY ConcatIncreasing DEF Stream, Backlog
  <2> QED
    BY <2>1 DEF Stream, NothingElseLost
<1> QED
  BY StreamHolds, <1>1, PTL

-----------------------------------------------------------------------------
(* The callbacks.  An id is with the registrar that generated it, then in  *)
(* the list, then removed, and never comes back; and the dispatcher calls  *)
(* only what the list has, which is frozen meanwhile.                      *)
Registered ==
  /\ callbacks \in Seq(Nat) /\ IsInjective(callbacks)
  /\ nextId \in Nat \ {0}
  /\ adding \in [Registrars -> Nat]
  /\ \A x \in Range(callbacks) : x < nextId /\ x # 0 /\ x \notin removed
  /\ \A x \in removed : x \in Nat /\ x < nextId
  /\ \A r \in Registrars :
       adding[r] < nextId /\ adding[r] \notin removed /\ adding[r] \notin Range(callbacks)
  /\ \A r, q \in Registrars : adding[r] # 0 /\ adding[r] = adding[q] => r = q
  /\ 0 \notin removed

CallsListed ==
  /\ calls \in Seq(Nat)
  /\ Range(calls) \subseteq Range(callbacks)
  /\ dispatcher # "calling" => calls = <<>>

LEMMA RegisteredInit == Init => Registered /\ CallsListed
<1> SUFFICES ASSUME Init PROVE Registered /\ CallsListed
  OBVIOUS
<1>1. /\ callbacks = <<>> /\ calls = <<>> /\ nextId = 1 /\ removed = {}
      /\ adding = [r \in Registrars |-> 0]
  BY DEF Init
<1>2. IsInjective(callbacks)
  BY <1>1 DEF IsInjective
<1> QED
  BY <1>1, <1>2, EmptyIs DEF Registered, CallsListed

LEMMA GenerateKeeps ==
  ASSUME Registered, NEW r \in Registrars, GenerateId(r)
  PROVE  Registered'
<1>1. /\ adding[r] = 0 /\ adding' = [adding EXCEPT ![r] = nextId] /\ nextId' = nextId + 1
      /\ UNCHANGED <<callbacks, removed>>
  BY DEF GenerateId
<1>2. nextId \in Nat \ {0} /\ nextId' \in Nat \ {0}
  BY <1>1 DEF Registered
<1>3. Range(callbacks) \subseteq Nat
  BY RangeIs DEF Registered
<1>4. \A x \in Range(callbacks) \cup removed : x < nextId /\ x < nextId'
  BY <1>1, <1>2, <1>3 DEF Registered
<1>5. nextId \notin Range(callbacks) \cup removed
  BY <1>2, <1>4
<1>6. ASSUME NEW q \in Registrars
      PROVE  /\ adding'[q] \in Nat /\ adding'[q] < nextId'
             /\ adding'[q] \notin removed /\ adding'[q] \notin Range(callbacks)
             /\ q # r => adding'[q] = adding[q] /\ adding[q] < nextId
             /\ q = r => adding'[q] = nextId
  BY <1>1, <1>2, <1>5 DEF Registered
<1>7. \A q, p \in Registrars : adding'[q] # 0 /\ adding'[q] = adding'[p] => q = p
  BY <1>2, <1>6 DEF Registered
<1>8. adding' \in [Registrars -> Nat]
  BY <1>1, <1>2 DEF Registered
<1>9. /\ callbacks' \in Seq(Nat) /\ IsInjective(callbacks')
      /\ Range(callbacks') = Range(callbacks) /\ removed' = removed
  BY <1>1 DEF Registered
<1>10. /\ \A x \in Range(callbacks) : x < nextId' /\ x # 0 /\ x \notin removed
       /\ \A x \in removed : x \in Nat /\ x < nextId'
       /\ 0 \notin removed
  BY <1>4 DEF Registered
<1> QED
  BY <1>2, <1>6, <1>7, <1>8, <1>9, <1>10 DEF Registered

LEMMA AddKeeps ==
  ASSUME Registered, NEW r \in Registrars, AddCallback(r)
  PROVE  Registered'
<1> DEFINE id == adding[r]
<1>1. /\ id # 0 /\ callbacks' = Append(callbacks, id)
      /\ adding' = [adding EXCEPT ![r] = 0] /\ UNCHANGED <<nextId, removed>>
  BY DEF AddCallback
<1>2. id \in Nat /\ id < nextId /\ id \notin removed /\ id \notin Range(callbacks)
  BY DEF Registered
<1>3. \A q \in Registrars \ {r} : adding[q] # id
  BY <1>1 DEF Registered
<1>4. /\ adding' \in [Registrars -> Nat] /\ adding'[r] = 0
      /\ \A q \in Registrars \ {r} : adding'[q] = adding[q]
  BY <1>1 DEF Registered
<1> HIDE DEF id
<1>5. /\ callbacks' \in Seq(Nat) /\ Range(callbacks') = Range(callbacks) \cup {id}
      /\ IsInjective(callbacks')
  <2>1. callbacks \in Seq(Nat) /\ IsInjective(callbacks)
    BY DEF Registered
  <2> QED
    BY <1>1, <1>2, <2>1, AppendRange
<1>6. \A x \in Range(callbacks') : x < nextId /\ x # 0 /\ x \notin removed
  BY <1>1, <1>2, <1>5 DEF Registered
<1>7. ASSUME NEW q \in Registrars
      PROVE  /\ adding'[q] < nextId /\ adding'[q] \notin removed
             /\ adding'[q] \notin Range(callbacks')
  <2>1. CASE q = r
    BY <1>4, <1>6, <2>1 DEF Registered
  <2>2. CASE q # r
    BY <1>3, <1>4, <1>5, <2>2 DEF Registered
  <2> QED
    BY <2>1, <2>2
<1>8. \A q, p \in Registrars : adding'[q] # 0 /\ adding'[q] = adding'[p] => q = p
  BY <1>4 DEF Registered
<1> QED
  BY <1>1, <1>4, <1>5, <1>6, <1>7, <1>8 DEF Registered

LEMMA RemoveKeeps ==
  ASSUME Registered, NEW id \in 1..MaxIds, RemoveCallback(id)
  PROVE  Registered'
<1>1. PICK n \in 1..Len(callbacks) : callbacks[n] = id /\ callbacks' = Without(callbacks, n)
  <2>1. callbacks \in Seq(Nat) /\ DOMAIN callbacks = 1..Len(callbacks)
    BY DEF Registered
  <2> QED
    BY <2>1, Zenon DEF RemoveCallback, Without
<1>2. UNCHANGED <<nextId, adding>> /\ removed' = removed \cup {id}
  BY DEF RemoveCallback
<1>3. /\ callbacks' \in Seq(Nat) /\ Range(callbacks') = Range(callbacks) \ {id}
      /\ IsInjective(callbacks')
  BY <1>1, WithoutRange DEF Registered
<1>4. id \in Range(callbacks) /\ id \in Nat
  BY <1>1, RangeIs DEF Registered
<1> QED
  BY <1>2, <1>3, <1>4 DEF Registered

LEMMA RegisteredStep == Registered /\ [Next]_vars => Registered'
<1> SUFFICES ASSUME Registered, [Next]_vars PROVE Registered'
  OBVIOUS
<1>1. ASSUME NEW r \in Registrars, GenerateId(r) \/ AddCallback(r) PROVE Registered'
  BY <1>1, GenerateKeeps, AddKeeps
<1>2. ASSUME NEW id \in 1..MaxIds, RemoveCallback(id) PROVE Registered'
  BY <1>2, RemoveKeeps
<1>3. CASE UNCHANGED registry
  BY <1>3 DEF registry, Registered
<1>4. CASE StartConnect \/ StopBegin \/ OwnerStarts
  BY <1>3, <1>4 DEF StartConnect, StopBegin, OwnerStarts, StartSubscribeFails, StartSubscribe,
     SpawnProducer, SpawnDispatcher, SpawnFails, StartReturn
<1>5. CASE OwnerStops
  BY <1>3, <1>5 DEF OwnerStops, StopUnsubscribe, StopJoinProducer, StopNotify,
     StopJoinDispatcher, StopReturn
<1>6. CASE Produce \/ Dispatch \/ SpuriousWake
  BY <1>3, <1>6 DEF Produce, CheckStop, RecvNothing, RecvFails, RecvEvent, Dispatch,
     DispatcherStops, DispatcherSwaps, DispatcherWaits, DispatcherWakes, BeginForEach,
     CallCallback, EndForEach, BatchDone, SpuriousWake
<1>7. CASE UNCHANGED vars
  BY <1>3, <1>7 DEF vars
<1> QED
  BY <1>1, <1>2, <1>4, <1>5, <1>6, <1>7 DEF Next

LEMMA ListedStep ==
  Registered /\ CallsListed /\ Phases /\ [Next]_vars => CallsListed'
<1> SUFFICES ASSUME Registered, CallsListed, Phases, [Next]_vars PROVE CallsListed'
  OBVIOUS
<1>1. CASE BeginForEach
  BY <1>1 DEF BeginForEach, registry, CallsListed, Registered
<1>2. CASE CallCallback
  <2>1. calls # <<>> /\ calls' = Tail(calls) /\ UNCHANGED <<callbacks, dispatcher>>
    BY <1>2 DEF CallCallback, registry
  <2>2. Tail(calls) \in Seq(Nat) /\ Range(Tail(calls)) \subseteq Range(calls)
    <3>1. calls \in Seq(Nat) /\ Len(Tail(calls)) = Len(calls) - 1 /\ Tail(calls) \in Seq(Nat)
      BY <2>1 DEF CallsListed
    <3>2. \A i \in 1..(Len(calls) - 1) : Tail(calls)[i] = calls[i + 1] /\ i + 1 \in 1..Len(calls)
      BY <2>1, <3>1
    <3> QED
      BY <3>1, <3>2 DEF Range
  <2> QED
    BY <1>2, <2>1, <2>2 DEF CallsListed, CallCallback
<1>3. CASE EndForEach
  BY <1>3 DEF EndForEach, registry, CallsListed
<1>4. ASSUME UNCHANGED <<calls, callbacks>>, dispatcher' # "calling" => dispatcher # "calling"
      PROVE  CallsListed'
  BY <1>4 DEF CallsListed
<1>5. ASSUME NEW r \in Registrars, GenerateId(r) PROVE CallsListed'
  BY <1>4, <1>5 DEF GenerateId
<1>6. ASSUME UNCHANGED <<calls, dispatcher>>, ~CallbacksLocked PROVE CallsListed'
  BY <1>6, EmptyIs DEF CallsListed, CallbacksLocked
<1>7. ASSUME NEW r \in Registrars, AddCallback(r) PROVE CallsListed'
  BY <1>6, <1>7 DEF AddCallback
<1>8. ASSUME NEW id \in 1..MaxIds, RemoveCallback(id) PROVE CallsListed'
  BY <1>6, <1>8 DEF RemoveCallback
<1>9. CASE StartConnect \/ StopBegin \/ OwnerStarts
  BY <1>4, <1>9 DEF StartConnect, StopBegin, OwnerStarts, StartSubscribeFails, StartSubscribe,
     SpawnProducer, SpawnDispatcher, SpawnFails, StartReturn, OwnerGoes, registry, Phases
<1>10. CASE OwnerStops
  BY <1>4, <1>10 DEF OwnerStops, StopUnsubscribe, StopJoinProducer, StopNotify, Notify,
     StopJoinDispatcher, StopReturn, Dead, registry
<1>11. CASE Produce
  BY <1>4, <1>11 DEF Produce, CheckStop, RecvNothing, RecvFails, RecvEvent, Notify, registry
<1>12. CASE DispatcherStops \/ DispatcherSwaps \/ DispatcherWaits \/ DispatcherWakes
              \/ BatchDone \/ SpuriousWake
  BY <1>4, <1>12 DEF DispatcherStops, DispatcherSwaps, DispatcherWaits, DispatcherWakes,
     BatchDone, SpuriousWake, registry
<1>13. CASE UNCHANGED vars
  BY <1>4, <1>13 DEF vars, registry
<1> QED
  BY <1>1, <1>2, <1>3, <1>5, <1>7, <1>8, <1>9, <1>10, <1>11, <1>12, <1>13 DEF Next, Dispatch

(* Once RemoveProcEvCallback() has returned, the callback is not called    *)
(* again.                                                                  *)
THEOREM RemovedStaysSilent == Spec => []RemovedIsSilent
<1>1. Registered /\ CallsListed => RemovedIsSilent
  BY DEF Registered, CallsListed, RemovedIsSilent
<1> QED
  BY PhasesInit, PhasesStep, RegisteredInit, RegisteredStep, ListedStep, <1>1, PTL DEF Spec

-----------------------------------------------------------------------------
(* The queue is bounded, with what the bounds of the model need: the       *)
(* overflow test leaves one event more than kProcEvQueueMaxSize.           *)
Limits ==
  /\ sock \in {"open", "invalid"}
  /\ producer \in Dead \cup {"check", "recv"}
  /\ dispatcher \in Dead \cup {"top", "waiting", "woken", "deliver", "calling"}
  /\ Len(queue) <= kProcEvQueueMaxSize + 1
  /\ received <= MaxEvents /\ 0 \notin dropped
  /\ nextId <= MaxIds + 1

LEMMA LimitsInit == Init => Limits
<1>1. Len(<<>>) = 0
  OBVIOUS
<1> QED
  BY <1>1, ProcMonAssumption DEF Init, Limits, Dead

(* The step that fills the queue. *)
LEMMA RecvKeepsLimits == ASSUME Stream, Limits, RecvEvent PROVE Limits'
<1>1. /\ queue' = Append(IF QueueFull THEN Tail(queue) ELSE queue, received + 1)
      /\ dropped' = IF QueueFull THEN dropped \cup {Head(queue)} ELSE dropped
      /\ received < MaxEvents /\ received' = received + 1
      /\ producer' = "check" /\ dispatcher' = Notify(dispatcher)
      /\ UNCHANGED <<sock, nextId, adding>>
  BY DEF RecvEvent, Enqueue, session, registry
<1>2. queue \in Seq(Nat) /\ received \in Nat /\ Len(queue) \in Nat
  BY DEF Stream
<1>3. Len(queue') <= kProcEvQueueMaxSize + 1
  <2>1. CASE QueueFull
    <3>1. Len(queue) > 0
      BY <1>2, <2>1, ProcMonAssumption DEF QueueFull
    <3>2. Tail(queue) \in Seq(Nat) /\ Len(Tail(queue)) = Len(queue) - 1
      BY <1>2, <3>1
    <3>3. Len(queue') = Len(queue)
      BY <1>1, <1>2, <2>1, <3>2
    <3> QED
      BY <3>3 DEF Limits
  <2>2. CASE ~QueueFull
    <3>1. Len(queue') = Len(queue) + 1
      BY <1>1, <1>2, <2>2
    <3> QED
      BY <1>2, <2>2, <3>1, ProcMonAssumption DEF QueueFull
  <2> QED
    BY <2>1, <2>2
<1>4. 0 \notin dropped'
  <2>1. QueueFull => Head(queue) \in Range(queue)
    <3> SUFFICES ASSUME QueueFull PROVE Head(queue) \in Range(queue)
      OBVIOUS
    <3>1. Len(queue) > 0 /\ 1 \in 1..Len(queue) /\ Head(queue) = queue[1]
      BY <1>2, ProcMonAssumption DEF QueueFull
    <3> QED
      BY <1>2, <3>1, RangeIs
  <2>2. QueueFull => Head(queue) # 0
    BY <2>1 DEF Stream
  <2> QED
    BY <1>1, <2>2 DEF Limits
<1> QED
  BY <1>1, <1>2, <1>3, <1>4, ProcMonAssumption DEF Limits, Notify, Dead

LEMMA LimitsStep == Stream /\ Registered /\ Limits /\ [Next]_vars => Limits'
<1> SUFFICES ASSUME Stream, Registered, Limits, [Next]_vars PROVE Limits'
  OBVIOUS
<1> USE DEF Dead
<1>1. CASE RecvEvent
  BY <1>1, RecvKeepsLimits
<1>2. ASSUME UNCHANGED <<nextId, adding, received, dropped>>,
             sock' \in {"open", "invalid"}, producer' \in Dead \cup {"check", "recv"},
             dispatcher' \in Dead \cup {"top", "waiting", "woken", "deliver", "calling"},
             queue' = queue \/ queue' = <<>>
      PROVE  Limits'
  <2>1. Len(<<>>) = 0
    OBVIOUS
  <2> QED
    BY <1>2, <2>1, ProcMonAssumption DEF Limits
<1>3. CASE StartConnect \/ StopBegin \/ OwnerStarts
  BY <1>2, <1>3 DEF Limits, StartConnect, StopBegin, OwnerStarts, StartSubscribeFails, StartSubscribe,
     SpawnProducer, SpawnDispatcher, SpawnFails, StartReturn, CloseNetlink, registry, events
<1>4. CASE OwnerStops
  BY <1>2, <1>4 DEF Limits, OwnerStops, StopUnsubscribe, StopJoinProducer, StopNotify, Notify,
     StopJoinDispatcher, StopReturn, CloseNetlink, registry, events
<1>5. CASE CheckStop \/ RecvNothing \/ RecvFails
  BY <1>2, <1>5 DEF Limits, CheckStop, RecvNothing, RecvFails, session, registry, events
<1>6. CASE DispatcherStops \/ DispatcherSwaps \/ DispatcherWaits \/ DispatcherWakes \/ SpuriousWake
  BY <1>2, <1>6 DEF Limits, DispatcherStops, DispatcherSwaps, DispatcherWaits, DispatcherWakes,
     SwapQueue, SpuriousWake, session, registry, events
<1>7. CASE BeginForEach \/ CallCallback \/ EndForEach \/ BatchDone
  BY <1>2, <1>7 DEF Limits, BeginForEach, CallCallback, EndForEach, BatchDone, session, registry, events
<1>8. ASSUME NEW r \in Registrars, GenerateId(r) PROVE Limits'
  BY <1>8, ProcMonAssumption DEF GenerateId, Limits, Registered, session, events
<1>9. ASSUME NEW r \in Registrars, AddCallback(r) PROVE Limits'
  BY <1>9, ProcMonAssumption DEF AddCallback, Limits, Registered, session, events
<1>10. ASSUME NEW id \in 1..MaxIds, RemoveCallback(id) PROVE Limits'
  BY <1>2, <1>10 DEF RemoveCallback, Limits, session, events
<1>11. CASE UNCHANGED vars
  BY <1>2, <1>11 DEF vars, Limits, session, registry, events
<1> QED
  BY <1>1, <1>3, <1>4, <1>5, <1>6, <1>7, <1>8, <1>9, <1>10, <1>11 DEF Next, Produce, Dispatch

LEMMA SeqOf ==
  ASSUME NEW S, NEW s \in Seq(Nat), Range(s) \subseteq S
  PROVE  s \in Seq(S)
<1>1. \A i \in 1..Len(s) : s[i] \in S
  BY RangeIs
<1>2. Len(s) \in Nat /\ s = [i \in 1..Len(s) |-> s[i]]
  OBVIOUS
<1> QED
  BY <1>1, <1>2

(* The queue holds at most one event more than kProcEvQueueMaxSize, over   *)
(* overflows, swaps and restarts, and every variable has its type.         *)
THEOREM QueueBounded == Spec => []TypeOK
<1>1. Phases /\ Stream /\ Registered /\ CallsListed /\ Limits => TypeOK
  <2> SUFFICES ASSUME Phases, Stream, Registered, CallsListed, Limits PROVE TypeOK
    OBVIOUS
  <2> USE ProcMonAssumption
  <2>1. Range(queue) \subseteq 1..MaxEvents /\ Range(batch) \subseteq 1..MaxEvents
    <3>1. \A x \in Range(queue) \cup Range(batch) : x \in Nat
      BY RangeIs DEF Stream
    <3> QED
      BY <3>1 DEF Stream, Limits
  <2>2. Range(callbacks) \subseteq 1..MaxIds
    <3>1. \A x \in Range(callbacks) : x \in Nat
      BY RangeIs DEF Registered
    <3> QED
      BY <3>1 DEF Registered, Limits
  <2>3. queue \in Seq(1..MaxEvents) /\ batch \in Seq(1..MaxEvents)
    BY <2>1, SeqOf DEF Stream
  <2>4. callbacks \in Seq(1..MaxIds) /\ calls \in Seq(1..MaxIds)
    BY <2>2, SeqOf DEF Registered, CallsListed
  <2>5. dropped \in SUBSET (1..MaxEvents)
    BY DEF Stream, Limits
  <2>6. removed \in SUBSET (1..MaxIds) /\ nextId \in 1..(MaxIds + 1)
    BY DEF Registered, Limits
  <2>7. adding \in [Registrars -> 0..MaxIds]
    BY DEF Registered, Limits
  <2>8. received \in 0..MaxEvents /\ dispatched \in 0..MaxEvents
    BY DEF Stream, Limits
  <2>9. owner \in {"idle", "subscribing", "spawnProducer", "spawnDispatcher", "started",
                   "unsubscribing", "joinProducer", "notify", "joinDispatcher", "closing"}
    BY DEF Phases, Starting, Stopping
  <2> QED
    BY <2>3, <2>4, <2>5, <2>6, <2>7, <2>8, <2>9 DEF TypeOK, Phases, Limits
<1> QED
  BY PhasesInit, PhasesStep, StreamInit, StreamStep, RegisteredInit, RegisteredStep, ListedStep,
     LimitsInit, LimitsStep, <1>1, PTL DEF Spec

-----------------------------------------------------------------------------
(* How far an event in the queue is behind the last one received: by as    *)
(* many as are queued behind it, at least.  So the one that an overflow    *)
(* gives up is behind by the size of the queue.                            *)
Spaced ==
  /\ \A i \in 1..Len(queue) : queue[i] + (Len(queue) - i) <= received
  /\ \A d \in dropped : d + kProcEvQueueMaxSize + 1 <= received

LEMMA SpacedInit == Init => Spaced
<1>1. Len(<<>>) = 0
  OBVIOUS
<1> QED
  BY <1>1 DEF Init, Spaced

LEMMA RecvKeepsSpaced == ASSUME Stream, Spaced, RecvEvent PROVE Spaced'
<1> DEFINE new == received + 1
<1> DEFINE kept == IF QueueFull THEN Tail(queue) ELSE queue
<1>1. /\ queue' = Append(kept, new) /\ received' = new
      /\ dropped' = IF QueueFull THEN dropped \cup {Head(queue)} ELSE dropped
  BY DEF RecvEvent, Enqueue
<1>2. /\ queue \in Seq(Nat) /\ received \in Nat /\ Len(queue) \in Nat /\ dropped \subseteq Nat
      /\ \A i \in 1..Len(queue) : queue[i] \in Nat
  BY DEF Stream
<1>3. QueueFull => Len(queue) >= kProcEvQueueMaxSize + 1 /\ Head(queue) = queue[1]
  BY <1>2, ProcMonAssumption DEF QueueFull
<1>4. /\ kept \in Seq(Nat) /\ Len(kept) \in Nat
      /\ \A i \in 1..Len(kept) : kept[i] \in Nat /\ kept[i] + (Len(kept) - i) <= received
  <2>1. CASE QueueFull
    <3>1. /\ Tail(queue) \in Seq(Nat) /\ Len(Tail(queue)) = Len(queue) - 1
          /\ \A i \in 1..(Len(queue) - 1) : Tail(queue)[i] = queue[i + 1]
      BY <1>2, <1>3, <2>1, ProcMonAssumption
    <3>2. ASSUME NEW i \in 1..(Len(queue) - 1)
          PROVE  i + 1 \in 1..Len(queue) /\ (Len(queue) - 1) - i = Len(queue) - (i + 1)
      BY <1>2
    <3> QED
      BY <1>2, <1>3, <2>1, <3>1, <3>2, ProcMonAssumption DEF Spaced
  <2>2. CASE ~QueueFull
    BY <1>2, <2>2 DEF Spaced
  <2> QED
    BY <2>1, <2>2
<1>5. ASSUME NEW d \in dropped' PROVE d + kProcEvQueueMaxSize + 1 <= new
  <2>1. CASE d \in dropped
    <3>1. d \in Nat /\ d + kProcEvQueueMaxSize + 1 <= received
      BY <1>2, <2>1 DEF Spaced
    <3> QED
      BY <1>2, <3>1, ProcMonAssumption
  <2>2. CASE QueueFull /\ d = queue[1]
    <3>1. 1 \in 1..Len(queue) /\ queue[1] + (Len(queue) - 1) <= received
      BY <1>2, <1>3, <2>2, ProcMonAssumption DEF Spaced
    <3> QED
      BY <1>2, <1>3, <2>2, <3>1, ProcMonAssumption
  <2> QED
    BY <1>1, <1>3, <2>1, <2>2
<1> HIDE DEF kept
<1>6. /\ Len(queue') = Len(kept) + 1 /\ queue'[Len(kept) + 1] = new
      /\ \A i \in 1..Len(kept) : queue'[i] = kept[i]
  BY <1>1, <1>2, <1>4
<1>7. ASSUME NEW i \in 1..(Len(kept) + 1) PROVE queue'[i] + ((Len(kept) + 1) - i) <= new
  <2>1. CASE i = Len(kept) + 1
    BY <1>2, <1>4, <1>6, <2>1
  <2>2. CASE i \in 1..Len(kept)
    BY <1>2, <1>4, <1>6, <2>2
  <2> QED
    BY <1>4, <2>1, <2>2
<1> QED
  BY <1>1, <1>5, <1>6, <1>7 DEF Spaced

LEMMA SpacedStep == Stream /\ Spaced /\ [Next]_vars => Spaced'
<1> SUFFICES ASSUME Stream, Spaced, [Next]_vars PROVE Spaced'
  OBVIOUS
<1>1. CASE RecvEvent
  BY <1>1, RecvKeepsSpaced
<1>2. ASSUME UNCHANGED <<received, dropped>>, queue' = queue \/ queue' = <<>> PROVE Spaced'
  <2>1. Len(<<>>) = 0
    OBVIOUS
  <2> QED
    BY <1>2, <2>1 DEF Spaced
<1>3. CASE StartConnect \/ StopBegin \/ OwnerStarts
  BY <1>2, <1>3 DEF StartConnect, StopBegin, OwnerStarts, StartSubscribeFails, StartSubscribe,
     SpawnProducer, SpawnDispatcher, SpawnFails, StartReturn, events
<1>4. CASE OwnerStops
  BY <1>2, <1>4 DEF OwnerStops, StopUnsubscribe, StopJoinProducer, StopNotify,
     StopJoinDispatcher, StopReturn, events
<1>5. CASE CheckStop \/ RecvNothing \/ RecvFails
  BY <1>2, <1>5 DEF CheckStop, RecvNothing, RecvFails, events
<1>6. CASE Dispatch \/ SpuriousWake
  BY <1>2, <1>6 DEF Dispatch, DispatcherStops, DispatcherSwaps, DispatcherWaits, DispatcherWakes,
     SwapQueue, BeginForEach, CallCallback, EndForEach, BatchDone, SpuriousWake, events
<1>7. ASSUME NEW r \in Registrars, GenerateId(r) \/ AddCallback(r) PROVE Spaced'
  BY <1>2, <1>7 DEF GenerateId, AddCallback, events
<1>8. ASSUME NEW id \in 1..MaxIds, RemoveCallback(id) PROVE Spaced'
  BY <1>2, <1>8 DEF RemoveCallback, events
<1>9. CASE UNCHANGED vars
  BY <1>2, <1>9 DEF vars, events
<1> QED
  BY <1>1, <1>3, <1>4, <1>5, <1>6, <1>7, <1>8, <1>9 DEF Next, Produce

(* An overflow gives up the oldest event, and none before as many newer    *)
(* ones have come as the queue holds.                                      *)
THEOREM OldestFirstOut == Spec => []OverflowDropsOldest
<1>1. Stream /\ Limits /\ Spaced => OverflowDropsOldest
  <2> SUFFICES ASSUME Stream, Limits, Spaced PROVE OverflowDropsOldest
    OBVIOUS
  <2>1. \A i \in DOMAIN queue : queue[i] \in Range(queue)
    BY RangeIs DEF Stream
  <2> QED
    BY <2>1 DEF Stream, Limits, Spaced, OverflowDropsOldest
<1> QED
  BY PhasesInit, PhasesStep, StreamInit, StreamStep, RegisteredInit, RegisteredStep,
     LimitsInit, LimitsStep, SpacedInit, SpacedStep, <1>1, PTL DEF Spec
=============================================================================
