------------------------ MODULE TimerTaskQueueProofs ------------------------
(***************************************************************************)
(* Proofs about TimerTaskQueue, for any callers and workers, any events    *)
(* and delays, and any number of calls of Start() and Stop().  Three       *)
(* invariants beside TypeOK: Ownership, about startlock and the threads,   *)
(* OneTimer, about the timer in a run without stops, and HandsFilled, with *)
(* which the sum of an event's places stays what it is.                    *)
(***************************************************************************)
EXTENDS TimerTaskQueue, Functions, FiniteSetTheorems, TLAPS

(* How many members of a sequence are in a set.                            *)

Hits(s, P) == {i \in DOMAIN s : s[i] \in P}

Number(s, P) == Cardinality(Hits(s, P))

LEMMA HitsFinite ==
  ASSUME NEW S, NEW s \in Seq(S), NEW P
  PROVE  IsFiniteSet(Hits(s, P)) /\ Hits(s, P) \subseteq Nat /\ Number(s, P) \in Nat
<1>1. Len(s) \in Nat /\ DOMAIN s = 1..Len(s)
  OBVIOUS
<1>2. IsFiniteSet(1..Len(s))
  BY <1>1, FS_Interval
<1>3. Hits(s, P) \in SUBSET (1..Len(s))
  BY <1>1 DEF Hits
<1>4. IsFiniteSet(Hits(s, P))
  BY <1>2, <1>3, FS_Subset
<1> QED
  BY <1>1, <1>3, <1>4, FS_CardinalityType DEF Number

LEMMA NumberEmpty == \A P : Number(<<>>, P) = 0
BY FS_EmptySet DEF Number, Hits

LEMMA NumberZero ==
  ASSUME NEW S, NEW s \in Seq(S), NEW P
  PROVE  Number(s, P) = 0 <=> \A i \in DOMAIN s : s[i] \notin P
<1>1. Number(s, P) = 0 <=> Hits(s, P) = {}
  BY HitsFinite, FS_EmptySet DEF Number
<1> QED
  BY <1>1 DEF Hits

(* A sequence into which one member is put.  The indices in front of the   *)
(* place stay, those from the place on are shifted.                        *)
LEMMA NumberInsert ==
  ASSUME NEW S, NEW s \in Seq(S), NEW n \in 1..(Len(s) + 1), NEW t \in Seq(S), NEW P,
         Len(t) = Len(s) + 1,
         \A i \in 1..Len(s) : t[IF i < n THEN i ELSE i + 1] = s[i]
  PROVE  Number(t, P) = Number(s, P) + (IF t[n] \in P THEN 1 ELSE 0)
<1> DEFINE Old == Hits(s, P)
<1> DEFINE New == Hits(t, P) \ {n}
<1> DEFINE f == [i \in Old |-> IF i < n THEN i ELSE i + 1]
<1>1. /\ Len(s) \in Nat /\ DOMAIN s = 1..Len(s) /\ DOMAIN t = 1..(Len(s) + 1) /\ n \in Nat
      /\ n \in DOMAIN t
  OBVIOUS
<1>2. \A i \in Old : f[i] \in New
  <2> TAKE i \in Old
  <2>1. CASE i < n
    BY <1>1, <2>1 DEF Hits
  <2>2. CASE ~(i < n)
    BY <1>1, <2>2 DEF Hits
  <2> QED
    BY <2>1, <2>2
<1>3. \A i, j \in Old : f[i] = f[j] => i = j
  BY <1>1 DEF Hits
<1>4. ASSUME NEW k \in New PROVE \E i \in Old : f[i] = k
  <2>1. CASE k < n
    <3>1. k \in Old /\ f[k] = k
      BY <1>1, <2>1 DEF Hits
    <3> QED
      BY <3>1
  <2>2. CASE ~(k < n)
    <3>1. k - 1 \in 1..Len(s) /\ ~(k - 1 < n) /\ (k - 1) + 1 = k
      BY <1>1, <2>2 DEF Hits
    <3>2. k - 1 \in Old /\ f[k - 1] = k
      BY <1>1, <3>1 DEF Hits
    <3> QED
      BY <3>2
  <2> QED
    BY <2>1, <2>2
<1>5. f \in Bijection(Old, New)
  <2>1. f \in [Old -> New]
    BY <1>2
  <2> HIDE DEF f, Old, New
  <2> QED
    BY <2>1, <1>3, <1>4 DEF Bijection, Injection, Surjection, IsInjective
<1>6. Cardinality(New) = Cardinality(Old) /\ IsFiniteSet(New) /\ Cardinality(Old) \in Nat
  BY <1>5, HitsFinite, FS_Bijection, FS_CardinalityType DEF ExistsBijection
<1>7. CASE t[n] \in P
  <2>1. Hits(t, P) = New \cup {n}
    BY <1>1, <1>7 DEF Hits
  <2>2. Cardinality(New \cup {n}) = Cardinality(New) + 1
    <3> HIDE DEF New
    <3> QED
      BY <1>6, FS_AddElement DEF New
  <2> QED
    BY <1>6, <1>7, <2>1, <2>2 DEF Number
<1>8. CASE t[n] \notin P
  <2>1. Hits(t, P) = New
    BY <1>1, <1>8 DEF Hits
  <2> HIDE DEF New
  <2> QED
    BY <1>6, <1>8, <2>1 DEF Number
<1> QED
  BY <1>7, <1>8

LEMMA NumberAppend ==
  ASSUME NEW S, NEW s \in Seq(S), NEW e \in S, NEW P
  PROVE  Number(Append(s, e), P) = Number(s, P) + (IF e \in P THEN 1 ELSE 0)
<1> DEFINE t == Append(s, e)
<1>1. /\ t \in Seq(S) /\ Len(t) = Len(s) + 1 /\ Len(s) + 1 \in 1..(Len(s) + 1)
      /\ t[Len(s) + 1] = e
      /\ \A i \in 1..Len(s) : t[IF i < Len(s) + 1 THEN i ELSE i + 1] = s[i]
  OBVIOUS
<1> HIDE DEF t
<1>2. Number(t, P) = Number(s, P) + (IF t[Len(s) + 1] \in P THEN 1 ELSE 0)
  BY <1>1, NumberInsert
<1> QED
  BY <1>1, <1>2 DEF t

LEMMA NumberTail ==
  ASSUME NEW S, NEW s \in Seq(S), s # <<>>, NEW P
  PROVE  Number(s, P) = Number(Tail(s), P) + (IF Head(s) \in P THEN 1 ELSE 0)
<1> DEFINE t == Tail(s)
<1>1. /\ t \in Seq(S) /\ Len(s) = Len(t) + 1 /\ 1 \in 1..(Len(t) + 1) /\ Head(s) = s[1]
      /\ \A i \in 1..Len(t) : s[IF i < 1 THEN i ELSE i + 1] = t[i]
  OBVIOUS
<1> HIDE DEF t
<1>2. Number(s, P) = Number(t, P) + (IF s[1] \in P THEN 1 ELSE 0)
  BY <1>1, NumberInsert
<1> QED
  BY <1>1, <1>2 DEF t

LEMMA ConcatIs ==
  ASSUME NEW S, NEW s \in Seq(S), NEW t \in Seq(S)
  PROVE  /\ s \o t \in Seq(S) /\ Len(s \o t) = Len(s) + Len(t)
         /\ \A i \in 1..Len(s) : (s \o t)[i] = s[i]
         /\ \A i \in (Len(s) + 1)..(Len(s) + Len(t)) : (s \o t)[i] = t[i - Len(s)]
OBVIOUS

(* A sequence behind which nothing is put that counts.                     *)
LEMMA NumberConcat ==
  ASSUME NEW S, NEW s \in Seq(S), NEW t \in Seq(S), NEW P, \A i \in DOMAIN t : t[i] \notin P
  PROVE  Number(s \o t, P) = Number(s, P)
<1> DEFINE u == s \o t
<1>1. /\ DOMAIN u = 1..(Len(s) + Len(t)) /\ DOMAIN s = 1..Len(s) /\ DOMAIN t = 1..Len(t)
      /\ Len(s) \in Nat /\ Len(t) \in Nat
      /\ \A i \in 1..Len(s) : u[i] = s[i]
  OBVIOUS
<1>2. ASSUME NEW i \in DOMAIN u, i \notin DOMAIN s PROVE u[i] \notin P
  <2>1. i - Len(s) \in DOMAIN t /\ u[i] = t[i - Len(s)]
    BY <1>1, <1>2
  <2> HIDE DEF u
  <2> QED
    BY <2>1
<1> HIDE DEF u
<1>3. Hits(u, P) = Hits(s, P)
  BY <1>1, <1>2 DEF Hits
<1> QED
  BY <1>3 DEF Number, u

-----------------------------------------------------------------------------
(* One member put behind the first n.                                      *)

LEMMA SubSeqIs ==
  ASSUME NEW S, NEW s \in Seq(S), NEW a \in Nat, NEW b \in 0..Len(s), a >= 1, a <= b + 1
  PROVE  /\ SubSeq(s, a, b) \in Seq(S) /\ Len(SubSeq(s, a, b)) = b - a + 1
         /\ \A i \in 1..(b - a + 1) : SubSeq(s, a, b)[i] = s[a + i - 1]
<1>1. SubSeq(s, a, b) \in Seq(S) /\ Len(SubSeq(s, a, b)) = b - a + 1
  OBVIOUS
<1>2. \A i \in 1..(b - a + 1) : SubSeq(s, a, b)[i] = s[a + i - 1]
  OBVIOUS
<1> QED
  BY <1>1, <1>2

Inserted(s, n, e) == SubSeq(s, 1, n) \o <<e>> \o SubSeq(s, n + 1, Len(s))

LEMMA InsertedAt ==
  ASSUME NEW S, NEW s \in Seq(S), NEW n \in 0..Len(s), NEW e \in S
  PROVE  /\ Inserted(s, n, e) \in Seq(S) /\ Len(Inserted(s, n, e)) = Len(s) + 1
         /\ Inserted(s, n, e)[n + 1] = e
         /\ \A i \in 1..Len(s) : Inserted(s, n, e)[IF i < n + 1 THEN i ELSE i + 1] = s[i]
<1> DEFINE t == Inserted(s, n, e)
<1> DEFINE m == Len(s)
<1> DEFINE a == SubSeq(s, 1, n)
<1> DEFINE b == SubSeq(s, n + 1, m)
<1> DEFINE c == a \o <<e>>
<1>1. n \in Nat /\ m \in Nat /\ n <= m
  OBVIOUS
<1>2. a \in Seq(S) /\ Len(a) = n /\ \A i \in 1..n : a[i] = s[i]
  BY <1>1, SubSeqIs
<1>3. b \in Seq(S) /\ Len(b) = m - n /\ \A i \in 1..(m - n) : b[i] = s[n + i]
  BY <1>1, SubSeqIs
<1> HIDE DEF a, b, m
<1>4. c \in Seq(S) /\ Len(c) = n + 1 /\ c[n + 1] = e /\ \A i \in 1..n : c[i] = a[i]
  BY <1>1, <1>2
<1> HIDE DEF c, t
<1>5. /\ t \in Seq(S) /\ Len(t) = m + 1 /\ \A i \in 1..(n + 1) : t[i] = c[i]
      /\ \A i \in (n + 2)..(m + 1) : t[i] = b[i - (n + 1)]
  <2>1. t = c \o b
    BY DEF a, b, c, m, t, Inserted
  <2>2. /\ c \o b \in Seq(S) /\ Len(c \o b) = Len(c) + Len(b)
        /\ \A i \in 1..Len(c) : (c \o b)[i] = c[i]
        /\ \A i \in (Len(c) + 1)..(Len(c) + Len(b)) : (c \o b)[i] = b[i - Len(c)]
    <3>1. c \in Seq(S) /\ b \in Seq(S)
      BY <1>3, <1>4
    <3> QED
      BY <3>1, ConcatIs, Zenon
  <2>3. Len(c) = n + 1 /\ Len(c) + 1 = n + 2 /\ Len(c) + Len(b) = m + 1
    BY <1>1, <1>3, <1>4
  <2> QED
    BY <2>1, <2>2, <2>3
<1>6. ASSUME NEW i \in 1..m PROVE t[IF i < n + 1 THEN i ELSE i + 1] = s[i]
  <2>1. CASE i < n + 1
    <3>1. i \in 1..n /\ i \in 1..(n + 1)
      BY <1>1, <2>1
    <3> QED
      BY <1>2, <1>4, <1>5, <2>1, <3>1
  <2>2. CASE ~(i < n + 1)
    <3> DEFINE k == i - n
    <3>1. k \in 1..(m - n) /\ n + k = i /\ i + 1 \in (n + 2)..(m + 1) /\ (i + 1) - (n + 1) = k
      BY <1>1, <2>2
    <3> HIDE DEF k
    <3>2. t[i + 1] = b[k]
      <4>1. t[i + 1] = b[(i + 1) - (n + 1)]
        BY <1>5, <3>1, Zenon
      <4> QED
        BY <3>1, <4>1
    <3>3. b[k] = s[n + k]
      BY <1>3, <3>1, Zenon
    <3> QED
      BY <2>2, <3>1, <3>2, <3>3
  <2> QED
    BY <2>1, <2>2
<1>7. n + 1 \in 1..(n + 1)
  BY <1>1
<1> QED
  BY <1>4, <1>5, <1>6, <1>7 DEF m, t

-----------------------------------------------------------------------------
(* The points of Start() and Stop() at which a caller holds startlock.     *)
Holding == {"spawn", "expire", "wait", "cancel", "stopIo", "join"}

(* Who holds startlock is in the middle of Start() or Stop(), and nobody   *)
(* else; only threads of worker_threads_ run; and the vector is empty      *)
(* whenever Stop() was the last to have startlock.                         *)
Ownership ==
  /\ caller \in [Callers -> {"idle", "start", "stop"} \cup Holding]
  /\ DOMAIN worker = Workers
  /\ stoped \in BOOLEAN
  /\ \A c \in Callers : caller[c] \in Holding => startlock = c
  /\ \A w \in Workers : w \notin threads => worker[w] = "none"
  /\ (stoped /\ startlock = Nobody) => threads = {}

LEMMA OwnershipInit == Init => Ownership
BY DEF Init, Ownership, Holding

(* What a step of Start() or Stop() has to do.                             *)
LEMMA CallerKeepsOwnership ==
  ASSUME Ownership, NEW c \in Callers,
         StartCheck(c) \/ StopCheck(c) \/ StartGoesOn(c) \/ StopGoesOn(c)
  PROVE  Ownership'
<1> USE TimerAssumption DEF Ownership, Holding, CallerGoes
<1>1. CASE StartCheck(c) \/ StopCheck(c)
  BY <1>1 DEF StartCheck, StopCheck, workers
<1>2. CASE StartLock(c)
  BY <1>2 DEF StartLock, workers
<1>3. CASE StartSpawn(c)
  BY <1>3 DEF StartSpawn
<1>4. CASE StartExpire(c) \/ StopCancel(c) \/ StopIo(c)
  BY <1>4 DEF StartExpire, StopCancel, StopIo, workers
<1>5. CASE StartWait(c)
  BY <1>5 DEF StartWait, workers
<1>6. CASE StopLock(c)
  BY <1>6 DEF StopLock, workers
<1>7. CASE StopJoin(c)
  BY <1>7 DEF StopJoin
<1> QED
  BY <1>1, <1>2, <1>3, <1>4, <1>5, <1>6, <1>7 DEF StartGoesOn, StopGoesOn

LEMMA WorkerKeepsOwnership ==
  ASSUME Ownership, NEW w \in Workers, Work(w)
  PROVE  Ownership'
<1> SUFFICES /\ UNCHANGED owners /\ worker[w] # "none"
             /\ DOMAIN worker' = Workers
             /\ \A v \in Workers \ {w} : worker'[v] = worker[v]
  BY DEF Ownership, owners
<1> USE DEF Ownership
<1>1. CASE RunHandler(w)
  BY <1>1 DEF RunHandler, WorkerGoes
<1>2. CASE PostDue(w)
  BY <1>2 DEF PostDue, workers
<1>3. CASE WorkerExits(w) \/ EventEnds(w) \/ CheckAborted(w) \/ CheckClock(w) \/ CheckLock(w)
  BY <1>3 DEF WorkerExits, EventEnds, CheckAborted, CheckClock, CheckLock, WorkerGoes
<1>4. CASE CheckUnlock(w) \/ CheckExpire(w) \/ CheckWait(w)
  BY <1>4 DEF CheckUnlock, CheckExpire, CheckWait, WorkerGoes
<1> QED
  BY <1>1, <1>2, <1>3, <1>4 DEF Work

LEMMA OwnershipStep == Ownership /\ [Next]_vars => Ownership'
<1> SUFFICES ASSUME Ownership, [Next]_vars PROVE Ownership'
  OBVIOUS
<1>1. ASSUME UNCHANGED <<owners, workers>> PROVE Ownership'
  BY <1>1 DEF Ownership, owners, workers
<1>2. ASSUME NEW e \in Events, PostCheck(e) \/ PostGoesOn(e) PROVE Ownership'
  BY <1>1, <1>2 DEF PostCheck, PostGoesOn, PostReady, PostInTable
<1>3. CASE ClearDelayedEvent \/ Expire \/ ClockTick \/ UNCHANGED vars
  BY <1>1, <1>3 DEF ClearDelayedEvent, Expire, ClockTick, vars
<1> QED
  BY <1>2, <1>3, CallerKeepsOwnership, WorkerKeepsOwnership DEF Next

(* Whatever calls of Start() and Stop() overlap, no worker is left when    *)
(* Stop() has set stoped_ and released startlock.                          *)
THEOREM StopJoinsAll == Spec => []QuietWhenStopped
<1>1. Ownership => QuietWhenStopped
  BY DEF Ownership, QuietWhenStopped
<1> QED
  BY OwnershipInit, OwnershipStep, <1>1, PTL DEF Spec

-----------------------------------------------------------------------------
(* Types, and the order of the table by deadlines.                         *)
Entry == [event : Events, at : 0..MaxNow]

Handlers == Events \cup {"tick", "aborted"}

(* What completed waits add to the line.                                   *)
LEMMA Completed ==
  ASSUME NEW n \in Nat, NEW what \in {"tick", "aborted"}
  PROVE  /\ [i \in 1..n |-> what] \in Seq(Handlers)
         /\ Len([i \in 1..n |-> what]) = n
         /\ \A i \in DOMAIN [k \in 1..n |-> what] : [k \in 1..n |-> what][i] = what
BY DEF Handlers

LEMMA CancelTypes ==
  ASSUME TypeOK, CancelWaits
  PROVE  ready' \in Seq(Handlers) /\ waits' = 0 /\ ioStopped' = ioStopped
BY Completed DEF TypeOK, CancelWaits, Handlers

(* Inserting keeps the table in order.                                     *)
LEMMA InsertTypes ==
  ASSUME TypeOK, NEW entry \in Entry, InsertDelayed(entry)
  PROVE  /\ delayed' \in Seq(Entry)
         /\ \A i, j \in DOMAIN delayed' : i < j => delayed'[i].at <= delayed'[j].at
<1> DEFINE m == Len(delayed)
<1>1. PICK n \in 0..m :
        /\ \A i \in DOMAIN delayed : i <= n <=> delayed[i].at <= entry.at
        /\ delayed' = SubSeq(delayed, 1, n) \o <<entry>> \o SubSeq(delayed, n + 1, Len(delayed))
  BY DEF InsertDelayed
<1>2. delayed \in Seq(Entry) /\ m \in Nat /\ DOMAIN delayed = 1..m
  BY DEF TypeOK, Entry
<1>3. /\ delayed' \in Seq(Entry) /\ Len(delayed') = m + 1 /\ delayed'[n + 1] = entry
      /\ \A i \in 1..m : delayed'[IF i < n + 1 THEN i ELSE i + 1] = delayed[i]
  <2>1. delayed' = Inserted(delayed, n, entry)
    BY <1>1 DEF Inserted
  <2>2. delayed \in Seq(Entry) /\ n \in 0..Len(delayed) /\ entry \in Entry
    BY <1>2
  <2>3. Inserted(delayed, n, entry) \in Seq(Entry)
    BY <2>2, InsertedAt
  <2>4. Len(Inserted(delayed, n, entry)) = Len(delayed) + 1
    BY <2>2, InsertedAt
  <2>5. Inserted(delayed, n, entry)[n + 1] = entry
    BY <2>2, InsertedAt
  <2>6. \A i \in 1..Len(delayed) :
          Inserted(delayed, n, entry)[IF i < n + 1 THEN i ELSE i + 1] = delayed[i]
    BY <2>2, InsertedAt
  <2> QED
    BY <2>1, <2>3, <2>4, <2>5, <2>6
<1> HIDE DEF m
<1>4. ASSUME NEW i \in 1..(m + 1)
      PROVE  /\ i <= n => i \in DOMAIN delayed /\ delayed'[i] = delayed[i]
             /\ i = n + 1 => delayed'[i] = entry
             /\ i > n + 1 => i - 1 \in DOMAIN delayed /\ delayed'[i] = delayed[i - 1]
  <2>1. CASE i <= n
    <3>1. i \in 1..m /\ i < n + 1
      BY <1>2, <2>1
    <3> QED
      BY <1>2, <1>3, <2>1, <3>1
  <2>2. CASE i > n + 1
    <3>1. i - 1 \in 1..m /\ ~(i - 1 < n + 1) /\ (i - 1) + 1 = i
      BY <1>2, <2>2
    <3> QED
      BY <1>2, <1>3, <2>2, <3>1
  <2> QED
    BY <1>3, <2>1, <2>2
<1>5. entry.at \in Int /\ \A i \in DOMAIN delayed : delayed[i].at \in Int
  <2>1. \A x \in Entry : x.at \in Int
    BY TimerAssumption DEF Entry
  <2> QED
    BY <1>2, <2>1
<1>6. ASSUME NEW i \in DOMAIN delayed, NEW j \in DOMAIN delayed, i <= j
      PROVE  delayed[i].at <= delayed[j].at
  <2>1. CASE i = j
    BY <1>5, <2>1
  <2>2. CASE i < j
    BY <2>2 DEF TypeOK
  <2> QED
    BY <1>2, <1>6, <2>1, <2>2
<1> SUFFICES ASSUME NEW i \in 1..(m + 1), NEW j \in 1..(m + 1), i < j
             PROVE  delayed'[i].at <= delayed'[j].at
  <2>1. DOMAIN delayed' = 1..(m + 1)
    BY <1>3
  <2> QED
    BY <1>3, <2>1
<1>7. CASE j <= n
  <2>1. i <= n
    BY <1>2, <1>7
  <2> QED
    BY <1>4, <1>6, <1>7, <2>1
<1>8. CASE i > n + 1
  <2>1. j > n + 1 /\ i - 1 <= j - 1
    BY <1>2, <1>8
  <2> QED
    BY <1>4, <1>6, <1>8, <2>1
<1>9. CASE i <= n /\ j = n + 1
  BY <1>1, <1>4, <1>9
<1>10. CASE i <= n /\ j > n + 1
  <2>1. i <= j - 1
    BY <1>2, <1>10
  <2> QED
    BY <1>4, <1>6, <1>10, <2>1
<1>11. CASE i = n + 1 /\ j > n + 1
  <2>1. j - 1 \in DOMAIN delayed /\ ~(j - 1 <= n) /\ delayed'[j] = delayed[j - 1]
    BY <1>2, <1>4, <1>11
  <2>2. ~(delayed[j - 1].at <= entry.at) /\ delayed[j - 1].at \in Int
    BY <1>1, <1>5, <2>1
  <2>3. delayed'[i] = entry
    BY <1>4, <1>11
  <2> QED
    BY <1>5, <2>1, <2>2, <2>3
<1> QED
  BY <1>2, <1>7, <1>8, <1>9, <1>10, <1>11

(* An empty table is in order.                                             *)
LEMMA EmptyTable ==
  /\ <<>> \in Seq(Entry) /\ \A i, j \in DOMAIN <<>> : i < j => <<>>[i].at <= <<>>[j].at
OBVIOUS

LEMMA InitTypes == Init => TypeOK
<1> SUFFICES ASSUME Init PROVE TypeOK
  OBVIOUS
<1>1. /\ delayed \in Seq(Entry) /\ ready \in Seq(Handlers)
      /\ \A i, j \in DOMAIN delayed : i < j => delayed[i].at <= delayed[j].at
  BY EmptyTable DEF Init
<1>2. 0 \in 0..MaxNow /\ 0 \in 0..MaxStarts /\ 0 \in 0..MaxStops /\ 0 \in 0..1
  BY TimerAssumption
<1> QED
  BY <1>1, <1>2 DEF Init, TypeOK, Entry, Handlers

LEMMA CallerKeepsTypes ==
  ASSUME TypeOK, NEW c \in Callers,
         StartCheck(c) \/ StopCheck(c) \/ StartGoesOn(c) \/ StopGoesOn(c)
  PROVE  TypeOK'
<1> USE TimerAssumption DEF CallerGoes
<1>1. CASE StartCheck(c) \/ StopCheck(c)
  <2>1. starts' \in 0..MaxStarts /\ stops' \in 0..MaxStops
    BY <1>1 DEF StartCheck, StopCheck, TypeOK
  <2> QED
    BY <1>1, <2>1 DEF StartCheck, StopCheck, TypeOK, context, workers, posting
<1>2. CASE StartLock(c) \/ StopLock(c)
  BY <1>2 DEF StartLock, StopLock, Restart, TypeOK, context, workers, posting
<1>3. CASE StartSpawn(c)
  <2>1. PICK new \in SUBSET {w \in Workers : worker[w] = "none"} :
          /\ threads' = threads \cup new
          /\ worker' = [w \in Workers |-> IF w \in new THEN "run" ELSE worker[w]]
    BY <1>3 DEF StartSpawn
  <2> QED
    BY <1>3, <2>1 DEF StartSpawn, TypeOK, context, posting
<1>4. CASE StartExpire(c) \/ StopCancel(c)
  <2>1. ready' \in Seq(Handlers) /\ waits' = 0 /\ ioStopped' = ioStopped
    BY <1>4, CancelTypes DEF StartExpire, StopCancel
  <2> QED
    BY <1>4, <2>1 DEF StartExpire, StopCancel, TypeOK, workers, posting, Handlers
<1>5. CASE StartWait(c)
  <2>1. waits' \in Nat
    BY <1>5 DEF StartWait, AsyncWait, TypeOK
  <2> QED
    BY <1>5, <2>1 DEF StartWait, AsyncWait, TypeOK, workers, posting
<1>6. CASE StopIo(c)
  BY <1>6 DEF StopIo, TypeOK, workers, posting
<1>7. CASE StopJoin(c)
  BY <1>7 DEF StopJoin, TypeOK, context, posting
<1> QED
  BY <1>1, <1>2, <1>3, <1>4, <1>5, <1>6, <1>7 DEF StartGoesOn, StopGoesOn

LEMMA PostKeepsTypes ==
  ASSUME TypeOK, NEW e \in Events, PostCheck(e) \/ PostGoesOn(e)
  PROVE  TypeOK'
<1> USE TimerAssumption
<1>1. CASE PostCheck(e)
  <2>1. deadline' \in [Events -> 0..MaxNow]
    <3>1. now \in Nat /\ \A d \in Delays : d \in Nat
      BY DEF TypeOK
    <3>2. \A d \in Delays : now + d <= MaxNow => now + d \in 0..MaxNow
      BY <3>1
    <3>3. deadline' = deadline \/ \E v \in 0..MaxNow : deadline' = [deadline EXCEPT ![e] = v]
      BY <1>1, <3>2 DEF PostCheck
    <3>4. deadline \in [Events -> 0..MaxNow]
      BY DEF TypeOK
    <3> HIDE TimerAssumption
    <3> QED
      BY <3>3, <3>4, Zenon
  <2>2. post' \in [Events -> {"none", "post", "delay", "made"}]
    BY <1>1 DEF PostCheck, TypeOK
  <2> QED
    BY <1>1, <2>1, <2>2 DEF PostCheck, TypeOK, owners, context, workers
<1>2. CASE PostReady(e)
  BY <1>2 DEF PostReady, TypeOK, owners, workers
<1>3. CASE PostInTable(e)
  <2>1. [event |-> e, at |-> deadline[e]] \in Entry
    BY DEF TypeOK, Entry
  <2>2. /\ delayed' \in Seq(Entry)
        /\ \A i, j \in DOMAIN delayed' : i < j => delayed'[i].at <= delayed'[j].at
    BY <1>3, <2>1, InsertTypes DEF PostInTable
  <2> QED
    BY <1>3, <2>2 DEF PostInTable, TypeOK, Entry, owners, context, workers
<1> QED
  BY <1>1, <1>2, <1>3 DEF PostGoesOn

(* The table without its first event, and the events it holds.             *)
LEMMA TableTypes ==
  ASSUME TypeOK
  PROVE  /\ InTable \subseteq Events
         /\ delayed # <<>> => /\ Head(delayed) \in Entry /\ Tail(delayed) \in Seq(Entry)
                              /\ \A i, j \in DOMAIN Tail(delayed) :
                                   i < j => Tail(delayed)[i].at <= Tail(delayed)[j].at
<1>1. delayed \in Seq(Entry)
  BY DEF TypeOK, Entry
<1>2. InTable \subseteq Events
  <2>1. \A i \in DOMAIN delayed : delayed[i] \in Entry
    BY <1>1
  <2>2. \A x \in Entry : x.event \in Events
    BY DEF Entry
  <2> QED
    BY <2>1, <2>2 DEF InTable
<1>3. ASSUME delayed # <<>>, NEW i \in DOMAIN Tail(delayed), NEW j \in DOMAIN Tail(delayed), i < j
      PROVE  Tail(delayed)[i].at <= Tail(delayed)[j].at
  <2>1. /\ i + 1 \in DOMAIN delayed /\ j + 1 \in DOMAIN delayed /\ i + 1 < j + 1
        /\ Tail(delayed)[i] = delayed[i + 1] /\ Tail(delayed)[j] = delayed[j + 1]
    BY <1>1, <1>3
  <2> QED
    BY <2>1 DEF TypeOK
<1> QED
  BY <1>1, <1>2, <1>3

LEMMA ClearKeepsTypes ==
  ASSUME TypeOK, ClearTable
  PROVE  /\ delayed' \in Seq(Entry) /\ cleared' \subseteq Events
         /\ \A i, j \in DOMAIN delayed' : i < j => delayed'[i].at <= delayed'[j].at
BY TableTypes, EmptyTable DEF ClearTable, TypeOK

LEMMA WorkerKeepsTypes ==
  ASSUME TypeOK, NEW w \in Workers, Work(w)
  PROVE  TypeOK'
<1> USE TimerAssumption DEF WorkerGoes
<1>1. CASE WorkerExits(w)
  BY <1>1 DEF WorkerExits, TypeOK, owners, context, posting
<1>2. CASE RunHandler(w)
  <2>1. Head(ready) \in Handlers /\ Tail(ready) \in Seq(Handlers)
    BY <1>2 DEF RunHandler, TypeOK, Handlers
  <2>2. CASE Head(ready) \in Events
    <3>1. /\ worker' = [worker EXCEPT ![w] = "event"]
          /\ handler' = [handler EXCEPT ![w] = Head(ready)]
      BY <1>2, <2>2 DEF RunHandler
    <3>2. handler' \in [Workers -> Events \cup {Nobody}]
      BY <2>2, <3>1 DEF TypeOK
    <3> QED
      BY <1>2, <2>1, <3>1, <3>2 DEF RunHandler, TypeOK, owners, posting, Handlers
  <2>3. CASE Head(ready) \notin Events
    BY <1>2, <2>1, <2>3 DEF RunHandler, TypeOK, owners, posting, Handlers
  <2> QED
    BY <2>2, <2>3
<1>3. CASE EventEnds(w)
  <2>1. executed' \in [Events -> Nat]
    <3>1. \A e \in Events : executed[e] + 1 \in Nat
      BY DEF TypeOK
    <3>2. executed' = [executed EXCEPT ![handler[w]] = executed[handler[w]] + 1]
      BY <1>3 DEF EventEnds
    <3> QED
      BY <3>1, <3>2 DEF TypeOK
  <2>2. handler' \in [Workers -> Events \cup {Nobody}]
    BY <1>3 DEF EventEnds, TypeOK
  <2> QED
    BY <1>3, <2>1, <2>2 DEF EventEnds, TypeOK, owners, context, posting
<1>4. CASE CheckAborted(w)
  <2>1. /\ delayed' \in Seq(Entry) /\ cleared' \subseteq Events
        /\ \A i, j \in DOMAIN delayed' : i < j => delayed'[i].at <= delayed'[j].at
    BY <1>4, ClearKeepsTypes DEF CheckAborted
  <2> QED
    BY <1>4, <2>1 DEF CheckAborted, TypeOK, Entry, owners, context, posting
<1>5. CASE CheckClock(w)
  BY <1>5 DEF CheckClock, TypeOK, owners, context, posting
<1>6. CASE CheckLock(w) \/ CheckUnlock(w)
  BY <1>6 DEF CheckLock, CheckUnlock, TypeOK, owners, context, posting
<1>7. CASE PostDue(w)
  <2>1. delayed # <<>>
    BY <1>7 DEF PostDue, FirstIsDue
  <2>2. Head(delayed).event \in Events
    BY <2>1, TableTypes DEF Entry
  <2>3. /\ delayed' \in Seq(Entry)
        /\ \A i, j \in DOMAIN delayed' : i < j => delayed'[i].at <= delayed'[j].at
    BY <1>7, <2>1, TableTypes DEF PostDue
  <2>4. CASE stoped
    BY <1>7, <2>2, <2>3, <2>4 DEF PostDue, TypeOK, owners, workers, posting, Entry
  <2>5. CASE ~stoped
    <3>1. ready' \in Seq(Handlers)
      <4>1. ready' = Append(ready, Head(delayed).event)
        BY <1>7, <2>5 DEF PostDue
      <4>2. ready \in Seq(Handlers) /\ Head(delayed).event \in Handlers
        BY <2>2 DEF TypeOK, Handlers
      <4> QED
        BY <4>1, <4>2
    <3> QED
      BY <1>7, <2>3, <2>5, <3>1 DEF PostDue, TypeOK, owners, workers, posting, Entry, Handlers
  <2> QED
    BY <2>4, <2>5
<1>8. CASE CheckExpire(w)
  <2>1. ready' \in Seq(Handlers) /\ waits' = 0 /\ ioStopped' = ioStopped
    BY <1>8, CancelTypes DEF CheckExpire
  <2> QED
    BY <1>8, <2>1 DEF CheckExpire, TypeOK, owners, posting, Handlers
<1>9. CASE CheckWait(w)
  BY <1>9 DEF CheckWait, AsyncWait, TypeOK, owners, posting
<1> QED
  BY <1>1, <1>2, <1>3, <1>4, <1>5, <1>6, <1>7, <1>8, <1>9 DEF Work

LEMMA StepTypes == TypeOK /\ [Next]_vars => TypeOK'
<1> SUFFICES ASSUME TypeOK, [Next]_vars PROVE TypeOK'
  OBVIOUS
<1>1. CASE ClearDelayedEvent
  <2>1. /\ delayed' \in Seq(Entry) /\ cleared' \subseteq Events
        /\ \A i, j \in DOMAIN delayed' : i < j => delayed'[i].at <= delayed'[j].at
    BY <1>1, ClearKeepsTypes DEF ClearDelayedEvent
  <2> QED
    BY <1>1, <2>1 DEF ClearDelayedEvent, TypeOK, Entry, owners, context, workers
<1>2. CASE Expire
  <2>1. ready' \in Seq(Handlers)
    BY <1>2, Completed DEF Expire, TypeOK, Handlers
  <2> QED
    BY <1>2, <2>1 DEF Expire, TypeOK, owners, workers, posting, Handlers
<1>3. CASE ClockTick
  BY <1>3, TimerAssumption DEF ClockTick, TypeOK, owners, context, workers, posting
<1>4. CASE UNCHANGED vars
  BY <1>4 DEF vars, TypeOK, owners, context, workers, posting
<1> QED
  BY <1>1, <1>2, <1>3, <1>4, CallerKeepsTypes, PostKeepsTypes, WorkerKeepsTypes DEF Next

(* Every variable keeps its type, and the table stays in the order of its  *)
(* deadlines.                                                              *)
THEOREM TableInOrder == Spec => []TypeOK
BY InitTypes, StepTypes, PTL DEF Spec

-----------------------------------------------------------------------------
(* While nobody has called Start() twice, Stop() or ClearDelayedEvent()    *)
(* there is one timer: a pending wait, a tick in the line or a check under *)
(* way, never two of them, and none before Start() is through; so the      *)
(* check that sets the timer up again cancels nothing.                     *)
Calm == starts <= 1 /\ stops = 0 /\ clears = 0

Checking == {w \in Workers : worker[w] \in {"tick", "check", "due", "expire", "wait"}}

Ticks == Number(ready, {"tick"})

OneTimer ==
  /\ waits + Ticks <= 1
  /\ Checking # {} => waits = 0 /\ Ticks = 0
  /\ \A v, w \in Checking : v = w
  /\ stoped => waits = 0 /\ Ticks = 0 /\ Checking = {}
  /\ Number(ready, {"aborted"}) = 0
  /\ \A w \in Workers : worker[w] # "aborted"
  /\ \A c \in Callers : caller[c] # "idle" =>
       stoped /\ starts = 1 /\ caller[c] \in {"start", "spawn", "expire", "wait"}
  /\ \A c, d \in Callers : caller[c] # "idle" /\ caller[d] # "idle" => c = d
  /\ cleared = {}

LEMMA OneTimerInit == Init => OneTimer
BY NumberEmpty DEF Init, OneTimer, Ticks, Checking

LEMMA Lines == TypeOK => /\ ready \in Seq(Handlers) /\ waits \in Nat /\ Ticks \in Nat
                         /\ Number(ready, {"aborted"}) \in Nat
<1> SUFFICES ASSUME TypeOK
             PROVE  /\ ready \in Seq(Handlers) /\ waits \in Nat /\ Ticks \in Nat
                    /\ Number(ready, {"aborted"}) \in Nat
  OBVIOUS
<1>1. ready \in Seq(Handlers) /\ waits \in Nat
  BY DEF TypeOK, Handlers
<1> QED
  BY <1>1, HitsFinite DEF Ticks

(* An event at the end of the line is no tick.                             *)
LEMMA EventNoTick ==
  ASSUME TypeOK, NEW e \in Events, ready' = Append(ready, e)
  PROVE  Ticks' = Ticks /\ Number(ready', {"aborted"}) = Number(ready, {"aborted"})
<1>1. e \in Handlers /\ e \notin {"tick"} /\ e \notin {"aborted"}
  BY TimerAssumption DEF Handlers
<1>2. Number(Append(ready, e), {"tick"}) = Number(ready, {"tick"}) + 0
  BY <1>1, Lines, NumberAppend
<1>3. Number(Append(ready, e), {"aborted"}) = Number(ready, {"aborted"}) + 0
  BY <1>1, Lines, NumberAppend
<1> QED
  BY <1>2, <1>3, Lines DEF Ticks

(* With no wait pending there is nothing to cancel.                        *)
LEMMA NothingCancelled ==
  ASSUME TypeOK, waits = 0, CancelWaits
  PROVE  /\ Ticks' = Ticks /\ Number(ready', {"aborted"}) = Number(ready, {"aborted"})
         /\ waits' = 0
<1> DEFINE more == [i \in 1..waits |-> "aborted"]
<1>1. more \in Seq(Handlers) /\ DOMAIN more = {} /\ ready' = ready \o more /\ waits' = 0
  BY Completed DEF CancelWaits
<1> HIDE DEF more
<1>2. /\ Number(ready \o more, {"tick"}) = Number(ready, {"tick"})
      /\ Number(ready \o more, {"aborted"}) = Number(ready, {"aborted"})
  BY <1>1, Lines, NumberConcat
<1> QED
  BY <1>1, <1>2 DEF Ticks

LEMMA CallerKeepsTimer ==
  ASSUME TypeOK, OneTimer, Calm', NEW c \in Callers,
         StartCheck(c) \/ StopCheck(c) \/ StartGoesOn(c) \/ StopGoesOn(c)
  PROVE  OneTimer'
<1>1. CASE StartCheck(c)
  <2>1. starts = 0 /\ \A d \in Callers : caller[d] = "idle"
    BY <1>1 DEF StartCheck, Calm, OneTimer, TypeOK
  <2> QED
    BY <1>1, <2>1 DEF StartCheck, OneTimer, Ticks, Checking, TypeOK, CallerGoes, context, workers
<1>2. CASE StopCheck(c)
  BY <1>2 DEF StopCheck, Calm, TypeOK
<1>3. CASE StopGoesOn(c)
  BY <1>3 DEF StopGoesOn, StopLock, StopCancel, StopIo, StopJoin, CallerGoes, OneTimer
<1>4. CASE StartLock(c)
  BY <1>4 DEF StartLock, OneTimer, Ticks, Checking, TypeOK, CallerGoes, workers
<1>5. CASE StartSpawn(c)
  <2>1. PICK new \in SUBSET {w \in Workers : worker[w] = "none"} :
          worker' = [w \in Workers |-> IF w \in new THEN "run" ELSE worker[w]]
    BY <1>5 DEF StartSpawn
  <2>2. Checking' = Checking
    BY <2>1 DEF Checking
  <2> QED
    BY <1>5, <2>1, <2>2 DEF StartSpawn, OneTimer, Ticks, TypeOK, CallerGoes, context
<1>6. CASE StartExpire(c)
  <2>1. stoped /\ waits = 0
    BY <1>6 DEF StartExpire, CallerGoes, OneTimer
  <2>2. /\ Ticks' = Ticks /\ Number(ready', {"aborted"}) = Number(ready, {"aborted"})
        /\ waits' = 0
    BY <1>6, <2>1, NothingCancelled DEF StartExpire
  <2> QED
    BY <1>6, <2>1, <2>2 DEF StartExpire, OneTimer, Checking, TypeOK, CallerGoes, workers
<1>7. CASE StartWait(c)
  <2>1. stoped /\ waits = 0 /\ Ticks = 0 /\ Checking = {}
    BY <1>7 DEF StartWait, CallerGoes, OneTimer
  <2>2. waits' = 1 /\ Ticks' = 0 /\ Checking' = {} /\ ~stoped'
    BY <1>7, <2>1 DEF StartWait, AsyncWait, Ticks, Checking, workers
  <2>3. \A d \in Callers : caller'[d] = "idle"
    BY <1>7 DEF StartWait, CallerGoes, OneTimer, TypeOK
  <2> QED
    BY <1>7, <2>2, <2>3 DEF StartWait, AsyncWait, OneTimer, workers
<1> QED
  BY <1>1, <1>2, <1>3, <1>4, <1>5, <1>6, <1>7 DEF StartGoesOn

LEMMA WorkerKeepsTimer ==
  ASSUME TypeOK, OneTimer, Calm', NEW w \in Workers, Work(w)
  PROVE  OneTimer'
<1> USE DEF WorkerGoes
<1>1. CASE WorkerExits(w)
  BY <1>1 DEF WorkerExits, OneTimer, Ticks, Checking, TypeOK, owners, context
<1>2. CASE RunHandler(w)
  <2> DEFINE h == Head(ready)
  <2>1. /\ ready \in Seq(Handlers) /\ ready # <<>> /\ ready' = Tail(ready) /\ h \in Handlers
        /\ Tail(ready) \in Seq(Handlers)
    BY <1>2, Lines DEF RunHandler
  <2> HIDE DEF h
  <2>2. /\ Number(ready, {"tick"}) = Number(ready', {"tick"}) + (IF h \in {"tick"} THEN 1 ELSE 0)
        /\ Number(ready', {"tick"}) \in Nat
    BY <2>1, NumberTail, HitsFinite DEF h
  <2>3. /\ Number(ready, {"aborted"})
             = Number(ready', {"aborted"}) + (IF h \in {"aborted"} THEN 1 ELSE 0)
        /\ Number(ready', {"aborted"}) \in Nat
    BY <2>1, NumberTail, HitsFinite DEF h
  <2>4. Number(ready', {"aborted"}) = 0 /\ h # "aborted"
    BY <2>3 DEF OneTimer
  <2>5. CASE h \in Events
    <3>1. worker' = [worker EXCEPT ![w] = "event"] /\ worker[w] = "run"
      BY <1>2, <2>5 DEF RunHandler, h
    <3>2. Checking' = Checking
      BY <3>1 DEF Checking, TypeOK
    <3>3. Ticks' = Ticks
      <4>1. h \notin {"tick"}
        BY <2>5, TimerAssumption
      <4>2. Number(ready', {"tick"}) = Number(ready, {"tick"})
        BY <2>2, <4>1
      <4> QED
        BY <4>2 DEF Ticks
    <3> QED
      BY <1>2, <2>4, <3>1, <3>2, <3>3 DEF RunHandler, OneTimer, TypeOK, owners
  <2>6. CASE h = "tick"
    <3>1. worker' = [worker EXCEPT ![w] = "tick"] /\ worker[w] = "run"
      BY <1>2, <2>6, TimerAssumption DEF RunHandler, h
    <3>2. Ticks' = 0 /\ waits = 0 /\ Checking = {} /\ ~stoped
      <4>1. Number(ready, {"tick"}) = Number(ready', {"tick"}) + 1
        BY <2>2, <2>6
      <4>2. waits \in Nat /\ waits + Number(ready, {"tick"}) <= 1
        BY Lines DEF OneTimer, Ticks
      <4>3. Number(ready', {"tick"}) = 0 /\ waits = 0 /\ Number(ready, {"tick"}) # 0
        BY <2>2, <4>1, <4>2
      <4> QED
        BY <4>3 DEF OneTimer, Ticks
    <3>3. Checking' = {w}
      BY <3>1, <3>2 DEF Checking, TypeOK
    <3> QED
      BY <1>2, <2>4, <3>1, <3>2, <3>3 DEF RunHandler, OneTimer, TypeOK, owners
  <2> QED
    BY <2>1, <2>4, <2>5, <2>6 DEF Handlers
<1>3. CASE EventEnds(w)
  BY <1>3 DEF EventEnds, OneTimer, Ticks, Checking, TypeOK, owners, context
<1>4. CASE CheckAborted(w)
  BY <1>4 DEF CheckAborted, OneTimer
<1>5. ASSUME w \in Checking, worker'[w] # "aborted", DOMAIN worker' = Workers,
             \A v \in Workers \ {w} : worker'[v] = worker[v]
      PROVE  Checking' \subseteq {w} /\ Checking = {w} /\ waits = 0 /\ Ticks = 0 /\ ~stoped
             /\ \A v \in Workers : worker'[v] # "aborted"
  BY <1>5 DEF Checking, OneTimer
<1>6. CASE CheckClock(w) \/ CheckLock(w) \/ CheckUnlock(w) \/ CheckExpire(w) \/ CheckWait(w)
  <2>1. w \in Checking /\ \E to \in {"check", "due", "expire", "wait", "run"} :
          worker' = [worker EXCEPT ![w] = to]
    BY <1>6 DEF CheckClock, CheckLock, CheckUnlock, CheckExpire, CheckWait, Checking
  <2>2. /\ Checking' \subseteq {w} /\ waits = 0 /\ Ticks = 0 /\ ~stoped
        /\ \A v \in Workers : worker'[v] # "aborted"
    BY <1>5, <2>1 DEF TypeOK
  <2>3. CASE CheckClock(w) \/ CheckLock(w) \/ CheckUnlock(w)
    BY <2>2, <2>3
    DEF CheckClock, CheckLock, CheckUnlock, OneTimer, Ticks, owners, context
  <2>4. CASE CheckExpire(w)
    <3>1. /\ Ticks' = Ticks /\ Number(ready', {"aborted"}) = Number(ready, {"aborted"})
          /\ waits' = 0
      BY <2>2, <2>4, NothingCancelled DEF CheckExpire
    <3> QED
      BY <2>2, <2>4, <3>1 DEF CheckExpire, OneTimer, owners
  <2>5. CASE CheckWait(w)
    <3>1. Checking' = {} /\ waits' = 1 /\ Ticks' = 0
      BY <2>2, <2>5 DEF CheckWait, AsyncWait, Checking, TypeOK, Ticks
    <3> QED
      BY <2>2, <2>5, <3>1 DEF CheckWait, AsyncWait, OneTimer, owners
  <2> QED
    BY <1>6, <2>3, <2>4, <2>5
<1>7. CASE PostDue(w)
  <2>1. w \in Checking /\ ~stoped /\ UNCHANGED worker
    BY <1>7, <1>5 DEF PostDue, Checking, TypeOK, workers
  <2>2. delayed # <<>> /\ Head(delayed).event \in Events
    BY <1>7, TableTypes DEF PostDue, FirstIsDue, Entry
  <2>3. ready' = Append(ready, Head(delayed).event)
    BY <1>7, <2>1 DEF PostDue
  <2>4. Ticks' = Ticks /\ Number(ready', {"aborted"}) = Number(ready, {"aborted"})
    BY <2>2, <2>3, EventNoTick
  <2> QED
    BY <1>7, <2>1, <2>4 DEF PostDue, OneTimer, Checking, owners
<1> QED
  BY <1>1, <1>2, <1>3, <1>4, <1>6, <1>7 DEF Work

LEMMA OneTimerStep ==
  ASSUME TypeOK, OneTimer, Calm', [Next]_vars
  PROVE  OneTimer'
<1>1. ASSUME UNCHANGED <<owners, ready, waits, worker, cleared>> PROVE OneTimer'
  BY <1>1 DEF OneTimer, Ticks, Checking, owners
<1>2. ASSUME NEW e \in Events, PostCheck(e) \/ PostInTable(e) PROVE OneTimer'
  BY <1>1, <1>2 DEF PostCheck, PostInTable, context, workers
<1>3. ASSUME NEW e \in Events, PostReady(e) PROVE OneTimer'
  <2>1. Ticks' = Ticks /\ Number(ready', {"aborted"}) = Number(ready, {"aborted"})
    BY <1>3, EventNoTick DEF PostReady
  <2> QED
    BY <1>3, <2>1 DEF PostReady, OneTimer, Checking, owners, workers
<1>4. CASE ClearDelayedEvent
  BY <1>4 DEF ClearDelayedEvent, Calm
<1>5. CASE Expire
  <2>1. waits = 1 /\ Ticks = 0 /\ Checking = {} /\ ~stoped
    BY <1>5, Lines DEF Expire, OneTimer
  <2>2. ready' = ready \o [i \in 1..1 |-> "tick"]
    BY <1>5, <2>1 DEF Expire
  <2>3. ready' = Append(ready, "tick") /\ "tick" \in Handlers /\ ready \in Seq(Handlers)
    BY <2>2, Lines DEF Handlers
  <2>4. Ticks' = 1 /\ Number(ready', {"aborted"}) = Number(ready, {"aborted"})
    <3>1. "tick" \in {"tick"} /\ "tick" \notin {"aborted"}
      OBVIOUS
    <3>2. Number(Append(ready, "tick"), {"tick"}) = Number(ready, {"tick"}) + 1
      BY <2>3, <3>1, NumberAppend
    <3>3. Number(Append(ready, "tick"), {"aborted"}) = Number(ready, {"aborted"}) + 0
      BY <2>3, <3>1, NumberAppend
    <3> QED
      BY <2>1, <2>3, <3>2, <3>3, Lines DEF Ticks
  <2> QED
    BY <1>5, <2>1, <2>4 DEF Expire, OneTimer, Checking, owners, workers
<1>6. CASE ClockTick \/ UNCHANGED vars
  BY <1>1, <1>6 DEF ClockTick, vars, context, workers
<1> QED
  BY <1>2, <1>3, <1>4, <1>5, <1>6, CallerKeepsTimer, WorkerKeepsTimer DEF Next, PostGoesOn

(* What has been called stays called.                                      *)
LEMMA StaysCalm ==
  ASSUME TypeOK, [Next]_vars, Calm'
  PROVE  Calm
<1>1. starts \in Nat /\ stops \in Nat /\ clears \in Nat
  BY TimerAssumption DEF TypeOK
<1> SUFFICES starts' >= starts /\ stops' >= stops /\ clears' >= clears
  <2>1. starts' \in Nat /\ stops' \in Nat /\ clears' \in Nat
    BY TimerAssumption, StepTypes DEF TypeOK
  <2> QED
    BY <1>1, <2>1 DEF Calm
<1>2. CASE UNCHANGED <<starts, stops, clears>>
  BY <1>1, <1>2
<1>3. ASSUME NEW c \in Callers, StartCheck(c) \/ StopCheck(c)
      PROVE  starts' >= starts /\ stops' >= stops /\ clears' >= clears
  BY <1>1, <1>3 DEF StartCheck, StopCheck, posting
<1>4. ASSUME NEW c \in Callers, StartGoesOn(c) \/ StopGoesOn(c)
      PROVE  UNCHANGED <<starts, stops, clears>>
  BY <1>4 DEF StartGoesOn, StopGoesOn, StartLock, StartSpawn, StartExpire, StartWait, StopLock,
              StopCancel, StopIo, StopJoin, posting
<1>5. ASSUME NEW e \in Events, PostCheck(e) \/ PostGoesOn(e)
      PROVE  UNCHANGED <<starts, stops, clears>>
  BY <1>5 DEF PostCheck, PostGoesOn, PostReady, PostInTable, owners
<1>6. ASSUME NEW w \in Workers, Work(w) PROVE UNCHANGED <<starts, stops, clears>>
  BY <1>6 DEF Work, WorkerExits, RunHandler, EventEnds, CheckAborted, CheckClock, CheckLock,
              PostDue, CheckUnlock, CheckExpire, CheckWait, owners, posting
<1>7. CASE ClearDelayedEvent
  BY <1>1, <1>7 DEF ClearDelayedEvent, owners
<1>8. CASE Expire \/ ClockTick \/ UNCHANGED vars
  BY <1>1, <1>8 DEF Expire, ClockTick, vars, owners, posting
<1> QED
  BY <1>2, <1>3, <1>4, <1>5, <1>6, <1>7, <1>8 DEF Next

(* Until the second Start(), a Stop() or a ClearDelayedEvent(), no delayed *)
(* event is lost: the check never cancels its own timer.                   *)
THEOREM TimerLosesNone == Spec => []NoneLost
<1>1. Init => (Calm => OneTimer)
  BY OneTimerInit
<1>2. TypeOK /\ (Calm => OneTimer) /\ [Next]_vars => (Calm => OneTimer)'
  <2> SUFFICES ASSUME TypeOK, Calm => OneTimer, [Next]_vars, Calm' PROVE OneTimer'
    OBVIOUS
  <2> QED
    BY StaysCalm, OneTimerStep
<1>3. (Calm => OneTimer) => NoneLost
  BY DEF Calm, OneTimer, NoneLost
<1> QED
  BY InitTypes, StepTypes, <1>1, <1>2, <1>3, PTL DEF Spec

-----------------------------------------------------------------------------
(* The places of an event.  Each step takes it from one and puts it at the *)
(* next, so that the sum of what the places count stays what it is.        *)
Named(e) == {x \in Entry : x.event = e}

Hand(h, e) == {w \in Workers : h[w] = e}

Gone(c, e) == IF e \in c THEN 1 ELSE 0

HandsFilled == \A w \in Workers : worker[w] = "event" <=> handler[w] # Nobody

LEMMA PlacesAre ==
  TypeOK => \A e \in Events :
    Places(e) = Number(ready, {e}) + Number(delayed, Named(e)) + Cardinality(Hand(handler, e))
                  + executed[e] + Gone(cleared, e)
<1> SUFFICES ASSUME TypeOK, NEW e \in Events
             PROVE  Places(e) = Number(ready, {e}) + Number(delayed, Named(e))
                                  + Cardinality(Hand(handler, e)) + executed[e] + Gone(cleared, e)
  OBVIOUS
<1>1. {i \in DOMAIN ready : ready[i] = e} = Hits(ready, {e})
  BY DEF Hits
<1>2. {i \in DOMAIN delayed : delayed[i].event = e} = Hits(delayed, Named(e))
  <2>1. delayed \in Seq(Entry)
    BY DEF TypeOK, Entry
  <2>2. \A i \in DOMAIN delayed : delayed[i] \in Entry
    BY <2>1
  <2> QED
    BY <2>2 DEF Hits, Named
<1> QED
  BY <1>1, <1>2 DEF Places, Hand, Gone, Number

LEMMA Counted ==
  TypeOK => \A e \in Events : /\ Number(ready, {e}) \in Nat /\ Number(delayed, Named(e)) \in Nat
                              /\ Cardinality(Hand(handler, e)) \in Nat /\ executed[e] \in Nat
                              /\ IsFiniteSet(Hand(handler, e))
<1> SUFFICES ASSUME TypeOK, NEW e \in Events
             PROVE  /\ Number(ready, {e}) \in Nat /\ Number(delayed, Named(e)) \in Nat
                    /\ Cardinality(Hand(handler, e)) \in Nat /\ executed[e] \in Nat
                    /\ IsFiniteSet(Hand(handler, e))
  OBVIOUS
<1>1. ready \in Seq(Handlers) /\ delayed \in Seq(Entry) /\ executed[e] \in Nat
  BY DEF TypeOK, Handlers, Entry
<1>2. IsFiniteSet(Hand(handler, e)) /\ Cardinality(Hand(handler, e)) \in Nat
  <2>1. Hand(handler, e) \in SUBSET Workers
    BY DEF Hand
  <2> QED
    BY <2>1, TimerAssumption, FS_Subset, FS_CardinalityType
<1> QED
  BY <1>1, <1>2, HitsFinite

(* What the event that moves leaves behind and the place it gets to.       *)
LEMMA Balance ==
  ASSUME TypeOK, TypeOK', EventAtOnePlace,
         \A e \in Events :
           Number(ready', {e}) + Number(delayed', Named(e)) + Cardinality(Hand(handler', e))
               + executed'[e] + Gone(cleared', e) + (IF post[e] = "made" THEN 1 ELSE 0)
             = Number(ready, {e}) + Number(delayed, Named(e)) + Cardinality(Hand(handler, e))
               + executed[e] + Gone(cleared, e) + (IF post'[e] = "made" THEN 1 ELSE 0)
  PROVE  EventAtOnePlace'
<1>1. (TypeOK => \A e \in Events :
         Places(e) = Number(ready, {e}) + Number(delayed, Named(e)) + Cardinality(Hand(handler, e))
                       + executed[e] + Gone(cleared, e))'
  BY PlacesAre, PTL
<1>2. (TypeOK => \A e \in Events :
         /\ Number(ready, {e}) \in Nat /\ Number(delayed, Named(e)) \in Nat
         /\ Cardinality(Hand(handler, e)) \in Nat /\ executed[e] \in Nat
         /\ IsFiniteSet(Hand(handler, e)))'
  BY Counted, PTL
<1> SUFFICES ASSUME NEW e \in Events
             PROVE  Places(e)' = IF post'[e] = "made" THEN 1 ELSE 0
  BY DEF EventAtOnePlace
<1>3. Places(e)' = Number(ready', {e}) + Number(delayed', Named(e)) + Cardinality(Hand(handler', e))
                     + executed'[e] + Gone(cleared', e)
  BY <1>1
<1>4. Number(ready, {e}) + Number(delayed, Named(e)) + Cardinality(Hand(handler, e))
        + executed[e] + Gone(cleared, e) = IF post[e] = "made" THEN 1 ELSE 0
  BY PlacesAre DEF EventAtOnePlace
<1>5. Gone(cleared, e) \in Nat /\ Gone(cleared', e) \in Nat
  BY DEF Gone
<1>6. /\ Number(ready', {e}) \in Nat /\ Number(delayed', Named(e)) \in Nat
      /\ Cardinality(Hand(handler', e)) \in Nat /\ executed'[e] \in Nat
  BY <1>2
<1>7. Number(ready', {e}) + Number(delayed', Named(e)) + Cardinality(Hand(handler', e))
        + executed'[e] + Gone(cleared', e) = IF post'[e] = "made" THEN 1 ELSE 0
  BY <1>4, <1>5, <1>6, Counted
<1> QED
  BY <1>3, <1>7

(* The sum when the handlers of the timer move, but no event.              *)
LEMMA NothingMoves ==
  ASSUME TypeOK, TypeOK', EventAtOnePlace, UNCHANGED <<delayed, handler, executed, cleared>>,
         \A e \in Events : post'[e] = "made" <=> post[e] = "made",
         \A e \in Events : Number(ready', {e}) = Number(ready, {e})
  PROVE  EventAtOnePlace'
BY Balance

(* Completed waits are no events.                                          *)
LEMMA NoEventCompletes ==
  ASSUME TypeOK, NEW what \in {"tick", "aborted"}, ready' = ready \o [i \in 1..waits |-> what]
  PROVE  \A e \in Events : Number(ready', {e}) = Number(ready, {e})
<1> DEFINE more == [i \in 1..waits |-> what]
<1>0. waits \in Nat
  BY DEF TypeOK
<1>1. more \in Seq(Handlers) /\ \A i \in DOMAIN more : more[i] = what
  <2>1. more \in Seq(Handlers)
    BY <1>0, Completed
  <2>2. \A i \in DOMAIN more : more[i] = what
    OBVIOUS
  <2> QED
    BY <2>1, <2>2
<1>2. \A e \in Events : what # e
  BY TimerAssumption
<1> HIDE DEF more
<1>3. ASSUME NEW e \in Events PROVE Number(ready \o more, {e}) = Number(ready, {e})
  <2>1. \A i \in DOMAIN more : more[i] \notin {e}
    BY <1>1, <1>2
  <2> QED
    BY <1>1, <2>1, Lines, NumberConcat
<1> QED
  BY <1>3 DEF more

(* An event more at the end of the line.                                   *)
LEMMA LineGrows ==
  ASSUME TypeOK, NEW x \in Events, ready' = Append(ready, x)
  PROVE  \A e \in Events : Number(ready', {e}) = Number(ready, {e}) + (IF e = x THEN 1 ELSE 0)
<1> TAKE e \in Events
<1>1. x \in Handlers /\ ready \in Seq(Handlers)
  BY Lines DEF Handlers
<1>2. Number(Append(ready, x), {e}) = Number(ready, {e}) + (IF x \in {e} THEN 1 ELSE 0)
  BY <1>1, NumberAppend
<1> QED
  BY <1>2

(* A table without its first event.                                        *)
LEMMA TableShrinks ==
  ASSUME TypeOK, delayed # <<>>, delayed' = Tail(delayed)
  PROVE  /\ Head(delayed).event \in Events
         /\ \A e \in Events :
              Number(delayed, Named(e))
                = Number(delayed', Named(e)) + (IF e = Head(delayed).event THEN 1 ELSE 0)
<1>1. delayed \in Seq(Entry) /\ Head(delayed) \in Entry
  BY TableTypes DEF TypeOK, Entry
<1>2. Head(delayed).event \in Events
  BY <1>1 DEF Entry
<1>3. ASSUME NEW e \in Events
      PROVE  Number(delayed, Named(e))
               = Number(delayed', Named(e)) + (IF e = Head(delayed).event THEN 1 ELSE 0)
  <2>1. Number(delayed, Named(e))
          = Number(Tail(delayed), Named(e)) + (IF Head(delayed) \in Named(e) THEN 1 ELSE 0)
    BY <1>1, NumberTail
  <2>2. Head(delayed) \in Named(e) <=> e = Head(delayed).event
    BY <1>1 DEF Named
  <2> QED
    BY <2>1, <2>2
<1> QED
  BY <1>2, <1>3

LEMMA TableGrows ==
  ASSUME TypeOK, NEW entry \in Entry, InsertDelayed(entry)
  PROVE  \A e \in Events :
           Number(delayed', Named(e))
             = Number(delayed, Named(e)) + (IF e = entry.event THEN 1 ELSE 0)
<1> TAKE e \in Events
<1>1. PICK n \in 0..Len(delayed) : delayed' = Inserted(delayed, n, entry)
  BY DEF InsertDelayed, Inserted
<1>2. delayed \in Seq(Entry) /\ n + 1 \in 1..(Len(delayed) + 1)
  BY DEF TypeOK, Entry
<1> DEFINE t == Inserted(delayed, n, entry)
<1>3. t \in Seq(Entry) /\ Len(t) = Len(delayed) + 1
  BY <1>2, InsertedAt
<1>4. t[n + 1] = entry
  BY <1>2, InsertedAt
<1>5. \A i \in 1..Len(delayed) : t[IF i < n + 1 THEN i ELSE i + 1] = delayed[i]
  BY <1>2, InsertedAt
<1> HIDE DEF t
<1> DEFINE k == n + 1
<1>6. /\ k \in 1..(Len(delayed) + 1) /\ t[k] = entry
      /\ \A i \in 1..Len(delayed) : t[IF i < k THEN i ELSE i + 1] = delayed[i]
  BY <1>2, <1>4, <1>5
<1> HIDE DEF k
<1>7. Number(t, Named(e)) = Number(delayed, Named(e)) + (IF t[k] \in Named(e) THEN 1 ELSE 0)
  BY <1>2, <1>3, <1>6, NumberInsert
<1>8. entry \in Named(e) <=> e = entry.event
  BY DEF Named
<1> QED
  BY <1>1, <1>6, <1>7, <1>8 DEF t

(* An event that is in the table is not among those erased.                *)
LEMMA AtMostOne ==
  ASSUME TypeOK, EventAtOnePlace, NEW e \in Events
  PROVE  Number(delayed, Named(e)) + Gone(cleared, e) <= 1
<1>1. Places(e) = Number(ready, {e}) + Number(delayed, Named(e)) + Cardinality(Hand(handler, e))
                    + executed[e] + Gone(cleared, e)
  BY PlacesAre
<1>2. Places(e) \in {0, 1}
  BY DEF EventAtOnePlace
<1>3. /\ Number(ready, {e}) \in Nat /\ Number(delayed, Named(e)) \in Nat
      /\ Cardinality(Hand(handler, e)) \in Nat /\ executed[e] \in Nat
  BY Counted
<1>4. Gone(cleared, e) \in Nat
  BY DEF Gone
<1> QED
  BY <1>1, <1>2, <1>3, <1>4

(* An empty table: what was in it is erased.                               *)
LEMMA TableCleared ==
  ASSUME TypeOK, EventAtOnePlace, ClearTable, NEW e \in Events
  PROVE  Number(delayed', Named(e)) + Gone(cleared', e)
           = Number(delayed, Named(e)) + Gone(cleared, e)
<1>1. delayed \in Seq(Entry) /\ \A i \in DOMAIN delayed : delayed[i] \in Entry
  <2>1. delayed \in Seq(Entry)
    BY DEF TypeOK, Entry
  <2> QED
    BY <2>1
<1>2. Number(delayed', Named(e)) = 0
  BY NumberEmpty DEF ClearTable
<1>3. Number(delayed, Named(e)) = 0 <=> e \notin InTable
  <2>1. Number(delayed, Named(e)) = 0 <=> \A i \in DOMAIN delayed : delayed[i] \notin Named(e)
    BY <1>1, NumberZero
  <2> QED
    BY <1>1, <2>1 DEF InTable, Named
<1>4. Number(delayed, Named(e)) + Gone(cleared, e) <= 1
  BY AtMostOne
<1>5. Number(delayed, Named(e)) \in Nat
  BY Counted
<1>6. CASE e \in InTable
  BY <1>2, <1>3, <1>4, <1>5, <1>6 DEF ClearTable, Gone
<1>7. CASE e \notin InTable
  BY <1>2, <1>3, <1>7 DEF ClearTable, Gone
<1> QED
  BY <1>6, <1>7

LEMMA PlacesInit == Init => EventAtOnePlace /\ HandsFilled
<1> SUFFICES ASSUME Init PROVE EventAtOnePlace /\ HandsFilled
  OBVIOUS
<1>1. ASSUME NEW e \in Events PROVE Places(e) = 0
  <2>1. Hand(handler, e) = {} /\ executed[e] = 0 /\ Gone(cleared, e) = 0
    BY <1>1, TimerAssumption DEF Init, Hand, Gone
  <2>2. Number(ready, {e}) = 0 /\ Number(delayed, Named(e)) = 0
    BY NumberEmpty DEF Init
  <2>3. Cardinality(Hand(handler, e)) = 0
    BY <2>1, FS_EmptySet
  <2> QED
    BY <2>1, <2>2, <2>3, InitTypes, PlacesAre
<1> QED
  BY <1>1 DEF Init, EventAtOnePlace, HandsFilled

LEMMA CallerKeepsPlaces ==
  ASSUME TypeOK, TypeOK', EventAtOnePlace, HandsFilled, NEW c \in Callers,
         StartCheck(c) \/ StopCheck(c) \/ StartGoesOn(c) \/ StopGoesOn(c)
  PROVE  EventAtOnePlace' /\ HandsFilled'
<1>1. UNCHANGED <<delayed, handler, executed, cleared, post>>
  BY DEF StartCheck, StopCheck, StartGoesOn, StopGoesOn, StartLock, StartSpawn, StartExpire,
         StartWait, StopLock, StopCancel, StopIo, StopJoin, workers, posting
<1>2. \A e \in Events : Number(ready', {e}) = Number(ready, {e})
  <2>1. ready' = ready \/ CancelWaits
    BY DEF StartCheck, StopCheck, StartGoesOn, StopGoesOn, StartLock, StartSpawn, StartExpire,
           StartWait, AsyncWait, StopLock, StopCancel, StopIo, StopJoin, context
  <2> QED
    BY <2>1, NoEventCompletes DEF CancelWaits
<1>3. HandsFilled'
  <2>1. CASE StartSpawn(c)
    <3>1. PICK new \in SUBSET {w \in Workers : worker[w] = "none"} :
            worker' = [w \in Workers |-> IF w \in new THEN "run" ELSE worker[w]]
      BY <2>1 DEF StartSpawn
    <3> QED
      BY <1>1, <3>1 DEF HandsFilled
  <2>2. CASE StopJoin(c)
    BY <1>1, <2>2 DEF StopJoin, HandsFilled
  <2>3. CASE UNCHANGED worker
    BY <1>1, <2>3 DEF HandsFilled
  <2>4. StartSpawn(c) \/ StopJoin(c) \/ UNCHANGED worker
    BY DEF StartCheck, StopCheck, StartGoesOn, StopGoesOn, StartLock, StartExpire,
           StartWait, StopLock, StopCancel, StopIo, workers
  <2> QED
    BY <2>1, <2>2, <2>3, <2>4
<1> QED
  BY <1>1, <1>2, <1>3, NothingMoves

(* A worker gets an event into its hand, or gives one away.                *)
LEMMA HandsMove ==
  ASSUME TypeOK, NEW w \in Workers, NEW x \in Events,
         \/ handler[w] = Nobody /\ handler' = [handler EXCEPT ![w] = x]
         \/ handler[w] = x /\ handler' = [handler EXCEPT ![w] = Nobody]
  PROVE  /\ \A e \in Events \ {x} : Hand(handler', e) = Hand(handler, e)
         /\ Cardinality(Hand(handler', x))
              = Cardinality(Hand(handler, x)) + (IF handler[w] = x THEN -1 ELSE 1)
<1>1. x # Nobody /\ \A e \in Events : e # Nobody
  BY TimerAssumption
<1>2. \A e \in Events \ {x} : Hand(handler', e) = Hand(handler, e)
  BY <1>1 DEF Hand, TypeOK
<1>3. IsFiniteSet(Hand(handler, x)) /\ Cardinality(Hand(handler, x)) \in Nat
  BY Counted
<1>4. CASE handler[w] = Nobody
  <2>1. Hand(handler', x) = Hand(handler, x) \cup {w} /\ w \notin Hand(handler, x)
    BY <1>1, <1>4 DEF Hand, TypeOK
  <2> QED
    BY <1>1, <1>2, <1>3, <1>4, <2>1, FS_AddElement
<1>5. CASE handler[w] = x
  <2>1. Hand(handler', x) = Hand(handler, x) \ {w} /\ w \in Hand(handler, x)
    BY <1>1, <1>5 DEF Hand, TypeOK
  <2>2. Cardinality(Hand(handler', x)) = Cardinality(Hand(handler, x)) - 1
    BY <1>3, <2>1, FS_RemoveElement
  <2> QED
    BY <1>2, <1>3, <1>5, <2>2
<1> QED
  BY <1>4, <1>5

LEMMA WorkerKeepsHands ==
  ASSUME TypeOK, HandsFilled, NEW w \in Workers, Work(w)
  PROVE  HandsFilled'
<1>1. \A e \in Events : e # Nobody /\ e \notin {"tick", "aborted"}
  BY TimerAssumption
<1>2. CASE RunHandler(w)
  <2>1. ready # <<>> /\ Head(ready) \in Handlers
    BY <1>2, TableTypes, Lines DEF RunHandler, Handlers, TypeOK
  <2>2. CASE Head(ready) \in Events
    BY <1>1, <1>2, <2>2 DEF RunHandler, WorkerGoes, HandsFilled, TypeOK
  <2>3. CASE Head(ready) \in {"tick", "aborted"}
    BY <1>1, <1>2, <2>3 DEF RunHandler, WorkerGoes, HandsFilled, TypeOK
  <2> QED
    BY <2>1, <2>2, <2>3 DEF Handlers
<1>3. CASE EventEnds(w)
  BY <1>3 DEF EventEnds, WorkerGoes, HandsFilled, TypeOK
<1>4. CASE PostDue(w)
  BY <1>4 DEF PostDue, workers, HandsFilled
<1>5. CASE /\ UNCHANGED handler /\ worker[w] # "event"
           /\ \E to \in {"run", "exited", "check", "due", "expire", "wait"} :
                worker' = [worker EXCEPT ![w] = to]
  BY <1>5 DEF HandsFilled, TypeOK
<1>6. WorkerExits(w) \/ CheckAborted(w) \/ CheckClock(w) \/ CheckLock(w) \/ CheckUnlock(w)
        \/ CheckExpire(w) \/ CheckWait(w)
      => /\ UNCHANGED handler /\ worker[w] # "event"
         /\ \E to \in {"run", "exited", "check", "due", "expire", "wait"} :
              worker' = [worker EXCEPT ![w] = to]
  BY DEF WorkerExits, CheckAborted, CheckClock, CheckLock, CheckUnlock, CheckExpire, CheckWait,
         WorkerGoes
<1> QED
  BY <1>2, <1>3, <1>4, <1>5, <1>6 DEF Work

(* What run_for() takes from the line it has in its hand.                  *)
LEMMA HandlerTaken ==
  ASSUME TypeOK, TypeOK', EventAtOnePlace, HandsFilled, NEW w \in Workers, RunHandler(w)
  PROVE  EventAtOnePlace'
<1>1. /\ ready \in Seq(Handlers) /\ ready # <<>> /\ ready' = Tail(ready)
      /\ UNCHANGED <<delayed, executed, cleared, post>>
  BY Lines DEF RunHandler, posting
<1>2. ASSUME NEW e \in Events
      PROVE  Number(ready, {e}) = Number(ready', {e}) + (IF Head(ready) = e THEN 1 ELSE 0)
  <2>1. Number(ready, {e}) = Number(Tail(ready), {e}) + (IF Head(ready) \in {e} THEN 1 ELSE 0)
    BY <1>1, NumberTail
  <2> QED
    BY <1>1, <2>1
<1>3. /\ \A e \in Events : Number(ready', {e}) \in Nat
      /\ \A e \in Events : Cardinality(Hand(handler, e)) \in Nat
  <2>1. Tail(ready) \in Seq(Handlers)
    BY <1>1
  <2> QED
    BY <1>1, <2>1, Counted, HitsFinite
<1>4. CASE Head(ready) \in Events
  <2> DEFINE x == Head(ready)
  <2>1. handler[w] = Nobody /\ handler' = [handler EXCEPT ![w] = x]
    BY <1>4 DEF RunHandler, WorkerGoes, HandsFilled
  <2>2. /\ \A e \in Events \ {x} : Hand(handler', e) = Hand(handler, e)
        /\ Cardinality(Hand(handler', x)) = Cardinality(Hand(handler, x)) + 1
    <3>1. handler[w] # x
      BY <1>4, <2>1, TimerAssumption
    <3> HIDE DEF x
    <3>2. x \in Events
      BY <1>4 DEF x
    <3> QED
      BY <2>1, <3>1, <3>2, HandsMove
  <2>3. ASSUME NEW e \in Events
        PROVE  Number(ready', {e}) + Cardinality(Hand(handler', e))
                 = Number(ready, {e}) + Cardinality(Hand(handler, e))
    <3>1. CASE e = x
      BY <1>2, <1>3, <2>2, <3>1
    <3>2. CASE e # x
      BY <1>2, <1>3, <2>2, <3>2
    <3> QED
      BY <3>1, <3>2
  <2>4. \A e \in Events :
          Cardinality(Hand(handler', e)) \in Nat /\ Number(ready, {e}) \in Nat
    <3> TAKE e \in Events
    <3>1. Number(ready, {e}) \in Nat /\ Cardinality(Hand(handler, e)) \in Nat
      BY Counted
    <3>2. CASE e = x
      BY <2>2, <3>1, <3>2
    <3>3. CASE e # x
      BY <2>2, <3>1, <3>3
    <3> QED
      BY <3>1, <3>2, <3>3
  <2>5. \A e \in Events :
          /\ Number(delayed', Named(e)) = Number(delayed, Named(e))
          /\ Number(delayed, Named(e)) \in Nat
          /\ executed'[e] = executed[e] /\ executed[e] \in Nat
          /\ Gone(cleared', e) = Gone(cleared, e) /\ Gone(cleared, e) \in Nat
          /\ post'[e] = post[e]
    BY <1>1, Counted DEF Gone
  <2> QED
    BY <1>3, <2>3, <2>4, <2>5, Balance
<1>5. CASE Head(ready) \notin Events
  <2>1. UNCHANGED handler
    BY <1>5 DEF RunHandler
  <2>2. ASSUME NEW e \in Events PROVE Number(ready', {e}) = Number(ready, {e})
    <3>1. Number(ready, {e}) = Number(ready', {e}) + (IF Head(ready) = e THEN 1 ELSE 0)
      BY <1>2
    <3>2. Head(ready) # e /\ Number(ready', {e}) \in Nat
      BY <1>3, <1>5
    <3> QED
      BY <3>1, <3>2
  <2> QED
    BY <1>1, <2>1, <2>2, NothingMoves
<1> QED
  BY <1>4, <1>5

(* An event that ends leaves the hand of its worker and is executed.       *)
LEMMA EventExecuted ==
  ASSUME TypeOK, TypeOK', EventAtOnePlace, HandsFilled, NEW w \in Workers, EventEnds(w)
  PROVE  EventAtOnePlace'
<1> DEFINE x == handler[w]
<1>1. x \in Events
  <2>1. x # Nobody /\ x \in Events \cup {Nobody}
    BY DEF EventEnds, WorkerGoes, HandsFilled, TypeOK
  <2> QED
    BY <2>1
<1>2. /\ UNCHANGED <<ready, delayed, cleared, post>>
      /\ handler' = [handler EXCEPT ![w] = Nobody]
      /\ executed' = [executed EXCEPT ![x] = @ + 1]
  BY DEF EventEnds, context, posting
<1>3. executed'[x] = executed[x] + 1 /\ \A e \in Events \ {x} : executed'[e] = executed[e]
  BY <1>1, <1>2 DEF TypeOK
<1>4. handler[w] = x
  OBVIOUS
<1> HIDE DEF x
<1>5. /\ \A e \in Events \ {x} : Hand(handler', e) = Hand(handler, e)
      /\ Cardinality(Hand(handler', x)) = Cardinality(Hand(handler, x)) + (-1)
  BY <1>1, <1>2, <1>4, HandsMove
<1>6. ASSUME NEW e \in Events
      PROVE  Cardinality(Hand(handler', e)) + executed'[e] = Cardinality(Hand(handler, e)) + executed[e]
             /\ Cardinality(Hand(handler', e)) \in Int /\ executed'[e] \in Nat
  <2>1. Cardinality(Hand(handler, e)) \in Nat /\ executed[e] \in Nat
    BY Counted
  <2>2. CASE e = x
    BY <1>3, <1>5, <2>1, <2>2
  <2>3. CASE e # x
    BY <1>3, <1>5, <2>1, <2>3
  <2> QED
    BY <2>2, <2>3
<1>7. \A e \in Events :
        /\ Number(ready', {e}) = Number(ready, {e}) /\ Number(ready, {e}) \in Nat
        /\ Number(delayed', Named(e)) = Number(delayed, Named(e))
        /\ Number(delayed, Named(e)) \in Nat
        /\ Cardinality(Hand(handler, e)) \in Nat /\ executed[e] \in Nat
        /\ Gone(cleared', e) = Gone(cleared, e) /\ Gone(cleared, e) \in Nat
        /\ post'[e] = post[e]
  BY <1>2, Counted DEF Gone
<1>8. ASSUME NEW e \in Events
      PROVE  Number(ready', {e}) + Number(delayed', Named(e)) + Cardinality(Hand(handler', e))
               + executed'[e] + Gone(cleared', e) + (IF post[e] = "made" THEN 1 ELSE 0)
             = Number(ready, {e}) + Number(delayed, Named(e)) + Cardinality(Hand(handler, e))
               + executed[e] + Gone(cleared, e) + (IF post'[e] = "made" THEN 1 ELSE 0)
  <2>1. /\ Cardinality(Hand(handler', e)) + executed'[e] = Cardinality(Hand(handler, e)) + executed[e]
        /\ Cardinality(Hand(handler', e)) \in Int /\ executed'[e] \in Nat
    BY <1>6
  <2> QED
    BY <1>7, <2>1
<1> QED
  BY <1>8, Balance

(* The table is emptied by a check that was aborted, or by the caller.     *)
LEMMA AllErased ==
  ASSUME TypeOK, TypeOK', EventAtOnePlace, ClearTable, UNCHANGED <<ready, handler, executed, post>>
  PROVE  EventAtOnePlace'
<1>1. \A e \in Events : Number(delayed', Named(e)) + Gone(cleared', e)
                          = Number(delayed, Named(e)) + Gone(cleared, e)
  BY TableCleared
<1>2. ASSUME NEW e \in Events
      PROVE  /\ Number(delayed', Named(e)) \in Nat /\ Number(delayed, Named(e)) \in Nat
             /\ Gone(cleared', e) \in Nat /\ Gone(cleared, e) \in Nat
  <2>1. Number(delayed', Named(e)) = 0
    BY NumberEmpty DEF ClearTable
  <2>2. Number(delayed, Named(e)) \in Nat
    BY Counted
  <2> QED
    BY <2>1, <2>2 DEF Gone
<1>3. \A e \in Events :
        /\ Number(ready', {e}) = Number(ready, {e}) /\ Number(ready, {e}) \in Nat
        /\ Hand(handler', e) = Hand(handler, e) /\ Cardinality(Hand(handler, e)) \in Nat
        /\ executed'[e] = executed[e] /\ executed[e] \in Nat
        /\ post'[e] = post[e]
  BY Counted
<1> QED
  BY <1>1, <1>2, <1>3, Balance

(* A due event goes from the table to the line, or is refused.             *)
LEMMA DuePosted ==
  ASSUME TypeOK, TypeOK', EventAtOnePlace, NEW w \in Workers, PostDue(w)
  PROVE  EventAtOnePlace'
<1> DEFINE x == Head(delayed).event
<1>1. /\ delayed # <<>> /\ delayed' = Tail(delayed)
      /\ UNCHANGED <<handler, executed, post>>
      /\ \/ ready' = ready /\ cleared' = cleared \cup {x}
         \/ ready' = Append(ready, x) /\ cleared' = cleared
  BY DEF PostDue, FirstIsDue, workers, posting
<1>2. /\ x \in Events
      /\ \A e \in Events : Number(delayed, Named(e))
                             = Number(delayed', Named(e)) + (IF e = x THEN 1 ELSE 0)
  BY <1>1, TableShrinks
<1> HIDE DEF x
<1>3. \A e \in Events : Number(delayed', Named(e)) \in Nat
  <2>1. delayed' \in Seq(Entry)
    BY DEF TypeOK, Entry
  <2> QED
    BY <2>1, HitsFinite
<1>4. ASSUME NEW e \in Events
      PROVE  Number(ready', {e}) + Gone(cleared', e)
               = Number(ready, {e}) + Gone(cleared, e) + (IF e = x THEN 1 ELSE 0)
             /\ Number(ready', {e}) \in Nat
  <2>1. Number(ready, {e}) \in Nat
    BY Counted
  <2>2. CASE ready' = ready /\ cleared' = cleared \cup {x}
    <3>1. CASE e = x
      <4>1. Number(delayed, Named(e)) + Gone(cleared, e) <= 1
        BY AtMostOne
      <4>2. Number(delayed, Named(e)) = Number(delayed', Named(e)) + 1
        BY <1>2, <3>1
      <4>3. Number(delayed', Named(e)) \in Nat
        BY <1>3
      <4>4. Gone(cleared, e) = 0
        BY <4>1, <4>2, <4>3 DEF Gone
      <4>5. Gone(cleared', e) = 1
        BY <2>2, <3>1 DEF Gone
      <4> QED
        BY <2>1, <2>2, <3>1, <4>4, <4>5
    <3>2. CASE e # x
      <4>1. Gone(cleared', e) = Gone(cleared, e) /\ Gone(cleared, e) \in Nat
        BY <2>2, <3>2 DEF Gone
      <4> QED
        BY <2>1, <2>2, <3>2, <4>1
    <3> QED
      BY <3>1, <3>2
  <2>3. CASE ready' = Append(ready, x) /\ cleared' = cleared
    <3>1. Number(ready', {e}) = Number(ready, {e}) + (IF e = x THEN 1 ELSE 0)
      BY <1>2, <2>3, LineGrows
    <3>2. Gone(cleared', e) = Gone(cleared, e) /\ Gone(cleared, e) \in Nat
      BY <2>3 DEF Gone
    <3> QED
      BY <2>1, <3>1, <3>2
  <2> QED
    BY <1>1, <2>2, <2>3
<1>5. \A e \in Events :
        /\ Hand(handler', e) = Hand(handler, e) /\ Cardinality(Hand(handler, e)) \in Nat
        /\ executed'[e] = executed[e] /\ executed[e] \in Nat
        /\ Gone(cleared', e) \in Nat /\ Gone(cleared, e) \in Nat
        /\ Number(ready, {e}) \in Nat
        /\ post'[e] = post[e]
  BY <1>1, Counted DEF Gone
<1>6. ASSUME NEW e \in Events
      PROVE  Number(ready', {e}) + Number(delayed', Named(e)) + Gone(cleared', e)
               = Number(ready, {e}) + Number(delayed, Named(e)) + Gone(cleared, e)
  <2>1. /\ Number(ready', {e}) + Gone(cleared', e)
             = Number(ready, {e}) + Gone(cleared, e) + (IF e = x THEN 1 ELSE 0)
        /\ Number(ready', {e}) \in Nat
    BY <1>4
  <2>2. Number(delayed, Named(e)) = Number(delayed', Named(e)) + (IF e = x THEN 1 ELSE 0)
    BY <1>2
  <2>3. Number(delayed', Named(e)) \in Nat /\ Number(ready, {e}) \in Nat
        /\ Gone(cleared', e) \in Nat /\ Gone(cleared, e) \in Nat
    BY <1>3, <1>5
  <2> QED
    BY <2>1, <2>2, <2>3
<1>7. ASSUME NEW e \in Events
      PROVE  Number(ready', {e}) + Number(delayed', Named(e)) + Cardinality(Hand(handler', e))
               + executed'[e] + Gone(cleared', e) + (IF post[e] = "made" THEN 1 ELSE 0)
             = Number(ready, {e}) + Number(delayed, Named(e)) + Cardinality(Hand(handler, e))
               + executed[e] + Gone(cleared, e) + (IF post'[e] = "made" THEN 1 ELSE 0)
  <2>1. Number(ready', {e}) \in Nat /\ Number(delayed, Named(e)) \in Nat
    BY <1>4, Counted
  <2>2. Number(delayed', Named(e)) \in Nat
    BY <1>3
  <2> QED
    BY <1>5, <1>6, <2>1, <2>2
<1> QED
  BY <1>7, Balance

LEMMA WorkerKeepsPlaces ==
  ASSUME TypeOK, TypeOK', EventAtOnePlace, HandsFilled, NEW w \in Workers, Work(w)
  PROVE  EventAtOnePlace'
<1>1. CASE RunHandler(w)
  BY <1>1, HandlerTaken
<1>2. CASE EventEnds(w)
  BY <1>2, EventExecuted
<1>3. CASE CheckAborted(w)
  BY <1>3, AllErased DEF CheckAborted, context, posting
<1>4. CASE PostDue(w)
  BY <1>4, DuePosted
<1>5. CASE CheckExpire(w)
  <2>1. \A e \in Events : Number(ready', {e}) = Number(ready, {e})
    BY <1>5, NoEventCompletes DEF CheckExpire, CancelWaits
  <2> QED
    BY <1>5, <2>1, NothingMoves DEF CheckExpire, posting
<1>6. CASE UNCHANGED <<ready, delayed, handler, executed, cleared, post>>
  <2>1. \A e \in Events : Number(ready', {e}) = Number(ready, {e})
    BY <1>6
  <2> QED
    BY <1>6, <2>1, NothingMoves
<1>7. WorkerExits(w) \/ CheckClock(w) \/ CheckLock(w) \/ CheckUnlock(w) \/ CheckWait(w)
      => UNCHANGED <<ready, delayed, handler, executed, cleared, post>>
  BY DEF WorkerExits, CheckClock, CheckLock, CheckUnlock, CheckWait, AsyncWait, context, posting
<1> QED
  BY <1>1, <1>2, <1>3, <1>4, <1>5, <1>6, <1>7 DEF Work

(* A post that is made puts its event into the line or into the table.     *)
LEMMA PostKeepsPlaces ==
  ASSUME TypeOK, TypeOK', EventAtOnePlace, NEW x \in Events, PostCheck(x) \/ PostGoesOn(x)
  PROVE  EventAtOnePlace'
<1>1. UNCHANGED <<handler, executed, cleared>>
  BY DEF PostCheck, PostGoesOn, PostReady, PostInTable, workers
<1>2. ASSUME NEW e \in Events
      PROVE  /\ Number(ready, {e}) \in Nat /\ Number(delayed, Named(e)) \in Nat
             /\ Cardinality(Hand(handler, e)) \in Nat /\ executed[e] \in Nat
             /\ Gone(cleared, e) \in Nat
             /\ Hand(handler', e) = Hand(handler, e)
             /\ executed'[e] = executed[e] /\ Gone(cleared', e) = Gone(cleared, e)
  BY <1>1, Counted DEF Gone
<1>3. CASE PostCheck(x)
  <2>1. \A e \in Events : Number(ready', {e}) = Number(ready, {e})
    BY <1>3 DEF PostCheck, context
  <2>2. \A e \in Events : post'[e] = "made" <=> post[e] = "made"
    BY <1>3 DEF PostCheck, TypeOK
  <2> QED
    BY <1>1, <1>3, <2>1, <2>2, NothingMoves DEF PostCheck
<1>4. ASSUME NEW e \in Events, PostGoesOn(x)
      PROVE  (IF post'[e] = "made" THEN 1 ELSE 0)
               = (IF post[e] = "made" THEN 1 ELSE 0) + (IF e = x THEN 1 ELSE 0)
  BY <1>4 DEF PostGoesOn, PostReady, PostInTable, TypeOK
<1>5. CASE PostReady(x)
  <2>1. \A e \in Events : Number(ready', {e}) = Number(ready, {e}) + (IF e = x THEN 1 ELSE 0)
    BY <1>5, LineGrows DEF PostReady
  <2>2. \A e \in Events : Number(delayed', Named(e)) = Number(delayed, Named(e))
    BY <1>5 DEF PostReady
  <2>3. ASSUME NEW e \in Events
        PROVE  Number(ready', {e}) + Number(delayed', Named(e)) + Cardinality(Hand(handler', e))
                 + executed'[e] + Gone(cleared', e) + (IF post[e] = "made" THEN 1 ELSE 0)
               = Number(ready, {e}) + Number(delayed, Named(e)) + Cardinality(Hand(handler, e))
                 + executed[e] + Gone(cleared, e) + (IF post'[e] = "made" THEN 1 ELSE 0)
    BY <1>2, <1>4, <1>5, <2>1, <2>2 DEF PostGoesOn
  <2> QED
    BY <2>3, Balance
<1>6. CASE PostInTable(x)
  <2>1. \A e \in Events : Number(ready', {e}) = Number(ready, {e})
    BY <1>6 DEF PostInTable, context
  <2>2. \A e \in Events :
          Number(delayed', Named(e)) = Number(delayed, Named(e)) + (IF e = x THEN 1 ELSE 0)
    <3> DEFINE entry == [event |-> x, at |-> deadline[x]]
    <3>1. entry \in Entry /\ entry.event = x
      BY DEF TypeOK, Entry
    <3>2. InsertDelayed(entry)
      BY <1>6 DEF PostInTable
    <3> HIDE DEF entry
    <3> QED
      BY <3>1, <3>2, TableGrows
  <2>3. ASSUME NEW e \in Events
        PROVE  Number(ready', {e}) + Number(delayed', Named(e)) + Cardinality(Hand(handler', e))
                 + executed'[e] + Gone(cleared', e) + (IF post[e] = "made" THEN 1 ELSE 0)
               = Number(ready, {e}) + Number(delayed, Named(e)) + Cardinality(Hand(handler, e))
                 + executed[e] + Gone(cleared, e) + (IF post'[e] = "made" THEN 1 ELSE 0)
    BY <1>2, <1>4, <1>6, <2>1, <2>2 DEF PostGoesOn
  <2> QED
    BY <2>3, Balance
<1> QED
  BY <1>3, <1>5, <1>6 DEF PostGoesOn

LEMMA PlacesStep ==
  TypeOK /\ EventAtOnePlace /\ HandsFilled /\ [Next]_vars => EventAtOnePlace' /\ HandsFilled'
<1> SUFFICES ASSUME TypeOK, EventAtOnePlace, HandsFilled, [Next]_vars
             PROVE  EventAtOnePlace' /\ HandsFilled'
  OBVIOUS
<1>1. TypeOK'
  BY StepTypes
<1>2. ASSUME NEW c \in Callers, StartCheck(c) \/ StopCheck(c) \/ StartGoesOn(c) \/ StopGoesOn(c)
      PROVE  EventAtOnePlace' /\ HandsFilled'
  BY <1>1, <1>2, CallerKeepsPlaces
<1>3. ASSUME NEW e \in Events, PostCheck(e) \/ PostGoesOn(e)
      PROVE  EventAtOnePlace' /\ HandsFilled'
  <2>1. UNCHANGED workers
    BY <1>3 DEF PostCheck, PostGoesOn, PostReady, PostInTable
  <2> QED
    BY <1>1, <1>3, <2>1, PostKeepsPlaces DEF HandsFilled, workers
<1>4. ASSUME NEW w \in Workers, Work(w)
      PROVE  EventAtOnePlace' /\ HandsFilled'
  BY <1>1, <1>4, WorkerKeepsPlaces, WorkerKeepsHands
<1>5. CASE ClearDelayedEvent
  BY <1>1, <1>5, AllErased DEF ClearDelayedEvent, context, workers, HandsFilled
<1>6. CASE Expire
  <2>1. \A e \in Events : Number(ready', {e}) = Number(ready, {e})
    BY <1>6, NoEventCompletes DEF Expire
  <2> QED
    BY <1>1, <1>6, <2>1, NothingMoves DEF Expire, workers, posting, HandsFilled
<1>7. CASE ClockTick \/ UNCHANGED vars
  <2>1. \A e \in Events : Number(ready', {e}) = Number(ready, {e})
    BY <1>7 DEF ClockTick, vars, context
  <2> QED
    BY <1>1, <1>7, <2>1, NothingMoves DEF ClockTick, vars, context, workers, posting, HandsFilled
<1> QED
  BY <1>2, <1>3, <1>4, <1>5, <1>6, <1>7 DEF Next

(* However checks, posts, stops and restarts overlap, an event that was    *)
(* posted is in the line, in the table, in the hand of one worker,         *)
(* executed once or erased: never at two of these places and never at none.*)
THEOREM EventsAtOnePlace == Spec => []EventAtOnePlace
<1>1. TypeOK /\ EventAtOnePlace /\ HandsFilled /\ [Next]_vars
        => (TypeOK /\ EventAtOnePlace /\ HandsFilled)'
  BY StepTypes, PlacesStep
<1> QED
  BY InitTypes, PlacesInit, <1>1, PTL DEF Spec
-----------------------------------------------------------------------------
(* What StopReturns rests on, as far as it is not fairness: who waits for  *)
(* startlock waits for a caller in the middle of Start() or Stop(), which  *)
(* waits for no lock but in join(); there the io_context is stopped, so    *)
(* that a worker that comes back to run_for() ends; and who waits for      *)
(* delay_event_lock_ on its way there waits for one worker, which only     *)
(* posts.                                                                  *)
LocksComeFree ==
  /\ startlock # Nobody => startlock \in Callers /\ caller[startlock] \in Holding
  /\ \A c \in Callers : caller[c] = "join" => ioStopped
  /\ \A v, w \in Workers : worker[v] = "due" /\ worker[w] = "due" => v = w

LEMMA CallerKeepsLocks ==
  ASSUME Ownership, LocksComeFree, NEW c \in Callers,
         StartCheck(c) \/ StopCheck(c) \/ StartGoesOn(c) \/ StopGoesOn(c)
  PROVE  LocksComeFree'
<1> USE TimerAssumption DEF Ownership, Holding, CallerGoes, LocksComeFree
<1>1. CASE StartCheck(c) \/ StopCheck(c)
  BY <1>1 DEF StartCheck, StopCheck, context, workers
<1>2. CASE StartLock(c) \/ StopLock(c)
  BY <1>2 DEF StartLock, StopLock, context, workers
<1>3. CASE StartSpawn(c)
  BY <1>3 DEF StartSpawn, context
<1>4. CASE StartExpire(c) \/ StopCancel(c)
  BY <1>4 DEF StartExpire, StopCancel, CancelWaits, workers
<1>5. CASE StartWait(c)
  BY <1>5 DEF StartWait, AsyncWait, workers
<1>6. CASE StopIo(c)
  BY <1>6 DEF StopIo, workers
<1>7. CASE StopJoin(c)
  BY <1>7 DEF StopJoin, context
<1> QED
  BY <1>1, <1>2, <1>3, <1>4, <1>5, <1>6, <1>7 DEF StartGoesOn, StopGoesOn

LEMMA WorkerKeepsLocks ==
  ASSUME TypeOK, Ownership, LocksComeFree, NEW w \in Workers, Work(w)
  PROVE  LocksComeFree'
<1>1. UNCHANGED <<owners, ioStopped>>
  BY DEF Work, WorkerExits, RunHandler, EventEnds, CheckAborted, CheckClock, CheckLock, PostDue,
     CheckUnlock, CheckExpire, CheckWait, CancelWaits, AsyncWait, context
<1>2. ASSUME NEW to, worker' = [worker EXCEPT ![w] = to], to # "due" PROVE LocksComeFree'
  BY <1>1, <1>2 DEF LocksComeFree, Ownership, owners
<1>3. CASE CheckLock(w)
  BY <1>1, <1>3 DEF CheckLock, WorkerGoes, TableLocked, LocksComeFree, Ownership, owners
<1>4. CASE PostDue(w)
  BY <1>1, <1>4 DEF PostDue, workers, LocksComeFree, Ownership, owners
<1>5. CASE RunHandler(w)
  <2>1. Head(ready) \in Handlers
    <3>1. ready \in Seq(Handlers) /\ ready # <<>>
      BY <1>5 DEF RunHandler, TypeOK, Handlers
    <3> QED
      BY <3>1
  <2>2. CASE Head(ready) \in Events
    BY <1>2, <1>5, <2>2 DEF RunHandler, WorkerGoes
  <2>3. CASE Head(ready) \in {"tick", "aborted"}
    <3>1. Head(ready) \notin Events
      BY <2>3, TimerAssumption
    <3> QED
      BY <1>2, <1>5, <2>3, <3>1 DEF RunHandler, WorkerGoes
  <2> QED
    BY <2>1, <2>2, <2>3 DEF Handlers
<1>6. CASE WorkerExits(w) \/ EventEnds(w) \/ CheckAborted(w) \/ CheckClock(w)
  BY <1>2, <1>6 DEF WorkerExits, EventEnds, CheckAborted, CheckClock, WorkerGoes
<1>7. CASE CheckUnlock(w) \/ CheckExpire(w) \/ CheckWait(w)
  BY <1>2, <1>7 DEF CheckUnlock, CheckExpire, CheckWait, WorkerGoes
<1> QED
  BY <1>3, <1>4, <1>5, <1>6, <1>7 DEF Work

(* However Start(), Stop(), posts and checks overlap, both locks have an   *)
(* owner that can give them up, and Stop() joins workers that end.         *)
THEOREM LocksHaveOwners == Spec => []LocksComeFree
<1>1. Init => LocksComeFree
  BY DEF Init, LocksComeFree
<1>2. TypeOK /\ Ownership /\ LocksComeFree /\ [Next]_vars => LocksComeFree'
  <2> SUFFICES ASSUME TypeOK, Ownership, LocksComeFree, [Next]_vars PROVE LocksComeFree'
    OBVIOUS
  <2>1. ASSUME UNCHANGED <<owners, ioStopped, workers>> PROVE LocksComeFree'
    BY <2>1 DEF LocksComeFree, owners, workers
  <2>2. ASSUME NEW e \in Events, PostCheck(e) \/ PostGoesOn(e) PROVE LocksComeFree'
    BY <2>1, <2>2 DEF PostCheck, PostGoesOn, PostReady, PostInTable, context
  <2>3. CASE ClearDelayedEvent \/ Expire \/ ClockTick \/ UNCHANGED vars
    BY <2>1, <2>3 DEF ClearDelayedEvent, Expire, ClockTick, context, vars
  <2> QED
    BY <2>2, <2>3, CallerKeepsLocks, WorkerKeepsLocks DEF Next
<1> QED
  BY InitTypes, StepTypes, OwnershipInit, OwnershipStep, <1>1, <1>2, PTL DEF Spec

=============================================================================
