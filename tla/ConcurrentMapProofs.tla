------------------------- MODULE ConcurrentMapProofs -------------------------
(***************************************************************************)
(* Proofs about ConcurrentMap, for any sets of callers and values, any     *)
(* finite set of keys, any number of buckets, any hash function and any    *)
(* Compare.  Inv is the inductive invariant; relative to it every step of  *)
(* the buckets is a step of AtomicMap or changes nothing there, and keeps  *)
(* Snapshot, what a call under way has listed or counted so far.           *)
(***************************************************************************)
EXTENDS ConcurrentMap, FiniteSetTheorems, TLAPS

(* A call about one key has one entry, is at its bucket until it is done,  *)
(* and has answered nothing before; only a batch is inside a bucket, alone;*)
(* nobody has passed an entry in a bucket he is not in.                    *)
CallShape ==
  \A c \in Callers :
    /\ op[c] = "none" => at[c] = BucketNums /\ list[c] = <<>> /\ total[c] = 0
    /\ op[c] \in KeyCalls =>
         /\ Len(entries[c]) = 1
         /\ at[c] # BucketNums =>
              at[c] = Home(entries[c][1].key) /\ list[c] = <<>> /\ total[c] = 0
    /\ inside[c] => op[c] \in Batches /\ at[c] \in Buckets
    /\ ~inside[c] => next[c] = 1

Inv == TypeOK /\ CallShape /\ OneInside

(* The bucket of a key exists. *)
LEMMA HomeType == \A k \in Keys : Home(k) \in Buckets
<1> TAKE k \in Keys
<1>1. Hash[k] \in Nat /\ BucketNums \in Nat \ {0}
  BY ConcurrentMapAssumption
<1>2. Hash[k] % BucketNums \in 0..(BucketNums - 1)
  BY <1>1
<1> QED
  BY <1>2 DEF Home, Buckets

(* What a map of a bucket is. *)
LEMMA BucketMapType ==
  ASSUME NEW b, NEW m
  PROVE  m \in BucketMap(b) <=>
           /\ m \in [DOMAIN m -> Values]
           /\ \A k \in DOMAIN m : k \in Keys /\ Home(k) = b
BY DEF BucketMap

(* An operation keeps the map of a bucket one, and does to the key of its  *)
(* entry what AtomicMap says and nothing to the others.                    *)
LEMMA AppliedKey ==
  ASSUME NEW b, NEW m \in BucketMap(b), NEW e \in Entry, Home(e.key) = b,
         NEW name \in Atomic!Writers
  PROVE  /\ Applied(name, m, e) \in BucketMap(b)
         /\ \A k \in Keys \ {e.key} : ValueIn(Applied(name, m, e), k) = ValueIn(m, k)
         /\ ValueIn(Applied(name, m, e), e.key) =
              Atomic!Becomes(name, ValueIn(m, e.key), e.value)
<1> DEFINE k0 == e.key
           v0 == e.value
<1>0. k0 \in Keys /\ v0 \in Values /\ Absent \notin Values
  BY ConcurrentMapAssumption DEF Entry
<1>1. m \in [DOMAIN m -> Values] /\ \A k \in DOMAIN m : k \in Keys /\ Home(k) = b
  BY BucketMapType
<1>2. Compare \subseteq Values \X Values
  BY ConcurrentMapAssumption
<1>3. ASSUME TRUE
      PROVE  /\ Put(m, k0, v0) \in BucketMap(b)
             /\ \A k \in Keys \ {k0} : ValueIn(Put(m, k0, v0), k) = ValueIn(m, k)
             /\ ValueIn(Put(m, k0, v0), k0) = v0
  <2>1. DOMAIN Put(m, k0, v0) = DOMAIN m \cup {k0}
    BY DEF Put
  <2>2. Put(m, k0, v0) \in [DOMAIN m \cup {k0} -> Values]
    BY <1>0, <1>1 DEF Put
  <2>3. Put(m, k0, v0) \in BucketMap(b)
    BY <1>0, <1>1, <2>1, <2>2, BucketMapType
  <2>4. \A k \in Keys \ {k0} : ValueIn(Put(m, k0, v0), k) = ValueIn(m, k)
    BY <2>1 DEF Put, ValueIn
  <2>5. ValueIn(Put(m, k0, v0), k0) = v0
    BY <2>1 DEF Put, ValueIn
  <2> QED
    BY <2>3, <2>4, <2>5
<1>4. CASE name \in {"Delete", "RemoveKeyBatch"}
  <2> DEFINE n == RemoveWithoutLock(m, k0)
  <2>1. n = [k \in DOMAIN m \ {k0} |-> m[k]]
    BY DEF RemoveWithoutLock, Restrict
  <2>2. DOMAIN n = DOMAIN m \ {k0} /\ n \in [DOMAIN m \ {k0} -> Values]
    BY <1>1, <2>1
  <2>3. n \in BucketMap(b)
    BY <1>1, <2>2, BucketMapType
  <2>4. \A k \in Keys \ {k0} : ValueIn(n, k) = ValueIn(m, k)
    BY <2>1 DEF ValueIn
  <2>5. ValueIn(n, k0) = Absent
    BY <2>1 DEF ValueIn
  <2>6. Applied(name, m, e) = n
    BY <1>4 DEF Applied
  <2>7. Atomic!Becomes(name, ValueIn(m, k0), v0) = Absent
    BY <1>4 DEF Atomic!Becomes
  <2> HIDE DEF n
  <2> QED
    BY <2>3, <2>4, <2>5, <2>6, <2>7
<1>5. CASE name \in {"Insert", "InsertKeyBatch"}
  <2>1. Applied(name, m, e) = InsertWithoutLock(m, k0, v0)
    BY <1>5 DEF Applied
  <2>2. CASE k0 \notin DOMAIN m
    <3>1. Atomic!Becomes(name, ValueIn(m, k0), v0) = v0
      BY <1>5, <2>2 DEF Atomic!Becomes, ValueIn
    <3> QED
      BY <1>3, <2>1, <2>2, <3>1 DEF InsertWithoutLock
  <2>3. CASE k0 \in DOMAIN m
    <3>1. ValueIn(m, k0) = m[k0] /\ m[k0] # Absent
      BY <1>0, <1>1, <2>3 DEF ValueIn
    <3>2. Atomic!Becomes(name, m[k0], v0) = IF <<v0, m[k0]>> \in Compare THEN v0 ELSE m[k0]
      BY <1>5, <3>1 DEF Atomic!Becomes
    <3> QED
      BY <1>3, <2>1, <2>3, <3>1, <3>2 DEF InsertWithoutLock, Replaces
  <2> QED
    BY <2>2, <2>3
<1>6. CASE name \in {"Update", "UpdateKeyBatch"}
  <2>1. Applied(name, m, e) = UpdateWithoutLock(m, k0, v0)
    BY <1>6 DEF Applied
  <2>2. Atomic!Becomes(name, ValueIn(m, k0), v0)
          = IF <<v0, ValueIn(m, k0)>> \in Compare THEN v0 ELSE ValueIn(m, k0)
    BY <1>6 DEF Atomic!Becomes
  <2>3. Replaces(m, k0, v0) <=> <<v0, ValueIn(m, k0)>> \in Compare
    BY <1>0, <1>2 DEF Replaces, ValueIn
  <2> QED
    BY <1>3, <2>1, <2>2, <2>3 DEF UpdateWithoutLock
<1> QED
  BY <1>4, <1>5, <1>6 DEF Atomic!Writers

-----------------------------------------------------------------------------
(* An empty map is one of any bucket. *)
LEMMA EmptyMapType == \A b : EmptyMap \in BucketMap(b)
<1> TAKE b
<1>1. DOMAIN EmptyMap = {} /\ EmptyMap \in [{} -> Values]
  BY DEF EmptyMap
<1> QED
  BY <1>1, BucketMapType

(* A map without entries has the shape. *)
LEMMA InitInv == Init => Inv
<1> SUFFICES ASSUME Init PROVE Inv
  OBVIOUS
<1> USE DEF Init
<1>1. BucketNums \in Nat \ {0}
  BY ConcurrentMapAssumption
<1>2. \A b \in Buckets : bucket[b] \in BucketMap(b)
  BY EmptyMapType
<1>3. TypeOK
  BY <1>1, <1>2 DEF TypeOK
<1>4. CallShape /\ OneInside
  BY DEF CallShape, OneInside, KeyCalls
<1> QED
  BY <1>3, <1>4 DEF Inv

(* What the calls to consider look like. *)
LEMMA CallType ==
  ASSUME NEW call \in Calls
  PROVE  /\ call.op \in KeyCalls \cup Batches \cup WholeMap
         /\ call.entries \in Seq(Entry)
         /\ call.op \in KeyCalls => Len(call.entries) = 1 /\ call.entries[1] \in Entry
BY ConcurrentMapAssumption

(* Writing the map of one bucket keeps the type of all. *)
LEMMA StoreType ==
  ASSUME TypeOK, NEW b \in Buckets, NEW m \in BucketMap(b), Store(b, m)
  PROVE  /\ DOMAIN bucket' = Buckets /\ \A a \in Buckets : bucket'[a] \in BucketMap(a)
         /\ always' \in [Callers -> SUBSET Keys] /\ ever' \in [Callers -> SUBSET Keys]
<1>1. DOMAIN bucket' = Buckets /\ \A a \in Buckets : bucket'[a] \in BucketMap(a)
  BY DEF TypeOK, Store
<1>2. InMap(bucket') \subseteq Keys
  BY <1>1, BucketMapType DEF InMap
<1> QED
  BY <1>1, <1>2 DEF TypeOK, Store, Watch

(* The history variables keep their type when the map does not change. *)
LEMMA WatchType ==
  ASSUME TypeOK, Watch(bucket)
  PROVE  always' \in [Callers -> SUBSET Keys] /\ ever' \in [Callers -> SUBSET Keys]
<1>1. InMap(bucket) \subseteq Keys
  BY BucketMapType DEF InMap, TypeOK
<1> QED
  BY <1>1 DEF TypeOK, Watch

(* The entry a one-key call or a turn of a batch treats is at home in the  *)
(* bucket it treats it in.                                                 *)
LEMMA EntryAtHome ==
  ASSUME Inv, NEW c \in Callers
  PROVE  /\ op[c] \in KeyCalls /\ at[c] \in Buckets =>
              entries[c][1] \in Entry /\ Home(entries[c][1].key) = at[c]
         /\ \A i \in SubList(c, at[c]) : entries[c][i] \in Entry /\ Home(entries[c][i].key) = at[c]
<1>1. BucketNums \notin Buckets
  BY ConcurrentMapAssumption DEF Buckets
<1>2. entries[c] \in Seq(Entry)
  BY DEF Inv, TypeOK
<1> QED
  BY <1>1, <1>2 DEF Inv, CallShape, SubList

(* Every step keeps the types, the shape of the calls and the lock. *)
LEMMA InvStep == Inv /\ [Next]_vars => Inv'
<1> SUFFICES ASSUME Inv, Next PROVE Inv'
  BY DEF Inv, TypeOK, CallShape, OneInside, vars, locals, BucketMap
<1>0. BucketNums \in Nat \ {0} /\ Buckets = 0..(BucketNums - 1)
  BY ConcurrentMapAssumption DEF Buckets
<1> USE DEF Inv
<1>1. ASSUME NEW c \in Callers, NEW call \in Calls, NEW vector \in Vectors, Begin(c, call, vector)
      PROVE  Inv'
  <2>1. InMap(bucket) \subseteq Keys
    BY BucketMapType DEF InMap, TypeOK
  <2>2. call.op \in KeyCalls => Home(call.entries[1].key) \in Buckets
    BY CallType, HomeType DEF Entry
  <2>3. TypeOK'
    BY <1>0, <1>1, <2>1, <2>2, CallType DEF TypeOK, Begin, BucketMap, Cleared
  <2>4. CallShape'
    BY <1>0, <1>1, <2>2, CallType DEF TypeOK, CallShape, Begin, KeyCalls, Batches, WholeMap, Cleared
  <2>5. OneInside'
    BY <1>1 DEF TypeOK, OneInside, CallShape, Begin, Batches
  <2> QED
    BY <2>3, <2>4, <2>5
<1>2. ASSUME NEW c \in Callers, WriteKey(c) PROVE Inv'
  <2>1. entries[c][1] \in Entry /\ Home(entries[c][1].key) = at[c] /\ at[c] \in Buckets
    BY <1>2, EntryAtHome DEF WriteKey, KeyCalls
  <2>2. Applied(op[c], bucket[at[c]], entries[c][1]) \in BucketMap(at[c])
    BY <1>2, <2>1, AppliedKey DEF WriteKey, Atomic!Writers, TypeOK
  <2>3. TypeOK'
    BY <1>0, <1>2, <2>1, <2>2, StoreType DEF TypeOK, WriteKey
  <2>4. CallShape' /\ OneInside'
    BY <1>0, <1>2 DEF TypeOK, CallShape, OneInside, WriteKey, KeyCalls, Batches
  <2> QED
    BY <2>3, <2>4
<1>3. ASSUME NEW c \in Callers, ReadKey(c) PROVE Inv'
  <2>1. entries[c][1] \in Entry /\ Home(entries[c][1].key) = at[c] /\ at[c] \in Buckets
    BY <1>3, EntryAtHome DEF ReadKey, KeyCalls
  <2>2. list' \in [Callers -> Seq(Entry)]
    <3> DEFINE k == entries[c][1].key
               m == bucket[at[c]]
    <3>1. m \in [DOMAIN m -> Values] /\ k \in Keys
      BY <2>1, BucketMapType DEF TypeOK, Entry
    <3>2. k \in DOMAIN m => [key |-> k, value |-> m[k]] \in Entry
      BY <3>1 DEF Entry
    <3>3. k \in DOMAIN m => <<[key |-> k, value |-> m[k]]>> \in Seq(Entry)
      BY <3>2
    <3> DEFINE l == IF op[c] = "LookUp" /\ k \in DOMAIN m
                    THEN <<[key |-> k, value |-> m[k]]>> ELSE <<>>
    <3>4. l \in Seq(Entry)
      BY <3>3
    <3>5. list' = [list EXCEPT ![c] = l]
      BY <1>3 DEF ReadKey
    <3> HIDE DEF l
    <3> QED
      BY <3>4, <3>5 DEF TypeOK
  <2>3. total' \in [Callers -> Nat] /\ at' \in [Callers -> 0..BucketNums]
    BY <1>0, <1>3 DEF TypeOK, ReadKey
  <2>4. TypeOK'
    BY <1>3, <2>2, <2>3, WatchType DEF TypeOK, ReadKey, BucketMap
  <2>5. CallShape' /\ OneInside'
    BY <1>0, <1>3 DEF TypeOK, CallShape, OneInside, ReadKey, KeyCalls, Batches
  <2> QED
    BY <2>4, <2>5
<1>4. ASSUME NEW c \in Callers, LockBucket(c) PROVE Inv'
  <2>1. TypeOK'
    BY <1>4, WatchType DEF TypeOK, LockBucket, BucketMap
  <2>2. CallShape' /\ OneInside'
    BY <1>4 DEF TypeOK, CallShape, OneInside, LockBucket, Unlocked
  <2> QED
    BY <2>1, <2>2
<1>5. ASSUME NEW c \in Callers, NEW i \in DOMAIN entries[c], TreatEntry(c, i) PROVE Inv'
  <2>1. /\ entries[c][i] \in Entry /\ Home(entries[c][i].key) = at[c]
        /\ at[c] \in Buckets /\ op[c] \in Batches /\ inside[c]
    BY <1>5, EntryAtHome DEF TreatEntry, CallShape
  <2>2. Applied(op[c], bucket[at[c]], entries[c][i]) \in BucketMap(at[c])
    BY <2>1, AppliedKey DEF Batches, Atomic!Writers, TypeOK
  <2>3. i \in Nat
    BY <1>5 DEF TypeOK
  <2>4. TypeOK'
    BY <1>5, <2>1, <2>2, <2>3, StoreType DEF TypeOK, TreatEntry
  <2>5. CallShape' /\ OneInside'
    BY <1>5, <2>1 DEF TypeOK, CallShape, OneInside, TreatEntry
  <2> QED
    BY <2>4, <2>5
<1>6. ASSUME NEW c \in Callers, UnlockBucket(c) PROVE Inv'
  <2>1. at[c] \in Buckets /\ op[c] \in Batches /\ at'[c] \in 0..BucketNums
    BY <1>0, <1>6 DEF TypeOK, CallShape, UnlockBucket, NextBucket
  <2>2. TypeOK'
    BY <1>6, <2>1, WatchType DEF TypeOK, UnlockBucket, NextBucket, BucketMap
  <2>3. CallShape' /\ OneInside'
    BY <1>6, <2>1 DEF TypeOK, CallShape, OneInside, UnlockBucket, NextBucket, KeyCalls, Batches
  <2> QED
    BY <2>2, <2>3
<1>7. ASSUME NEW c \in Callers, ListBucket(c) PROVE Inv'
  <2> DEFINE m == bucket[at[c]]
  <2>1. PICK s \in Walks(m) :
          list' = [list EXCEPT ![c] =
                     @ \o [i \in 1..Cardinality(DOMAIN m) |-> [key |-> s[i], value |-> m[s[i]]]]]
    BY <1>7 DEF ListBucket
  <2>2. m \in [DOMAIN m -> Values] /\ DOMAIN m \subseteq Keys
    BY <1>7, BucketMapType DEF ListBucket, TypeOK
  <2>3. Cardinality(DOMAIN m) \in Nat
    BY <2>2, ConcurrentMapAssumption, FS_Subset, FS_CardinalityType
  <2>4. s \in [1..Cardinality(DOMAIN m) -> DOMAIN m]
    BY DEF Walks
  <2> HIDE DEF m
  <2>5. [i \in 1..Cardinality(DOMAIN m) |-> [key |-> s[i], value |-> m[s[i]]]] \in Seq(Entry)
    <3> DEFINE n == Cardinality(DOMAIN m)
               f == [i \in 1..n |-> [key |-> s[i], value |-> m[s[i]]]]
    <3>1. f \in [1..n -> Entry] /\ n \in Nat
      BY <2>2, <2>3, <2>4 DEF Entry
    <3> HIDE DEF n, f
    <3>2. f \in Seq(Entry)
      BY <3>1
    <3> QED
      BY <3>2 DEF n, f
  <2>6. list' \in [Callers -> Seq(Entry)]
    BY <2>1, <2>5 DEF TypeOK
  <2>7. at[c] \in Buckets /\ at'[c] \in 0..BucketNums
    BY <1>0, <1>7 DEF TypeOK, ListBucket, NextBucket
  <2>8. TypeOK'
    BY <1>7, <2>6, <2>7, WatchType DEF TypeOK, ListBucket, NextBucket, BucketMap
  <2>9. CallShape' /\ OneInside'
    BY <1>7, <2>6 DEF TypeOK, CallShape, OneInside, ListBucket, NextBucket, KeyCalls, Batches
  <2> QED
    BY <2>8, <2>9
<1>8. ASSUME NEW c \in Callers, SizeOfBucket(c) PROVE Inv'
  <2>1. DOMAIN bucket[at[c]] \subseteq Keys
    BY <1>8, BucketMapType DEF SizeOfBucket, TypeOK
  <2>2. Cardinality(DOMAIN bucket[at[c]]) \in Nat
    BY <2>1, ConcurrentMapAssumption, FS_Subset, FS_CardinalityType
  <2>3. at[c] \in Buckets /\ at'[c] \in 0..BucketNums
    BY <1>0, <1>8 DEF TypeOK, SizeOfBucket, NextBucket
  <2>4. total' \in [Callers -> Nat] /\ at' \in [Callers -> 0..BucketNums]
    BY <1>8, <2>2, <2>3 DEF TypeOK, SizeOfBucket, NextBucket
  <2>5. TypeOK'
    BY <1>8, <2>4, <2>3, WatchType DEF TypeOK, SizeOfBucket, NextBucket, BucketMap
  <2>6. CallShape' /\ OneInside'
    BY <1>8 DEF TypeOK, CallShape, OneInside, SizeOfBucket, NextBucket, KeyCalls, Batches
  <2> QED
    BY <2>5, <2>6
<1>9. ASSUME NEW c \in Callers, ClearBucket(c) PROVE Inv'
  <2>1. at[c] \in Buckets /\ at'[c] \in 0..BucketNums
    BY <1>0, <1>9 DEF TypeOK, ClearBucket, NextBucket
  <2>2. EmptyMap \in BucketMap(at[c])
    BY EmptyMapType
  <2>3. TypeOK'
    BY <1>9, <2>1, <2>2, StoreType DEF TypeOK, ClearBucket, NextBucket
  <2>4. CallShape' /\ OneInside'
    BY <1>9 DEF TypeOK, CallShape, OneInside, ClearBucket, NextBucket, KeyCalls, Batches
  <2> QED
    BY <2>3, <2>4
<1>10. ASSUME NEW c \in Callers, Return(c) PROVE Inv'
  <2>1. TypeOK'
    BY <1>10 DEF TypeOK, Return, BucketMap
  <2>2. CallShape' /\ OneInside'
    BY <1>0, <1>10 DEF TypeOK, CallShape, OneInside, Return, KeyCalls, Batches
  <2> QED
    BY <2>1, <2>2
<1> QED
  BY <1>1, <1>2, <1>3, <1>4, <1>5, <1>6, <1>7, <1>8, <1>9, <1>10 DEF Next, Enter, GoesOn

(* Inv is an invariant of the map. *)
LEMMA Invariant == Spec => []Inv
BY InitInv, InvStep, PTL DEF Spec

(* Type correctness, which says that every key is in the bucket it hashes  *)
(* to and nowhere else, for any number of buckets and any hash function.   *)
THEOREM KeysAtHome == Spec => []TypeOK
<1>1. Inv => TypeOK
  BY DEF Inv
<1> QED
  BY Invariant, <1>1, PTL

(* The locks: however many threads run batches, no two are in one bucket.  *)
THEOREM BatchesExclude == Spec => []OneInside
<1>1. Inv => OneInside
  BY DEF Inv
<1> QED
  BY Invariant, <1>1, PTL
-----------------------------------------------------------------------------
(* The refinement of AtomicMap.                                            *)

(* Writing the map of one bucket gives the keys of that bucket the values  *)
(* of the new map and leaves the others alone.                             *)
LEMMA ValueStore ==
  ASSUME TypeOK, NEW b \in Buckets, NEW m, Store(b, m)
  PROVE  \A k \in Keys : Value'[k] = IF Home(k) = b THEN ValueIn(m, k) ELSE Value[k]
<1> TAKE k \in Keys
<1>1. bucket' = [bucket EXCEPT ![b] = m] /\ DOMAIN bucket = Buckets /\ Home(k) \in Buckets
  BY HomeType DEF Store, TypeOK
<1>2. Value'[k] = ValueIn(bucket'[Home(k)], k) /\ Value[k] = ValueIn(bucket[Home(k)], k)
  BY DEF Value
<1> QED
  BY <1>1, <1>2

(* The keys a bucket has are those at home there that have a value.        *)
LEMMA PresentInBucket ==
  ASSUME TypeOK, NEW b \in Buckets
  PROVE  /\ DOMAIN bucket[b] = {k \in Keys : Home(k) = b /\ Value[k] # Absent}
         /\ \A k \in DOMAIN bucket[b] : Value[k] = bucket[b][k]
<1>1. /\ bucket[b] \in [DOMAIN bucket[b] -> Values]
      /\ \A k \in DOMAIN bucket[b] : k \in Keys /\ Home(k) = b
  BY BucketMapType DEF TypeOK
<1>2. \A k \in Keys : Home(k) = b => Value[k] = ValueIn(bucket[b], k)
  BY DEF Value
<1> QED
  BY <1>1, <1>2, ConcurrentMapAssumption DEF ValueIn

(* What a step of one caller leaves of the others' calls.                  *)
LEMMA TodoOfOthers ==
  ASSUME NEW c \in Callers,
         \A d \in Callers \ {c} : /\ op'[d] = op[d] /\ entries'[d] = entries[d]
                                   /\ at'[d] = at[d] /\ next'[d] = next[d]
  PROVE  Todo' = [Todo EXCEPT ![c] = Todo'[c]]
BY DEF Todo

(* What is left of the call of a caller.                                   *)
LEMMA TodoOf ==
  ASSUME NEW c \in Callers
  PROVE  /\ op[c] = "none" => Todo[c] = {}
         /\ op[c] \in WholeMap => Todo[c] = {k \in Keys : Home(k) >= at[c]}
         /\ op[c] \in KeyCalls \cup Batches =>
              Todo[c] = {i \in DOMAIN entries[c] :
                           \/ Home(entries[c][i].key) > at[c]
                           \/ Home(entries[c][i].key) = at[c] /\ i >= next[c]}
BY DEF Todo, WholeMap, KeyCalls, Batches

(* AtomicMap counts with the same Cardinality.                             *)
LEMMA SameCardinality == \A S : Atomic!Cardinality(S) = Cardinality(S)
<1>1. \A S : Atomic!IsFiniteSet(S) <=> IsFiniteSet(S)
  BY DEF Atomic!IsFiniteSet, IsFiniteSet
<1> QED
  BY <1>1 DEF Atomic!Cardinality, Cardinality

(* What is in a list after more was pushed behind it.                      *)
LEMMA RangeConcat ==
  ASSUME NEW S, NEW s \in Seq(S), NEW t \in Seq(S)
  PROVE  Range(s \o t) = Range(s) \cup Range(t)
<1>1. DOMAIN s = 1..Len(s) /\ DOMAIN t = 1..Len(t) /\ Len(s) \in Nat /\ Len(t) \in Nat
  OBVIOUS
<1>2. DOMAIN (s \o t) = 1..(Len(s) + Len(t))
  OBVIOUS
<1>3. \A i \in 1..Len(s) : (s \o t)[i] = s[i]
  OBVIOUS
<1>4. \A i \in 1..Len(t) : (s \o t)[Len(s) + i] = t[i]
  OBVIOUS
<1>5. \A i \in 1..(Len(s) + Len(t)) : i \in 1..Len(s) \/ \E j \in 1..Len(t) : i = Len(s) + j
  <2> TAKE i \in 1..(Len(s) + Len(t))
  <2>1. CASE i <= Len(s)
    BY <1>1, <2>1
  <2>2. CASE i > Len(s)
    <3>1. i - Len(s) \in 1..Len(t) /\ i = Len(s) + (i - Len(s))
      BY <1>1, <2>2
    <3> QED
      BY <3>1
  <2> QED
    BY <1>1, <2>1, <2>2
<1>6. Range(s) \subseteq Range(s \o t)
  BY <1>1, <1>2, <1>3 DEF Range
<1>7. Range(t) \subseteq Range(s \o t)
  <2> SUFFICES ASSUME NEW j \in 1..Len(t) PROVE t[j] \in Range(s \o t)
    BY <1>1 DEF Range
  <2>1. Len(s) + j \in DOMAIN (s \o t)
    BY <1>1, <1>2
  <2> QED
    BY <1>4, <2>1 DEF Range
<1>8. Range(s \o t) \subseteq Range(s) \cup Range(t)
  <2> SUFFICES ASSUME NEW i \in 1..(Len(s) + Len(t)) PROVE (s \o t)[i] \in Range(s) \cup Range(t)
    BY <1>2 DEF Range
  <2> QED
    BY <1>1, <1>3, <1>4, <1>5 DEF Range
<1> QED
  BY <1>6, <1>7, <1>8

(* A constructed map is an empty AtomicMap.                                *)
LEMMA InitRefines == Init => Atomic!Init
<1> SUFFICES ASSUME Init PROVE Atomic!Init
  OBVIOUS
<1> USE DEF Init
<1>1. Value = [k \in Keys |-> Absent]
  BY HomeType DEF Value, ValueIn, EmptyMap
<1>2. Todo = [c \in Callers |-> {}]
  BY DEF Todo
<1>3. Found = [c \in Callers |-> {}]
  BY DEF Found, Range
<1> QED
  BY <1>1, <1>2, <1>3 DEF Atomic!Init

(* Entering a call is entering it there.                                   *)
LEMMA BeginRefines ==
  ASSUME Inv, NEW c \in Callers, NEW call \in Calls, NEW vector \in Vectors,
         Begin(c, call, vector)
  PROVE  Atomic!Begin(c, call)
<1> USE DEF Inv, TypeOK
<1>0. BucketNums \in Nat \ {0} /\ \A k \in Keys : Home(k) \in 0..(BucketNums - 1)
  BY HomeType, ConcurrentMapAssumption DEF Buckets
<1>1. Value' = Value
  BY DEF Begin, Value
<1>2. Found' = Found
  BY DEF Begin, Found, CallShape, Cleared
<1>3. /\ op'[c] = call.op /\ entries'[c] = call.entries /\ next'[c] = 1
      /\ at'[c] = IF call.op \in KeyCalls THEN Home(call.entries[1].key) ELSE 0
  BY DEF Begin
<1>4. \A i \in DOMAIN call.entries : call.entries[i].key \in Keys /\ i \in Nat /\ i >= 1
  <2> DEFINE es == call.entries
  <2>1. es \in Seq(Entry)
    BY CallType
  <2> HIDE DEF es
  <2>2. \A i \in DOMAIN es : es[i] \in Entry /\ i \in Nat /\ i >= 1
    BY <2>1
  <2> QED
    BY <2>2 DEF es, Entry
<1>5. Todo'[c] = IF call.op \in WholeMap THEN Keys ELSE DOMAIN call.entries
  <2>1. CASE call.op \in WholeMap
    <3>1. Todo'[c] = {k \in Keys : Home(k) >= 0}
      BY <1>3, <2>1 DEF Todo, WholeMap, KeyCalls
    <3> QED
      BY <1>0, <2>1, <3>1
  <2>2. CASE call.op \in Batches
    <3>1. Todo'[c] = {i \in DOMAIN call.entries :
                        \/ Home(call.entries[i].key) > 0
                        \/ Home(call.entries[i].key) = 0 /\ i >= 1}
      BY <1>3, <2>2 DEF Todo, WholeMap, KeyCalls, Batches
    <3> QED
      BY <1>0, <1>4, <2>2, <3>1 DEF WholeMap, Batches
  <2>3. CASE call.op \in KeyCalls
    <3>1. Todo'[c] = {i \in DOMAIN call.entries :
                        \/ Home(call.entries[i].key) > Home(call.entries[1].key)
                        \/ Home(call.entries[i].key) = Home(call.entries[1].key) /\ i >= 1}
      BY <1>3, <2>3 DEF Todo, WholeMap, KeyCalls
    <3>2. DOMAIN call.entries = {1}
      BY <2>3, CallType
    <3> QED
      BY <2>3, <3>1, <3>2 DEF WholeMap, KeyCalls
  <2> QED
    BY <2>1, <2>2, <2>3, CallType
<1>6. Todo' = [Todo EXCEPT ![c] = IF call.op \in WholeMap THEN Keys ELSE DOMAIN call.entries]
  BY <1>5, TodoOfOthers DEF Begin
<1> QED
  BY <1>1, <1>2, <1>6 DEF Begin, Atomic!Begin, Atomic!WholeMap, WholeMap

(* The entries of a call are entries, and their buckets are numbers.       *)
LEMMA EntryType ==
  ASSUME TypeOK, NEW c \in Callers
  PROVE  \A i \in DOMAIN entries[c] :
           /\ entries[c][i] \in Entry /\ i \in Nat /\ i >= 1
           /\ Home(entries[c][i].key) \in Nat /\ Home(entries[c][i].key) < BucketNums
<1>1. entries[c] \in Seq(Entry)
  BY DEF TypeOK
<1>2. \A i \in DOMAIN entries[c] : entries[c][i] \in Entry /\ i \in Nat /\ i >= 1
  BY <1>1
<1>3. \A k \in Keys : Home(k) \in Nat /\ Home(k) < BucketNums
  BY HomeType, ConcurrentMapAssumption DEF Buckets
<1> QED
  BY <1>2, <1>3 DEF Entry

(* A one-key call has all to do before it is at the bucket, nothing after. *)
LEMMA KeyCallTodo ==
  ASSUME Inv, NEW c \in Callers, op[c] \in KeyCalls, at[c] \in Buckets,
         at' = [at EXCEPT ![c] = BucketNums], UNCHANGED <<op, entries, next>>
  PROVE  /\ Todo[c] = {1} /\ Todo' = [Todo EXCEPT ![c] = {}]
         /\ DOMAIN entries[c] = {1} /\ list[c] = <<>> /\ total[c] = 0
<1> USE DEF Inv
<1>1. at[c] # BucketNums /\ BucketNums \in Nat
  BY ConcurrentMapAssumption DEF Buckets
<1>2. /\ DOMAIN entries[c] = {1} /\ at[c] = Home(entries[c][1].key)
      /\ list[c] = <<>> /\ total[c] = 0 /\ next[c] = 1
  <2>1. entries[c] \in Seq(Entry)
    BY DEF TypeOK
  <2>2. ~inside[c]
    BY DEF CallShape, KeyCalls, Batches
  <2> QED
    BY <1>1, <2>1, <2>2 DEF CallShape
<1>3. Todo[c] = {1}
  BY <1>2, TodoOf
<1>4. Home(entries[c][1].key) \in Nat /\ Home(entries[c][1].key) < BucketNums
  BY <1>2, EntryType
<1>5. Todo'[c] = {}
  <2>1. at'[c] = BucketNums /\ op'[c] = op[c] /\ entries'[c] = entries[c] /\ next'[c] = next[c]
    BY DEF TypeOK
  <2>2. Todo'[c] = {i \in DOMAIN entries[c] :
                      \/ Home(entries[c][i].key) > BucketNums
                      \/ Home(entries[c][i].key) = BucketNums /\ i >= next[c]}
    BY <2>1 DEF Todo, WholeMap, KeyCalls
  <2> QED
    BY <1>1, <1>2, <1>4, <2>2
<1>6. Todo' = [Todo EXCEPT ![c] = {}]
  BY <1>5, TodoOfOthers DEF TypeOK
<1> QED
  BY <1>2, <1>3, <1>6

(* What an operation on one bucket makes of the whole map.                 *)
LEMMA AppliedValue ==
  ASSUME TypeOK, NEW b \in Buckets, NEW e \in Entry, Home(e.key) = b,
         NEW name \in Atomic!Writers, Store(b, Applied(name, bucket[b], e))
  PROVE  Value' = [Value EXCEPT ![e.key] = Atomic!Becomes(name, Value[e.key], e.value)]
<1> DEFINE m == bucket[b]
           n == Applied(name, m, e)
<1>1. m \in BucketMap(b) /\ e.key \in Keys
  BY DEF TypeOK, Entry
<1>2. Store(b, n)
  OBVIOUS
<1>3. /\ \A k \in Keys \ {e.key} : ValueIn(n, k) = ValueIn(m, k)
      /\ ValueIn(n, e.key) = Atomic!Becomes(name, ValueIn(m, e.key), e.value)
  <2> HIDE DEF m
  <2> QED
    BY <1>1, AppliedKey
<1> HIDE DEF n
<1>4. \A k \in Keys : Value'[k] = IF Home(k) = b THEN ValueIn(n, k) ELSE Value[k]
  BY <1>2, ValueStore
<1>5. \A k \in Keys : Home(k) = b => Value[k] = ValueIn(m, k)
  BY DEF Value
<1>6. \A k \in Keys \ {e.key} : Value'[k] = Value[k]
  BY <1>3, <1>4, <1>5
<1>7. Value'[e.key] = Atomic!Becomes(name, Value[e.key], e.value)
  BY <1>1, <1>3, <1>4, <1>5
<1>8. Value' = [k \in Keys |-> Value'[k]] /\ Value = [k \in Keys |-> Value[k]]
  BY DEF Value
<1> QED
  BY <1>6, <1>7, <1>8

(* Insert(), Update() and Delete() write their key there.                  *)
LEMMA WriteKeyRefines ==
  ASSUME Inv, NEW c \in Callers, WriteKey(c)
  PROVE  1 \in DOMAIN entries[c] /\ Atomic!Write(c, 1)
<1> USE DEF Inv
<1> DEFINE e == entries[c][1]
           b == at[c]
           m == bucket[b]
<1>1. op[c] \in {"Insert", "Update", "Delete"} /\ b \in Buckets
  BY DEF WriteKey
<1>2. /\ Todo[c] = {1} /\ Todo' = [Todo EXCEPT ![c] = {}]
      /\ DOMAIN entries[c] = {1} /\ total[c] = 0
  BY <1>1, KeyCallTodo DEF WriteKey, KeyCalls
<1>3. e \in Entry /\ e.key \in Keys /\ Home(e.key) = b
  BY <1>1, EntryAtHome DEF KeyCalls, Entry
<1>4. m \in BucketMap(b)
  BY <1>1 DEF TypeOK
<1>5. Value[e.key] = ValueIn(m, e.key)
  BY <1>3 DEF Value
<1>6. Value' = [Value EXCEPT ![e.key] = Atomic!Becomes(op[c], Value[e.key], e.value)]
  <2>1. Store(b, Applied(op[c], m, e)) /\ op[c] \in Atomic!Writers
    BY <1>1 DEF WriteKey, Atomic!Writers
  <2> HIDE DEF e, b
  <2> QED
    BY <1>1, <1>3, <2>1, AppliedValue
<1>7. total' = [total EXCEPT ![c] = IF Atomic!Takes(op[c], Value[e.key], e.value) THEN 1 ELSE 0]
  <2>1. e.key \in DOMAIN m <=> Value[e.key] # Absent
    BY <1>1, <1>3, PresentInBucket
  <2>2. Replaces(m, e.key, e.value) <=>
          e.key \in DOMAIN m /\ <<e.value, Value[e.key]>> \in Compare
    BY <1>5 DEF Replaces, ValueIn
  <2> QED
    BY <2>1, <2>2 DEF WriteKey, Atomic!Takes
<1>8. Found' = Found
  BY DEF WriteKey, Found
<1>9. op[c] \in Atomic!Writers
  BY <1>1 DEF Atomic!Writers
<1>10. \A j \in Todo[c] : ~(j < 1)
  BY <1>2
<1>11. Todo' = [Todo EXCEPT ![c] = Todo[c] \ {1}]
  BY <1>2
<1> HIDE DEF e
<1> QED
  BY <1>2, <1>6, <1>7, <1>8, <1>9, <1>10, <1>11 DEF WriteKey, Atomic!Write, e

(* LookUp() and Contain() read their key there.                            *)
LEMMA ReadKeyRefines ==
  ASSUME Inv, NEW c \in Callers, ReadKey(c)
  PROVE  1 \in DOMAIN entries[c] /\ Atomic!Read(c, 1)
<1> USE DEF Inv
<1> DEFINE k == entries[c][1].key
           m == bucket[at[c]]
<1>1. op[c] \in {"LookUp", "Contain"} /\ at[c] \in Buckets
  BY DEF ReadKey
<1>2. /\ Todo[c] = {1} /\ Todo' = [Todo EXCEPT ![c] = {}]
      /\ DOMAIN entries[c] = {1} /\ list[c] = <<>> /\ total[c] = 0
  BY <1>1, KeyCallTodo DEF ReadKey, KeyCalls
<1>3. k \in Keys /\ Home(k) = at[c]
  BY <1>1, EntryAtHome DEF KeyCalls, Entry
<1>4. /\ k \in DOMAIN m <=> Value[k] # Absent
      /\ k \in DOMAIN m => m[k] = Value[k]
  BY <1>1, <1>3, PresentInBucket
<1>5. Atomic!Present({k}) = IF k \in DOMAIN m THEN {k} ELSE {}
  BY <1>4 DEF Atomic!Present
<1>6. Atomic!Seen({k}) = IF k \in DOMAIN m THEN {[key |-> k, value |-> m[k]]} ELSE {}
  BY <1>4, <1>5 DEF Atomic!Seen
<1>7. Value' = Value
  BY DEF ReadKey, Value
<1>8. total' = [total EXCEPT ![c] = total[c] + Atomic!Cardinality(Atomic!Present({k}))]
  <2>1. Cardinality({k}) = 1 /\ Cardinality({}) = 0
    BY FS_Singleton, FS_EmptySet
  <2>2. total' = [total EXCEPT ![c] = IF k \in DOMAIN m THEN 1 ELSE 0]
    BY DEF ReadKey
  <2>3. Atomic!Cardinality(Atomic!Present({k})) = IF k \in DOMAIN m THEN 1 ELSE 0
    BY <1>5, <2>1, SameCardinality
  <2>4. total[c] + Atomic!Cardinality(Atomic!Present({k})) = IF k \in DOMAIN m THEN 1 ELSE 0
    BY <1>2, <2>3
  <2> QED
    BY <2>2, <2>4
<1>9. Found' = [Found EXCEPT ![c] = Found[c] \cup (IF op[c] = "LookUp" THEN Atomic!Seen({k}) ELSE {})]
  <2>1. Found[c] = {}
    BY <1>2 DEF Found, Range
  <2>2. list'[c] = IF op[c] = "LookUp" /\ k \in DOMAIN m
                   THEN <<[key |-> k, value |-> m[k]]>> ELSE <<>>
    BY DEF ReadKey, TypeOK
  <2>3. \A x : Range(<<x>>) = {x} /\ Range(<<>>) = {}
    BY DEF Range
  <2>4. Range(list'[c]) = IF op[c] = "LookUp" THEN Atomic!Seen({k}) ELSE {}
    BY <1>6, <2>2, <2>3
  <2>5. \A d \in Callers \ {c} : list'[d] = list[d]
    BY DEF ReadKey, TypeOK
  <2> QED
    BY <2>1, <2>4, <2>5 DEF Found
<1>10. op[c] \in Atomic!Readers /\ Todo' = [Todo EXCEPT ![c] = Todo[c] \ {1}]
  BY <1>1, <1>2 DEF Atomic!Readers
<1>11. 1 \in Todo[c] /\ 1 \in DOMAIN entries[c] /\ UNCHANGED <<op, entries>>
  BY <1>2 DEF ReadKey
<1> HIDE DEF k, m
<1> QED
  BY <1>7, <1>8, <1>9, <1>10, <1>11 DEF Atomic!Read, k

(* One turn of the loop of a batch writes its entry there.                 *)
LEMMA TreatEntryRefines ==
  ASSUME Inv, NEW c \in Callers, NEW i \in DOMAIN entries[c], TreatEntry(c, i)
  PROVE  Atomic!Write(c, i)
<1> USE DEF Inv
<1> DEFINE e == entries[c][i]
<1>1. /\ op[c] \in Batches /\ at[c] \in Buckets
      /\ e \in Entry /\ Home(e.key) = at[c] /\ i \in SubList(c, at[c])
  BY EntryAtHome DEF TreatEntry, CallShape
<1>2. op[c] \in Atomic!Writers /\ op[c] \notin {"Insert", "Update", "Delete"}
  BY <1>1 DEF Batches, Atomic!Writers
<1>3. Value' = [Value EXCEPT ![e.key] = Atomic!Becomes(op[c], Value[e.key], e.value)]
  <2>1. Store(at[c], Applied(op[c], bucket[at[c]], e))
    BY DEF TreatEntry
  <2> HIDE DEF e
  <2> QED
    BY <1>1, <1>2, <2>1, AppliedValue
<1>4. Todo[c] = {j \in DOMAIN entries[c] :
                   \/ Home(entries[c][j].key) > at[c]
                   \/ Home(entries[c][j].key) = at[c] /\ j >= next[c]}
  BY <1>1, TodoOf
<1>5. i \in Todo[c] /\ \A j \in Todo[c] : j < i => entries[c][j].key # e.key
  <2>1. at[c] \in Nat /\ next[c] \in Nat
    BY <1>1 DEF TypeOK, Buckets
  <2>2. ASSUME NEW j \in Todo[c], entries[c][j].key = e.key PROVE ~(j < i)
    <3>1. j \in SubList(c, at[c])
      BY <1>1, <1>4, <2>1, <2>2 DEF SubList
    <3>2. i <= j /\ i \in Nat /\ j \in Nat
      BY <1>4, <3>1, EntryType DEF TreatEntry
    <3> QED
      BY <3>2
  <2>3. i \in Todo[c]
    BY <1>1, <1>4 DEF SubList
  <2> QED
    BY <2>2, <2>3
<1>6. Todo' = [Todo EXCEPT ![c] = Todo[c] \ {i}]
  <2>1. op'[c] = op[c] /\ entries'[c] = entries[c] /\ at'[c] = at[c] /\ next'[c] = i + 1
    BY DEF TreatEntry, TypeOK
  <2>2. Todo'[c] = {j \in DOMAIN entries[c] :
                      \/ Home(entries[c][j].key) > at[c]
                      \/ Home(entries[c][j].key) = at[c] /\ j >= i + 1}
    BY <1>1, <2>1 DEF Todo, Batches, WholeMap
  <2>3. \A j \in DOMAIN entries[c] : Home(entries[c][j].key) = at[c] =>
          (j >= i + 1 <=> j >= next[c] /\ j # i)
    <3> SUFFICES ASSUME NEW j \in DOMAIN entries[c], Home(entries[c][j].key) = at[c]
                 PROVE  j >= i + 1 <=> j >= next[c] /\ j # i
      OBVIOUS
    <3>1. i \in Nat /\ j \in Nat /\ next[c] \in Nat /\ i >= next[c]
      BY <1>1, EntryType DEF TypeOK, SubList
    <3>2. j >= next[c] => i <= j
      BY DEF TreatEntry, SubList
    <3> QED
      BY <3>1, <3>2
  <2>4. at[c] \in Nat /\ \A j \in DOMAIN entries[c] : Home(entries[c][j].key) \in Nat
    BY <1>1, EntryType DEF Buckets
  <2>5. Todo'[c] = Todo[c] \ {i}
    BY <1>1, <1>4, <2>2, <2>3, <2>4
  <2> QED
    BY <2>5, TodoOfOthers DEF TreatEntry, TypeOK
<1>7. Found' = Found
  BY DEF TreatEntry, Found
<1>8. total' = [total EXCEPT ![c] =
                  IF Atomic!Takes(op[c], Value[e.key], e.value) THEN 1 ELSE total[c]]
  <2>1. ~Atomic!Takes(op[c], Value[e.key], e.value)
    BY <1>2 DEF Atomic!Takes
  <2> QED
    BY <2>1 DEF TreatEntry, TypeOK
<1> HIDE DEF e
<1> QED
  BY <1>2, <1>3, <1>5, <1>6, <1>7, <1>8 DEF TreatEntry, Atomic!Write, e

(* Taking and giving back a lock is nothing there.                         *)
LEMMA LocksRefine ==
  ASSUME Inv, NEW c \in Callers, LockBucket(c) \/ UnlockBucket(c)
  PROVE  UNCHANGED <<Value, op, entries, Todo, Found, total>>
<1> USE DEF Inv
<1>1. Value' = Value /\ Found' = Found /\ UNCHANGED <<op, entries, total>>
  BY DEF LockBucket, UnlockBucket, Value, Found
<1>2. CASE LockBucket(c)
  BY <1>1, <1>2 DEF LockBucket, Todo
<1>3. CASE UnlockBucket(c)
  <2>1. op[c] \in Batches /\ at[c] \in Buckets
    BY <1>3 DEF UnlockBucket, CallShape
  <2>2. Todo[c] = {j \in DOMAIN entries[c] :
                     \/ Home(entries[c][j].key) > at[c]
                     \/ Home(entries[c][j].key) = at[c] /\ j >= next[c]}
    BY <2>1, TodoOf
  <2>3. \A j \in DOMAIN entries[c] : Home(entries[c][j].key) = at[c] => ~(j >= next[c])
    BY <1>3 DEF UnlockBucket, SubList
  <2>4. Todo'[c] = {j \in DOMAIN entries[c] :
                      \/ Home(entries[c][j].key) > at[c] + 1
                      \/ Home(entries[c][j].key) = at[c] + 1 /\ j >= 1}
    BY <1>3, <2>1 DEF UnlockBucket, NextBucket, TypeOK, Todo, Batches, WholeMap
  <2>5. at[c] \in Nat
        /\ \A j \in DOMAIN entries[c] : Home(entries[c][j].key) \in Nat /\ j \in Nat /\ j >= 1
    BY <2>1, EntryType DEF Buckets
  <2>6. Todo'[c] = Todo[c]
    BY <2>2, <2>3, <2>4, <2>5
  <2>7. Todo' = [Todo EXCEPT ![c] = Todo[c]]
    BY <1>3, <2>6, TodoOfOthers DEF UnlockBucket, NextBucket, TypeOK
  <2>8. Todo' = Todo
    BY <2>7 DEF Todo
  <2> QED
    BY <1>1, <2>8
<1> QED
  BY <1>2, <1>3

(* What a step of a whole-map call leaves of the keys it has to treat.     *)
LEMMA WholeMapTodo ==
  ASSUME Inv, NEW c \in Callers, op[c] \in WholeMap, at[c] \in Buckets,
         NextBucket(c), UNCHANGED <<op, entries, next>>
  PROVE  LET K == {k \in Keys : Home(k) = at[c]}
         IN  K \subseteq Todo[c] /\ Todo' = [Todo EXCEPT ![c] = Todo[c] \ K]
<1> USE DEF Inv
<1> DEFINE K == {k \in Keys : Home(k) = at[c]}
<1>1. at[c] \in Nat /\ \A k \in Keys : Home(k) \in Nat
  BY HomeType DEF Buckets
<1>2. Todo[c] = {k \in Keys : Home(k) >= at[c]}
  BY TodoOf
<1>3. Todo'[c] = {k \in Keys : Home(k) >= at[c] + 1}
  BY DEF TypeOK, NextBucket, Todo, WholeMap
<1>4. K \subseteq Todo[c]
  BY <1>1, <1>2
<1>5. Todo'[c] = Todo[c] \ K
  BY <1>1, <1>2, <1>3
<1>6. Todo' = [Todo EXCEPT ![c] = Todo[c] \ K]
  BY <1>5, TodoOfOthers DEF NextBucket, TypeOK
<1> QED
  BY <1>4, <1>6

(* The keys a bucket has, as AtomicMap sees them.                          *)
LEMMA PresentThere ==
  ASSUME TypeOK, NEW b \in Buckets
  PROVE  Atomic!Present({k \in Keys : Home(k) = b}) = DOMAIN bucket[b]
BY PresentInBucket DEF Atomic!Present

(* GetAllKey() at one bucket collects the keys at home there.              *)
LEMMA ListBucketRefines ==
  ASSUME Inv, NEW c \in Callers, ListBucket(c)
  PROVE  \E K \in SUBSET Keys : Atomic!Collect(c, K)
<1> USE DEF Inv
<1> DEFINE m == bucket[at[c]]
           K == {k \in Keys : Home(k) = at[c]}
           n == Cardinality(DOMAIN m)
<1>1. op[c] = "GetAllKey" /\ at[c] \in Buckets
  BY DEF ListBucket
<1>2. K \subseteq Todo[c] /\ Todo' = [Todo EXCEPT ![c] = Todo[c] \ K]
  BY <1>1, WholeMapTodo DEF ListBucket, WholeMap
<1>3. PICK s \in Walks(m) :
        list' = [list EXCEPT ![c] = @ \o [i \in 1..n |-> [key |-> s[i], value |-> m[s[i]]]]]
  BY DEF ListBucket
<1> DEFINE new == [i \in 1..n |-> [key |-> s[i], value |-> m[s[i]]]]
<1>4. m \in [DOMAIN m -> Values] /\ DOMAIN m \subseteq Keys
  BY <1>1, BucketMapType DEF TypeOK
<1>5. n \in Nat
  BY <1>4, ConcurrentMapAssumption, FS_Subset, FS_CardinalityType
<1>6. s \in [1..n -> DOMAIN m] /\ Range(s) = DOMAIN m
  BY DEF Walks
<1>7. Atomic!Seen(K) = {[key |-> k, value |-> m[k]] : k \in DOMAIN m}
  <2>1. Atomic!Present(K) = DOMAIN m
    BY <1>1, PresentThere
  <2>2. \A k \in DOMAIN m : Value[k] = m[k]
    BY <1>1, PresentInBucket
  <2> HIDE DEF m, K
  <2> QED
    BY <2>1, <2>2 DEF Atomic!Seen
<1> HIDE DEF m, n
<1>8. Range(new) = Atomic!Seen(K)
  <2>1. Range(new) = {[key |-> s[i], value |-> m[s[i]]] : i \in 1..n}
    BY DEF Range
  <2>2. (\A i \in 1..n : s[i] \in DOMAIN m) /\ \A k \in DOMAIN m : \E i \in 1..n : s[i] = k
    BY <1>6 DEF Range
  <2>3. \A i \in 1..n : [key |-> s[i], value |-> m[s[i]]] \in Atomic!Seen(K)
    BY <1>7, <2>2
  <2>4. \A k \in DOMAIN m : \E i \in 1..n :
          [key |-> k, value |-> m[k]] = [key |-> s[i], value |-> m[s[i]]]
    BY <2>2
  <2> HIDE DEF new
  <2>5. Range(new) \subseteq Atomic!Seen(K)
    BY <2>1, <2>3
  <2>6. Atomic!Seen(K) \subseteq Range(new)
    BY <1>7, <2>1, <2>4
  <2> QED
    BY <2>5, <2>6
<1>9. new \in Seq(Entry)
  <2>1. new \in [1..n -> Entry]
    BY <1>4, <1>6 DEF Entry
  <2> HIDE DEF new
  <2> QED
    BY <1>5, <2>1
<1>10. Found' = [Found EXCEPT ![c] = Found[c] \cup Atomic!Seen(K)]
  <2>1. list[c] \in Seq(Entry)
    BY DEF TypeOK
  <2>2. list'[c] = list[c] \o new /\ \A d \in Callers \ {c} : list'[d] = list[d]
    BY <1>3 DEF TypeOK
  <2> HIDE DEF new
  <2>3. Range(list'[c]) = Range(list[c]) \cup Range(new)
    BY <1>9, <2>1, <2>2, RangeConcat
  <2> HIDE DEF K
  <2> QED
    BY <1>8, <2>2, <2>3 DEF Found
<1>11. Value' = Value /\ UNCHANGED <<op, entries, total>>
  BY DEF ListBucket, Value
<1>12. K \in SUBSET Keys
  OBVIOUS
<1> HIDE DEF K
<1>13. Atomic!Collect(c, K)
  BY <1>1, <1>2, <1>10, <1>11 DEF Atomic!Collect
<1> QED
  BY <1>12, <1>13

(* Size() at one bucket counts the keys at home there.                     *)
LEMMA SizeOfBucketRefines ==
  ASSUME Inv, NEW c \in Callers, SizeOfBucket(c)
  PROVE  \E K \in SUBSET Keys : Atomic!Count(c, K)
<1> USE DEF Inv
<1> DEFINE K == {k \in Keys : Home(k) = at[c]}
<1>1. op[c] = "Size" /\ at[c] \in Buckets
  BY DEF SizeOfBucket
<1>2. K \subseteq Todo[c] /\ Todo' = [Todo EXCEPT ![c] = Todo[c] \ K]
  BY <1>1, WholeMapTodo DEF SizeOfBucket, WholeMap
<1>3. Atomic!Cardinality(Atomic!Present(K)) = Cardinality(DOMAIN bucket[at[c]])
  BY <1>1, PresentThere, SameCardinality
<1>4. total' = [total EXCEPT ![c] = total[c] + Atomic!Cardinality(Atomic!Present(K))]
  BY <1>3 DEF SizeOfBucket
<1>5. Value' = Value /\ Found' = Found /\ UNCHANGED <<op, entries>>
  BY DEF SizeOfBucket, Value, Found
<1>6. K \in SUBSET Keys
  OBVIOUS
<1> HIDE DEF K
<1>7. Atomic!Count(c, K)
  BY <1>1, <1>2, <1>4, <1>5 DEF Atomic!Count
<1> QED
  BY <1>6, <1>7

(* Clear() at one bucket wipes the keys at home there.                     *)
LEMMA ClearBucketRefines ==
  ASSUME Inv, NEW c \in Callers, ClearBucket(c)
  PROVE  \E K \in SUBSET Keys : Atomic!Wipe(c, K)
<1> USE DEF Inv
<1> DEFINE K == {k \in Keys : Home(k) = at[c]}
<1>1. op[c] = "Clear" /\ at[c] \in Buckets
  BY DEF ClearBucket
<1>2. K \subseteq Todo[c] /\ Todo' = [Todo EXCEPT ![c] = Todo[c] \ K]
  BY <1>1, WholeMapTodo DEF ClearBucket, WholeMap
<1>3. Value' = [k \in Keys |-> IF k \in K THEN Absent ELSE Value[k]]
  <2>1. \A k \in Keys : Value'[k] = IF Home(k) = at[c] THEN ValueIn(EmptyMap, k) ELSE Value[k]
    BY <1>1, ValueStore DEF ClearBucket
  <2>2. \A k : ValueIn(EmptyMap, k) = Absent
    BY DEF ValueIn, EmptyMap
  <2>3. Value' = [k \in Keys |-> Value'[k]]
    BY DEF Value
  <2> QED
    BY <2>1, <2>2, <2>3
<1>4. Found' = Found /\ UNCHANGED <<op, entries, total>>
  BY DEF ClearBucket, Found
<1>5. K \in SUBSET Keys
  OBVIOUS
<1> HIDE DEF K
<1>6. Atomic!Wipe(c, K)
  BY <1>1, <1>2, <1>3, <1>4 DEF Atomic!Wipe
<1> QED
  BY <1>5, <1>6

(* A call that has treated everything returns.                             *)
LEMMA ReturnRefines ==
  ASSUME Inv, NEW c \in Callers, Return(c)
  PROVE  Atomic!Return(c)
<1> USE DEF Inv
<1>1. op[c] # "none" /\ at[c] = BucketNums /\ BucketNums \in Nat
  BY ConcurrentMapAssumption DEF Return
<1>2. \A k \in Keys : Home(k) \in Nat /\ Home(k) < BucketNums
  BY HomeType, ConcurrentMapAssumption DEF Buckets
<1>3. Todo[c] = {}
  <2>1. CASE op[c] \in WholeMap
    BY <1>1, <1>2, <2>1, TodoOf
  <2>2. CASE op[c] \in KeyCalls \cup Batches
    BY <1>1, <2>2, EntryType, TodoOf
  <2> QED
    BY <1>1, <2>1, <2>2 DEF TypeOK
<1>4. Todo' = Todo
  <2>1. Todo'[c] = {}
    BY DEF Return, TypeOK, Todo
  <2>2. Todo' = [Todo EXCEPT ![c] = {}]
    BY <2>1, TodoOfOthers DEF Return, TypeOK
  <2> QED
    BY <1>3, <2>2 DEF Todo
<1>5. Found' = [Found EXCEPT ![c] = {}]
  <2>1. list' = [list EXCEPT ![c] = <<>>] /\ DOMAIN list = Callers
    BY DEF Return, TypeOK
  <2>2. Range(list'[c]) = {}
    <3>1. list'[c] = <<>>
      BY <2>1
    <3> QED
      BY <3>1 DEF Range
  <2>3. \A d \in Callers \ {c} : list'[d] = list[d]
    BY <2>1
  <2> QED
    BY <2>2, <2>3 DEF Found
<1>6. Value' = Value
  BY DEF Return, Value
<1> QED
  BY <1>1, <1>3, <1>4, <1>5, <1>6 DEF Return, Atomic!Return

(* Every step of the buckets is a step of AtomicMap or changes nothing     *)
(* there.                                                                  *)
LEMMA StepRefines == Inv /\ [Next]_vars => [Atomic!Next]_Atomic!vars
<1> SUFFICES ASSUME Inv, [Next]_vars PROVE [Atomic!Next]_Atomic!vars
  OBVIOUS
<1>1. ASSUME UNCHANGED vars PROVE UNCHANGED Atomic!vars
  BY <1>1 DEF vars, locals, Atomic!vars, Value, Todo, Found
<1>2. ASSUME NEW c \in Callers, Enter(c) PROVE Atomic!Next
  BY <1>2, BeginRefines DEF Enter, Atomic!Next
<1>3. ASSUME NEW c \in Callers, GoesOn(c) PROVE Atomic!Next \/ UNCHANGED Atomic!vars
  <2>1. CASE WriteKey(c)
    BY <2>1, WriteKeyRefines DEF Atomic!Next
  <2>2. CASE ReadKey(c)
    BY <2>2, ReadKeyRefines DEF Atomic!Next
  <2>3. CASE LockBucket(c) \/ UnlockBucket(c)
    BY <2>3, LocksRefine DEF Atomic!vars
  <2>4. CASE \E i \in DOMAIN entries[c] : TreatEntry(c, i)
    BY <2>4, TreatEntryRefines DEF Atomic!Next
  <2>5. CASE ListBucket(c)
    BY <2>5, ListBucketRefines DEF Atomic!Next
  <2>6. CASE SizeOfBucket(c)
    BY <2>6, SizeOfBucketRefines DEF Atomic!Next
  <2>7. CASE ClearBucket(c)
    BY <2>7, ClearBucketRefines DEF Atomic!Next
  <2>8. CASE Return(c)
    BY <2>8, ReturnRefines DEF Atomic!Next
  <2> QED
    BY <1>3, <2>1, <2>2, <2>3, <2>4, <2>5, <2>6, <2>7, <2>8 DEF GoesOn
<1> QED
  BY <1>1, <1>2, <1>3 DEF Next

(* The buckets and their locks implement the atomic map, whatever the      *)
(* number of threads, buckets and keys, the hash function and Compare:     *)
(* one-key calls are linearizable, and whole-map calls treat each key once.*)
THEOREM BucketsAreAtomic == Spec => ImplementsAtomicMap
BY InitRefines, StepRefines, Invariant, PTL DEF Spec, ImplementsAtomicMap, Atomic!Spec
-----------------------------------------------------------------------------
(* What GetAllKey() and Size() have seen.  Behind them, in the buckets they*)
(* have left, others go on changing the map; always and ever bound what    *)
(* they have taken from those buckets from below and from above.           *)
Until(S, b) == {k \in S : Home(k) < b}

Distinct(vector) == \A i, j \in DOMAIN vector : vector[i].key = vector[j].key => i = j

Watched(c) ==
  op[c] # "none" => always[c] \subseteq InMap(bucket) /\ InMap(bucket) \subseteq ever[c]

Listed(c) ==
  op[c] = "GetAllKey" =>
    /\ Distinct(list[c])
    /\ \A i \in DOMAIN list[c] : Home(list[c][i].key) < at[c] /\ list[c][i].key \in ever[c]
    /\ \A k \in always[c] : Home(k) < at[c] => k \in ListedKeys(c)

Sized(c) ==
  op[c] = "Size" =>
    /\ Cardinality(Until(always[c], at[c])) <= total[c]
    /\ total[c] <= Cardinality(Until(ever[c], at[c]))

Snapshot == \A c \in Callers : Watched(c) /\ Listed(c) /\ Sized(c)

LEMMA KeysFinite ==
  \A S \in SUBSET Keys :
    /\ IsFiniteSet(S) /\ Cardinality(S) \in Nat
    /\ \A T \in SUBSET S : IsFiniteSet(T) /\ Cardinality(T) \in Nat /\ Cardinality(T) <= Cardinality(S)
<1> TAKE S \in SUBSET Keys
<1>1. IsFiniteSet(S)
  BY ConcurrentMapAssumption, FS_Subset
<1>2. ASSUME NEW T \in SUBSET S
      PROVE  IsFiniteSet(T) /\ Cardinality(T) \in Nat /\ Cardinality(T) <= Cardinality(S)
  BY <1>1, FS_Subset, FS_CardinalityType
<1> QED
  BY <1>1, <1>2, FS_CardinalityType

(* Steps of others narrow always and widen ever.                           *)
LEMMA BystanderSnapshot ==
  ASSUME TypeOK, TypeOK', NEW c \in Callers, Watched(c), Listed(c), Sized(c),
         op'[c] = op[c], at'[c] = at[c], list'[c] = list[c], total'[c] = total[c],
         op[c] # "none" => /\ always'[c] \subseteq always[c] /\ ever[c] \subseteq ever'[c]
                           /\ always'[c] \subseteq InMap(bucket') /\ InMap(bucket') \subseteq ever'[c]
  PROVE  Watched(c)' /\ Listed(c)' /\ Sized(c)'
<1>1. Watched(c)'
  BY DEF Watched
<1>2. Listed(c)'
  BY DEF Listed, ListedKeys, Distinct
<1>3. ASSUME op[c] = "Size"
      PROVE  /\ Cardinality(Until(always'[c], at[c])) <= total[c]
             /\ total[c] <= Cardinality(Until(ever'[c], at[c]))
  <2>1. /\ Until(always[c], at[c]) \in SUBSET Keys /\ Until(ever'[c], at[c]) \in SUBSET Keys
        /\ Until(always'[c], at[c]) \in SUBSET Until(always[c], at[c])
        /\ Until(ever[c], at[c]) \in SUBSET Until(ever'[c], at[c])
    BY <1>3 DEF TypeOK, Until
  <2>2. Cardinality(Until(always'[c], at[c])) <= Cardinality(Until(always[c], at[c]))
        /\ Cardinality(Until(always'[c], at[c])) \in Nat /\ Cardinality(Until(always[c], at[c])) \in Nat
    BY <2>1, KeysFinite
  <2>3. Cardinality(Until(ever[c], at[c])) <= Cardinality(Until(ever'[c], at[c]))
        /\ Cardinality(Until(ever'[c], at[c])) \in Nat /\ Cardinality(Until(ever[c], at[c])) \in Nat
    BY <2>1, KeysFinite
  <2>4. total[c] \in Nat
    BY DEF TypeOK
  <2> QED
    BY <1>3, <2>2, <2>3, <2>4 DEF Sized
<1>4. Sized(c)'
  BY <1>3 DEF Sized, Until
<1> QED
  BY <1>1, <1>2, <1>4

(* What Watch() records.                                                   *)
LEMMA WatchedByAll ==
  ASSUME TypeOK, NEW maps, Watch(maps), NEW c \in Callers, op[c] # "none"
  PROVE  always'[c] = always[c] \cap InMap(maps) /\ ever'[c] = ever[c] \cup InMap(maps)
BY DEF Watch

(* A step of a call that is neither GetAllKey() nor Size().                *)
LEMMA OtherCallSnapshot ==
  ASSUME Inv, Inv', Snapshot, Watch(bucket'), op' = op, NEW c \in Callers,
         op[c] \notin {"GetAllKey", "Size"},
         \A d \in Callers \ {c} : at'[d] = at[d] /\ list'[d] = list[d] /\ total'[d] = total[d]
  PROVE  Snapshot'
<1> SUFFICES ASSUME NEW d \in Callers PROVE Watched(d)' /\ Listed(d)' /\ Sized(d)'
  BY DEF Snapshot
<1>1. op[d] # "none" => /\ always'[d] = always[d] \cap InMap(bucket')
                        /\ ever'[d] = ever[d] \cup InMap(bucket')
  BY WatchedByAll DEF Inv
<1>2. CASE d = c
  BY <1>1, <1>2 DEF Watched, Listed, Sized
<1>3. CASE d # c
  BY <1>1, <1>3, BystanderSnapshot DEF Inv, Snapshot
<1> QED
  BY <1>2, <1>3

LEMMA InitSnapshot == Init => Snapshot
BY DEF Init, Snapshot, Watched, Listed, Sized

LEMMA BeginSnapshot ==
  ASSUME Inv, Inv', Snapshot, NEW c \in Callers, NEW call \in Calls, NEW vector \in Vectors,
         Begin(c, call, vector)
  PROVE  Snapshot'
<1> SUFFICES ASSUME NEW d \in Callers PROVE Watched(d)' /\ Listed(d)' /\ Sized(d)'
  BY DEF Snapshot
<1> USE DEF Inv
<1>1. CASE d # c
  <2>1. /\ op'[d] = op[d] /\ at'[d] = at[d] /\ list'[d] = list[d] /\ total'[d] = total[d]
        /\ always'[d] = always[d] /\ ever'[d] = ever[d] /\ bucket' = bucket
    BY <1>1 DEF Begin, TypeOK
  <2>2. Watched(d) /\ Listed(d) /\ Sized(d)
    BY DEF Snapshot
  <2> QED
    BY <2>1, <2>2, BystanderSnapshot DEF Watched
<1>2. CASE d = c
  <2>1. /\ bucket' = bucket /\ always'[c] = InMap(bucket) /\ ever'[c] = InMap(bucket)
        /\ total'[c] = total[c] /\ op'[c] = call.op
        /\ call.op \in {"GetAllKey", "Size"} => at'[c] = 0
        /\ call.op = "GetAllKey" => list'[c] = <<>>
    BY DEF Begin, TypeOK, Cleared, KeyCalls
  <2>2. total[c] = 0
    BY DEF Begin, CallShape
  <2>3. \A S \in SUBSET Keys : Until(S, 0) = {}
    BY HomeType DEF Until, Buckets
  <2>4. always'[c] \in SUBSET Keys /\ ever'[c] \in SUBSET Keys
    BY DEF TypeOK
  <2>5. Watched(c)'
    BY <2>1 DEF Watched
  <2>6. Listed(c)'
    <3> SUFFICES ASSUME call.op = "GetAllKey"
                 PROVE  /\ Distinct(<<>>) /\ DOMAIN <<>> = {}
                        /\ \A k \in always'[c] : ~(Home(k) < 0)
      BY <2>1 DEF Listed
    <3>1. \A k \in always'[c] : ~(Home(k) < 0)
      BY <2>4, HomeType DEF Buckets
    <3> QED
      BY <3>1 DEF Distinct
  <2>7. Sized(c)'
    <3> SUFFICES ASSUME call.op = "Size"
                 PROVE  /\ Cardinality(Until(always'[c], 0)) = 0
                        /\ Cardinality(Until(ever'[c], 0)) = 0
      BY <2>1, <2>2 DEF Sized, Until
    <3> QED
      BY <2>3, <2>4, FS_EmptySet
  <2> QED
    BY <1>2, <2>5, <2>6, <2>7
<1> QED
  BY <1>1, <1>2

LEMMA ReturnSnapshot ==
  ASSUME Inv, Inv', Snapshot, NEW c \in Callers, Return(c)
  PROVE  Snapshot'
<1> SUFFICES ASSUME NEW d \in Callers PROVE Watched(d)' /\ Listed(d)' /\ Sized(d)'
  BY DEF Snapshot
<1> USE DEF Inv
<1>1. CASE d # c
  <2>1. /\ op'[d] = op[d] /\ at'[d] = at[d] /\ list'[d] = list[d] /\ total'[d] = total[d]
        /\ always'[d] = always[d] /\ ever'[d] = ever[d] /\ bucket' = bucket
    BY <1>1 DEF Return, TypeOK
  <2>2. Watched(d) /\ Listed(d) /\ Sized(d)
    BY DEF Snapshot
  <2> QED
    BY <2>1, <2>2, BystanderSnapshot DEF Watched
<1>2. CASE d = c
  <2>1. op'[c] = "none"
    BY DEF Return, TypeOK
  <2> QED
    BY <1>2, <2>1 DEF Watched, Listed, Sized
<1> QED
  BY <1>1, <1>2

(* The keys of the map that are at home in a bucket are those it has.      *)
LEMMA AtHome ==
  ASSUME TypeOK, NEW b \in Buckets
  PROVE  /\ {k \in InMap(bucket) : Home(k) = b} = DOMAIN bucket[b]
         /\ DOMAIN bucket[b] \in SUBSET Keys
<1>1. \A a \in Buckets : \A k \in DOMAIN bucket[a] : k \in Keys /\ Home(k) = a
  BY BucketMapType DEF TypeOK
<1>2. DOMAIN bucket[b] \subseteq {k \in InMap(bucket) : Home(k) = b}
  BY <1>1 DEF InMap
<1>3. {k \in InMap(bucket) : Home(k) = b} \subseteq DOMAIN bucket[b]
  BY <1>1 DEF InMap
<1> QED
  BY <1>1, <1>2, <1>3

(* One bucket more. *)
LEMMA UntilNext ==
  ASSUME NEW S \in SUBSET Keys, NEW b \in Nat
  PROVE  LET here == {k \in S : Home(k) = b}
         IN  /\ Until(S, b + 1) = Until(S, b) \cup here
             /\ Cardinality(Until(S, b + 1)) = Cardinality(Until(S, b)) + Cardinality(here)
<1> DEFINE here == {k \in S : Home(k) = b}
<1>1. \A k \in S : Home(k) \in Nat
  BY HomeType DEF Buckets
<1>2. Until(S, b + 1) = Until(S, b) \cup here
  BY <1>1 DEF Until
<1>3. Until(S, b) \cap here = {}
  BY <1>1 DEF Until
<1>4. /\ Until(S, b) \in SUBSET Keys /\ here \in SUBSET Keys
  BY DEF Until
<1>5. /\ IsFiniteSet(Until(S, b)) /\ Cardinality(Until(S, b)) \in Nat
      /\ IsFiniteSet(here) /\ Cardinality(here) \in Nat
  BY <1>4, KeysFinite
<1> HIDE DEF here
<1>6. Cardinality(Until(S, b) \cup here)
        = Cardinality(Until(S, b)) + Cardinality(here) - Cardinality(Until(S, b) \cap here)
  BY <1>5, FS_Union
<1>7. Cardinality(Until(S, b + 1)) = Cardinality(Until(S, b)) + Cardinality(here)
  <2>1. Cardinality(Until(S, b) \cap here) = 0
    BY <1>3, FS_EmptySet
  <2>2. Cardinality(Until(S, b) \cup here) = Cardinality(Until(S, b)) + Cardinality(here)
    BY <1>5, <1>6, <2>1
  <2> QED
    BY <1>2, <2>2, Zenon
<1> QED
  BY <1>2, <1>7 DEF here

LEMMA SizeSnapshot ==
  ASSUME Inv, Inv', Snapshot, NEW c \in Callers, SizeOfBucket(c)
  PROVE  Snapshot'
<1> SUFFICES ASSUME NEW d \in Callers PROVE Watched(d)' /\ Listed(d)' /\ Sized(d)'
  BY DEF Snapshot
<1> USE DEF Inv
<1>1. bucket' = bucket /\ op' = op /\ list' = list /\ Watch(bucket)
  BY DEF SizeOfBucket
<1>2. op[d] # "none" => /\ always'[d] = always[d] \cap InMap(bucket)
                        /\ ever'[d] = ever[d] \cup InMap(bucket)
  BY <1>1, WatchedByAll
<1>3. Watched(d) /\ Listed(d) /\ Sized(d)
  BY DEF Snapshot
<1>4. CASE d # c
  <2>1. at'[d] = at[d] /\ total'[d] = total[d]
    BY <1>4 DEF SizeOfBucket, NextBucket, TypeOK
  <2> QED
    BY <1>1, <1>2, <1>3, <2>1, BystanderSnapshot
<1>5. CASE d = c
  <2> DEFINE D == DOMAIN bucket[at[c]]
  <2>1. /\ op[c] = "Size" /\ at[c] \in Buckets /\ at[c] \in Nat /\ at'[c] = at[c] + 1
        /\ total'[c] = total[c] + Cardinality(D) /\ total[c] \in Nat
    BY DEF SizeOfBucket, NextBucket, TypeOK, Buckets
  <2>2. /\ {k \in InMap(bucket) : Home(k) = at[c]} = D /\ D \in SUBSET Keys
    BY <2>1, AtHome
  <2> HIDE DEF D
  <2>3. always'[c] \in SUBSET Keys /\ ever'[c] \in SUBSET Keys
        /\ always[c] \in SUBSET Keys /\ ever[c] \in SUBSET Keys
    BY DEF TypeOK
  <2>4. Watched(c)' /\ Listed(c)'
    BY <1>1, <1>2, <1>5, <2>1 DEF Watched, Listed
  <2>5. Cardinality(Until(always'[c], at[c] + 1)) <= total[c] + Cardinality(D)
    <3> DEFINE here == {k \in always'[c] : Home(k) = at[c]}
    <3>1. here \in SUBSET D
      BY <1>2, <1>5, <2>1, <2>2
    <3>2. Cardinality(Until(always'[c], at[c] + 1)) = Cardinality(Until(always'[c], at[c])) + Cardinality(here)
      BY <2>1, <2>3, UntilNext
    <3>3. Until(always'[c], at[c]) \in SUBSET Until(always[c], at[c])
          /\ Until(always[c], at[c]) \in SUBSET Keys
      BY <1>2, <1>5, <2>1, <2>3 DEF Until
    <3> HIDE DEF here
    <3>4. /\ Cardinality(here) <= Cardinality(D) /\ Cardinality(here) \in Nat
          /\ Cardinality(D) \in Nat
      BY <2>2, <3>1, KeysFinite
    <3>5. /\ Cardinality(Until(always'[c], at[c])) <= Cardinality(Until(always[c], at[c]))
          /\ Cardinality(Until(always'[c], at[c])) \in Nat
          /\ Cardinality(Until(always[c], at[c])) \in Nat
      BY <3>3, KeysFinite
    <3>6. Cardinality(Until(always[c], at[c])) <= total[c]
      BY <1>3, <1>5, <2>1 DEF Sized
    <3> QED
      BY <2>1, <3>2, <3>4, <3>5, <3>6
  <2>6. total[c] + Cardinality(D) <= Cardinality(Until(ever'[c], at[c] + 1))
    <3> DEFINE here == {k \in ever'[c] : Home(k) = at[c]}
    <3>1. D \in SUBSET here /\ here \in SUBSET Keys
      BY <1>2, <1>5, <2>1, <2>2, <2>3
    <3>2. Cardinality(Until(ever'[c], at[c] + 1)) = Cardinality(Until(ever'[c], at[c])) + Cardinality(here)
      BY <2>1, <2>3, UntilNext
    <3>3. Until(ever[c], at[c]) \in SUBSET Until(ever'[c], at[c])
          /\ Until(ever'[c], at[c]) \in SUBSET Keys
      BY <1>2, <1>5, <2>1, <2>3 DEF Until
    <3> HIDE DEF here
    <3>4. /\ Cardinality(D) <= Cardinality(here) /\ Cardinality(here) \in Nat
          /\ Cardinality(D) \in Nat
      BY <3>1, KeysFinite
    <3>5. /\ Cardinality(Until(ever[c], at[c])) <= Cardinality(Until(ever'[c], at[c]))
          /\ Cardinality(Until(ever'[c], at[c])) \in Nat
          /\ Cardinality(Until(ever[c], at[c])) \in Nat
      BY <3>3, KeysFinite
    <3>6. total[c] <= Cardinality(Until(ever[c], at[c]))
      BY <1>3, <1>5, <2>1 DEF Sized
    <3> QED
      BY <2>1, <3>2, <3>4, <3>5, <3>6
  <2>7. Sized(c)'
    BY <2>1, <2>5, <2>6 DEF Sized, Until
  <2> QED
    BY <1>5, <2>4, <2>7
<1> QED
  BY <1>4, <1>5

(* A list of the keys below b and a list of distinct keys at b.            *)
LEMMA DistinctConcat ==
  ASSUME NEW s \in Seq(Entry), NEW t \in Seq(Entry), NEW b \in Nat, Distinct(s), Distinct(t),
         \A i \in DOMAIN s : Home(s[i].key) < b,
         \A i \in DOMAIN t : Home(t[i].key) = b
  PROVE  /\ s \o t \in Seq(Entry) /\ Distinct(s \o t)
         /\ \A i \in DOMAIN (s \o t) : Home((s \o t)[i].key) < b + 1
<1>1. DOMAIN s = 1..Len(s) /\ DOMAIN t = 1..Len(t) /\ Len(s) \in Nat /\ Len(t) \in Nat
  OBVIOUS
<1>2. /\ s \o t \in Seq(Entry) /\ DOMAIN (s \o t) = 1..(Len(s) + Len(t))
      /\ \A i \in 1..Len(s) : (s \o t)[i] = s[i]
      /\ \A i \in (Len(s) + 1)..(Len(s) + Len(t)) : (s \o t)[i] = t[i - Len(s)]
  OBVIOUS
<1> DEFINE u == s \o t
<1> HIDE DEF u
<1>3. ASSUME NEW i \in 1..(Len(s) + Len(t))
      PROVE  \/ i \in 1..Len(s) /\ u[i] = s[i] /\ Home(u[i].key) < b
             \/ i - Len(s) \in 1..Len(t) /\ u[i] = t[i - Len(s)] /\ Home(u[i].key) = b
  <2>1. CASE i <= Len(s)
    BY <1>1, <1>2, <2>1 DEF u
  <2>2. CASE i > Len(s)
    <3>1. i - Len(s) \in 1..Len(t) /\ i \in (Len(s) + 1)..(Len(s) + Len(t))
      BY <1>1, <2>2
    <3>2. u[i] = t[i - Len(s)]
      BY <1>2, <3>1 DEF u
    <3> QED
      BY <1>1, <3>1, <3>2
  <2> QED
    BY <1>1, <2>1, <2>2
<1>4. ASSUME NEW i \in 1..(Len(s) + Len(t)), NEW j \in 1..(Len(s) + Len(t)), u[i].key = u[j].key
      PROVE  i = j
  <2>1. ~(Home(u[i].key) < b /\ Home(u[i].key) = b)
    OBVIOUS
  <2>2. CASE i \in 1..Len(s) /\ u[i] = s[i] /\ Home(u[i].key) < b
    <3>1. j \in 1..Len(s) /\ u[j] = s[j]
      BY <1>3, <1>4, <2>1, <2>2
    <3> QED
      BY <1>1, <1>4, <2>2, <3>1 DEF Distinct
  <2>3. CASE i - Len(s) \in 1..Len(t) /\ u[i] = t[i - Len(s)] /\ Home(u[i].key) = b
    <3>1. j - Len(s) \in 1..Len(t) /\ u[j] = t[j - Len(s)]
      BY <1>3, <1>4, <2>1, <2>3
    <3>2. i - Len(s) = j - Len(s)
      BY <1>1, <1>4, <2>3, <3>1 DEF Distinct
    <3> QED
      BY <1>1, <3>2
  <2> QED
    BY <1>3, <2>2, <2>3
<1>5. \A i \in 1..(Len(s) + Len(t)) : Home(u[i].key) < b + 1
  <2> TAKE i \in 1..(Len(s) + Len(t))
  <2>1. CASE Home(u[i].key) = b
    BY <2>1
  <2>2. CASE i \in 1..Len(s) /\ u[i] = s[i] /\ Home(u[i].key) < b
    <3>1. s[i] \in Entry
      BY <2>2
    <3>2. Home(u[i].key) \in Nat
      BY <2>2, <3>1, HomeType DEF Entry, Buckets
    <3> QED
      BY <2>2, <3>2
  <2> QED
    BY <1>3, <2>1, <2>2
<1> QED
  BY <1>2, <1>4, <1>5 DEF u, Distinct

LEMMA ListSnapshot ==
  ASSUME Inv, Inv', Snapshot, NEW c \in Callers, ListBucket(c)
  PROVE  Snapshot'
<1> SUFFICES ASSUME NEW d \in Callers PROVE Watched(d)' /\ Listed(d)' /\ Sized(d)'
  BY DEF Snapshot
<1> USE DEF Inv
<1>1. bucket' = bucket /\ op' = op /\ total' = total /\ Watch(bucket)
  BY DEF ListBucket
<1>2. op[d] # "none" => /\ always'[d] = always[d] \cap InMap(bucket)
                        /\ ever'[d] = ever[d] \cup InMap(bucket)
  BY <1>1, WatchedByAll
<1>3. Watched(d) /\ Listed(d) /\ Sized(d)
  BY DEF Snapshot
<1>4. CASE d # c
  <2>1. at'[d] = at[d] /\ list'[d] = list[d]
    BY <1>4 DEF ListBucket, NextBucket, TypeOK
  <2> QED
    BY <1>1, <1>2, <1>3, <2>1, BystanderSnapshot
<1>5. CASE d = c
  <2> DEFINE m == bucket[at[c]]
             n == Cardinality(DOMAIN m)
             b == at[c]
  <2>1. op[c] = "GetAllKey" /\ b \in Buckets /\ b \in Nat /\ at'[c] = b + 1
    BY DEF ListBucket, NextBucket, TypeOK, Buckets
  <2>2. PICK s \in Walks(m) :
          list' = [list EXCEPT ![c] = @ \o [i \in 1..n |-> [key |-> s[i], value |-> m[s[i]]]]]
    BY DEF ListBucket
  <2> DEFINE new == [i \in 1..n |-> [key |-> s[i], value |-> m[s[i]]]]
  <2>3. /\ {k \in InMap(bucket) : Home(k) = b} = DOMAIN m /\ DOMAIN m \in SUBSET Keys
    BY <2>1, AtHome
  <2>4. n \in Nat
    BY <2>3, KeysFinite
  <2>5. m \in [DOMAIN m -> Values]
    BY <2>1, BucketMapType DEF TypeOK
  <2>6. /\ s \in [1..n -> DOMAIN m] /\ Range(s) = DOMAIN m
        /\ \A i, j \in 1..n : i < j => s[i] < s[j]
    BY DEF Walks
  <2>7. list'[c] = list[c] \o new /\ list[c] \in Seq(Entry) /\ list'[c] \in Seq(Entry)
    BY <2>2 DEF TypeOK
  <2> HIDE DEF m, n, b
  <2>8. /\ new \in [1..n -> Entry] /\ \A i \in 1..n : new[i].key = s[i] /\ s[i] \in DOMAIN m
    BY <2>3, <2>5, <2>6 DEF Entry
  <2>9. \A i, j \in 1..n : s[i] = s[j] => i = j
    <3> TAKE i, j \in 1..n
    <3>1. s[i] \in Nat /\ s[j] \in Nat
      BY <2>3, <2>6, ConcurrentMapAssumption
    <3>2. i < j => s[i] < s[j]
      BY <2>6
    <3>3. j < i => s[j] < s[i]
      BY <2>6
    <3> QED
      BY <2>4, <3>1, <3>2, <3>3
  <2> HIDE DEF new
  <2>10. new \in Seq(Entry) /\ DOMAIN new = 1..n /\ Len(new) = n
    BY <2>4, <2>8
  <2>11. Distinct(new)
    BY <2>8, <2>9, <2>10 DEF Distinct
  <2>12. \A i \in DOMAIN new : Home(new[i].key) = b /\ new[i].key \in InMap(bucket)
    BY <2>3, <2>8, <2>10
  <2>13. /\ Distinct(list[c]) /\ \A i \in DOMAIN list[c] : Home(list[c][i].key) < b
         /\ \A i \in DOMAIN list[c] : list[c][i].key \in ever[c]
         /\ \A k \in always[c] : Home(k) < b => k \in ListedKeys(c)
    BY <1>3, <1>5, <2>1 DEF Listed, b
  <2>14. /\ Distinct(list[c] \o new)
         /\ \A i \in DOMAIN (list[c] \o new) : Home((list[c] \o new)[i].key) < b + 1
    BY <2>1, <2>7, <2>10, <2>11, <2>12, <2>13, DistinctConcat
  <2>15. Range(list'[c]) = Range(list[c]) \cup Range(new)
    BY <2>7, <2>10, RangeConcat
  <2>16. always'[c] = always[c] \cap InMap(bucket) /\ ever'[c] = ever[c] \cup InMap(bucket)
    BY <1>2, <1>5, <2>1
  <2>17. ASSUME NEW i \in DOMAIN list'[c] PROVE list'[c][i].key \in ever'[c]
    <3>1. list'[c][i] \in Range(list[c]) \cup Range(new)
      BY <2>15 DEF Range
    <3>2. CASE list'[c][i] \in Range(list[c])
      BY <2>13, <2>16, <3>2 DEF Range
    <3>3. CASE list'[c][i] \in Range(new)
      BY <2>12, <2>16, <3>3 DEF Range
    <3> QED
      BY <3>1, <3>2, <3>3
  <2>18. ASSUME NEW k \in always'[c], Home(k) < b + 1
         PROVE  \E i \in DOMAIN list'[c] : list'[c][i].key = k
    <3>1. k \in always[c] /\ k \in InMap(bucket) /\ k \in Keys
      BY <2>16 DEF TypeOK
    <3>2. Home(k) < b \/ Home(k) = b
      BY <2>1, <2>18, <3>1, HomeType DEF Buckets
    <3>3. CASE Home(k) < b
      <4>1. PICK i \in DOMAIN list[c] : list[c][i].key = k
        BY <2>13, <3>1, <3>3 DEF ListedKeys
      <4>2. list[c][i] \in Range(list'[c])
        BY <2>15 DEF Range
      <4> QED
        BY <4>1, <4>2 DEF Range
    <3>4. CASE Home(k) = b
      <4>1. k \in Range(s)
        BY <2>3, <2>6, <3>1, <3>4
      <4>2. PICK i \in 1..n : s[i] = k
        BY <2>6, <4>1 DEF Range
      <4>3. new[i].key = k /\ new[i] \in Range(list'[c])
        BY <2>8, <2>10, <2>15, <4>2 DEF Range
      <4> QED
        BY <4>3 DEF Range
    <3> QED
      BY <3>2, <3>3, <3>4
  <2>19. Listed(c)'
    BY <2>1, <2>7, <2>14, <2>17, <2>18 DEF Listed, ListedKeys
  <2>20. Watched(c)' /\ Sized(c)'
    BY <1>1, <2>1, <2>16 DEF Watched, Sized
  <2> QED
    BY <1>5, <2>19, <2>20
<1> QED
  BY <1>4, <1>5

LEMMA SnapshotStep == Inv /\ Inv' /\ Snapshot /\ [Next]_vars => Snapshot'
<1> SUFFICES ASSUME Inv, Inv', Snapshot, [Next]_vars PROVE Snapshot'
  OBVIOUS
<1>1. ASSUME NEW c \in Callers, Enter(c) PROVE Snapshot'
  BY <1>1, BeginSnapshot DEF Enter
<1>2. ASSUME NEW c \in Callers, GoesOn(c) PROVE Snapshot'
  <2>1. CASE ListBucket(c)
    BY <2>1, ListSnapshot
  <2>2. CASE SizeOfBucket(c)
    BY <2>2, SizeSnapshot
  <2>3. CASE Return(c)
    BY <2>3, ReturnSnapshot
  <2>4. CASE WriteKey(c)
    BY <2>4, OtherCallSnapshot DEF WriteKey, Store, Inv, TypeOK
  <2>5. CASE ReadKey(c)
    <3>1. Watch(bucket') /\ op' = op /\ op[c] \notin {"GetAllKey", "Size"}
      BY <2>5 DEF ReadKey
    <3>2. \A d \in Callers \ {c} : at'[d] = at[d] /\ list'[d] = list[d] /\ total'[d] = total[d]
      BY <2>5 DEF ReadKey, Inv, TypeOK
    <3> QED
      BY <3>1, <3>2, OtherCallSnapshot
  <2>6. CASE LockBucket(c)
    <3>1. Watch(bucket') /\ op' = op /\ op[c] \notin {"GetAllKey", "Size"}
      BY <2>6 DEF LockBucket, Batches
    <3>2. \A d \in Callers \ {c} : at'[d] = at[d] /\ list'[d] = list[d] /\ total'[d] = total[d]
      BY <2>6 DEF LockBucket
    <3> QED
      BY <3>1, <3>2, OtherCallSnapshot
  <2>7. CASE UnlockBucket(c)
    <3>1. Watch(bucket') /\ op' = op /\ op[c] \notin {"GetAllKey", "Size"}
      BY <2>7 DEF UnlockBucket, Batches, Inv, CallShape
    <3>2. \A d \in Callers \ {c} : at'[d] = at[d] /\ list'[d] = list[d] /\ total'[d] = total[d]
      BY <2>7 DEF UnlockBucket, NextBucket, Inv, TypeOK
    <3> QED
      BY <3>1, <3>2, OtherCallSnapshot
  <2>8. CASE \E i \in DOMAIN entries[c] : TreatEntry(c, i)
    <3>1. Watch(bucket') /\ op' = op /\ op[c] \notin {"GetAllKey", "Size"}
      BY <2>8 DEF TreatEntry, Store, Batches, Inv, CallShape
    <3>2. \A d \in Callers \ {c} : at'[d] = at[d] /\ list'[d] = list[d] /\ total'[d] = total[d]
      BY <2>8 DEF TreatEntry
    <3> QED
      BY <3>1, <3>2, OtherCallSnapshot
  <2>9. CASE ClearBucket(c)
    <3>1. Watch(bucket') /\ op' = op /\ op[c] \notin {"GetAllKey", "Size"}
      BY <2>9 DEF ClearBucket, Store
    <3>2. \A d \in Callers \ {c} : at'[d] = at[d] /\ list'[d] = list[d] /\ total'[d] = total[d]
      BY <2>9 DEF ClearBucket, NextBucket, Inv, TypeOK
    <3> QED
      BY <3>1, <3>2, OtherCallSnapshot
  <2> QED
    BY <1>2, <2>1, <2>2, <2>3, <2>4, <2>5, <2>6, <2>7, <2>8, <2>9 DEF GoesOn
<1>3. CASE UNCHANGED vars
  <2>1. UNCHANGED <<op, at, list, total, always, ever, bucket>>
    BY <1>3 DEF vars, locals
  <2> SUFFICES ASSUME NEW c \in Callers PROVE Watched(c)' /\ Listed(c)' /\ Sized(c)'
    BY DEF Snapshot
  <2>2. Watched(c) /\ Listed(c) /\ Sized(c)
    BY DEF Snapshot
  <2> QED
    BY <2>1, <2>2, BystanderSnapshot DEF Watched, Inv
<1> QED
  BY <1>1, <1>2, <1>3 DEF Next

(* A list of distinct keys has as many keys as entries.                    *)
LEMMA DistinctCount ==
  ASSUME NEW s \in Seq(Entry), Distinct(s)
  PROVE  Cardinality({s[i].key : i \in DOMAIN s}) = Len(s)
<1> DEFINE T == {s[i].key : i \in DOMAIN s}
<1> DEFINE f == [i \in 1..Len(s) |-> s[i].key]
<1>1. DOMAIN s = 1..Len(s) /\ Len(s) \in Nat
  OBVIOUS
<1>2. f \in [1..Len(s) -> T] /\ \A x \in T : \E i \in 1..Len(s) : f[i] = x
  BY <1>1
<1>3. \A i, j \in 1..Len(s) : f[i] = f[j] => i = j
  BY <1>1 DEF Distinct
<1>4. IsFiniteSet(1..Len(s)) /\ Cardinality(1..Len(s)) = Len(s)
  BY <1>1, FS_Interval
<1> HIDE DEF f, T
<1>5. f \in Bijection(1..Len(s), T)
  BY <1>2, <1>3 DEF Bijection, Injection, Surjection, IsInjective
<1>6. ExistsBijection(1..Len(s), T)
  BY <1>5 DEF ExistsBijection
<1>7. Cardinality(T) = Len(s)
  BY <1>4, <1>6, FS_Bijection
<1> QED
  BY <1>7 DEF T

(* GetAllKey() and Size() lock one bucket at a time and still answer within*)
(* the bounds: no key twice, all that were there throughout, none that     *)
(* never was, and a size between.                                          *)
THEOREM SnapshotWithinBounds == Spec => []SnapshotBounds
<1>1. ASSUME Inv, Snapshot PROVE SnapshotBounds
  <2> SUFFICES ASSUME NEW c \in Callers, at[c] = BucketNums
               PROVE  /\ op[c] = "GetAllKey" =>
                           /\ always[c] \subseteq ListedKeys(c) /\ ListedKeys(c) \subseteq ever[c]
                           /\ Cardinality(ListedKeys(c)) = Len(list[c])
                      /\ op[c] = "Size" => total[c] \in Cardinality(always[c])..Cardinality(ever[c])
    BY DEF SnapshotBounds
  <2>1. /\ always[c] \in SUBSET Keys /\ ever[c] \in SUBSET Keys /\ list[c] \in Seq(Entry)
        /\ total[c] \in Nat
    BY <1>1 DEF Inv, TypeOK
  <2>2. \A k \in Keys : Home(k) < BucketNums
    BY HomeType, ConcurrentMapAssumption DEF Buckets
  <2>3. Until(always[c], at[c]) = always[c] /\ Until(ever[c], at[c]) = ever[c]
    BY <2>1, <2>2 DEF Until
  <2>4. Listed(c) /\ Sized(c)
    BY <1>1 DEF Snapshot
  <2>5. ASSUME op[c] = "GetAllKey"
        PROVE  /\ always[c] \subseteq ListedKeys(c) /\ ListedKeys(c) \subseteq ever[c]
               /\ Cardinality(ListedKeys(c)) = Len(list[c])
    <3>1. always[c] \subseteq ListedKeys(c)
      BY <2>1, <2>2, <2>4, <2>5 DEF Listed
    <3>2. ListedKeys(c) \subseteq ever[c]
      BY <2>4, <2>5 DEF Listed, ListedKeys
    <3>3. Cardinality(ListedKeys(c)) = Len(list[c])
      BY <2>1, <2>4, <2>5, DistinctCount DEF Listed, ListedKeys
    <3> QED
      BY <3>1, <3>2, <3>3
  <2>6. ASSUME op[c] = "Size" PROVE total[c] \in Cardinality(always[c])..Cardinality(ever[c])
    <3>1. Cardinality(always[c]) \in Nat /\ Cardinality(ever[c]) \in Nat
      BY <2>1, KeysFinite
    <3> QED
      BY <2>1, <2>3, <2>4, <2>6, <3>1 DEF Sized
  <2> QED
    BY <2>5, <2>6
<1>2. Inv /\ Snapshot /\ [Next]_vars => (Inv /\ Snapshot)'
  BY InvStep, SnapshotStep
<1> QED
  BY InitInv, InitSnapshot, <1>1, <1>2, PTL DEF Spec
=============================================================================
