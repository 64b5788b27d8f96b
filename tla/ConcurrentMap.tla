---------------------------- MODULE ConcurrentMap ----------------------------
(***************************************************************************)
(* ConcurrentMap and ConcurrentBucket of concurrent_map.h: a vector of     *)
(* buckets, each a std::map behind a boost::shared_mutex, and the calls of *)
(* any number of threads.                                                  *)
(*                                                                         *)
(* What a one-key call, GetAllKey(), Size() or Clear() does to one bucket  *)
(* is one step, possible while no batch holds the bucket's lock; a batch   *)
(* takes the lock, treats one entry per step and releases it.              *)
(***************************************************************************)
EXTENDS Naturals, Sequences, FiniteSets, Functions

CONSTANTS
  Callers,      \* the threads that share the map
  Keys, Values,
  Absent,       \* no value; what AtomicMap has for a key that is not there
  BucketNums,   \* bucket_nums, the argument of the constructor
  Hash,         \* hasher_, a function on the keys
  Compare,      \* the pairs <<new, old>> for which Compare()(new, old) holds
  Calls         \* the calls to consider: records of an op and its entries

KeyCalls == {"Insert", "Update", "Delete", "LookUp", "Contain"}
Batches  == {"InsertKeyBatch", "UpdateKeyBatch", "RemoveKeyBatch"}
WholeMap == {"GetAllKey", "Size", "Clear"}

Entry == [key : Keys, value : Values]

ASSUME ConcurrentMapAssumption ==
  /\ Keys \subseteq Nat /\ IsFiniteSet(Keys) /\ Absent \notin Values
  /\ BucketNums \in Nat \ {0}
  /\ Hash \in [Keys -> Nat] /\ Compare \subseteq Values \X Values
  /\ \A call \in Calls :
       /\ call.op \in KeyCalls \cup Batches \cup WholeMap
       /\ call.entries \in Seq(Entry)
       /\ call.op \in KeyCalls => Len(call.entries) = 1

VARIABLES
  bucket,     \* map_ of each bucket
  op,         \* the call each caller is in, "none" outside
  entries,    \* its arguments
  at,         \* bucket_index: the bucket it treats next, BucketNums at the end
  inside,     \* whether it holds the write lock of that bucket (batches)
  next,       \* the entries before this one are treated in that bucket
  list,       \* the vector or the value it hands back
  total,      \* total_size or ret (0 for false, 1 for true)
  always,     \* history: the keys that were in the map ever since the call
  ever        \* history: the keys that were in the map some time since then

locals == <<op, entries, at, inside, next, list, total>>
vars == <<bucket, locals, always, ever>>

Buckets == 0..(BucketNums - 1)

Home(k) == Hash[k] % BucketNums

(* std::map with the keys of one bucket. *)
BucketMap(b) == UNION {[D -> Values] : D \in SUBSET {k \in Keys : Home(k) = b}}

EmptyMap == [k \in {} |-> Absent]

(* Every key is in the bucket it hashes to, so that it is there once.      *)
TypeOK ==
  /\ DOMAIN bucket = Buckets /\ \A b \in Buckets : bucket[b] \in BucketMap(b)
  /\ op \in [Callers -> KeyCalls \cup Batches \cup WholeMap \cup {"none"}]
  /\ entries \in [Callers -> Seq(Entry)]
  /\ at \in [Callers -> 0..BucketNums] /\ inside \in [Callers -> BOOLEAN]
  /\ next \in [Callers -> Nat]
  /\ list \in [Callers -> Seq(Entry)] /\ total \in [Callers -> Nat]
  /\ always \in [Callers -> SUBSET Keys] /\ ever \in [Callers -> SUBSET Keys]

InMap(maps) == UNION {DOMAIN maps[b] : b \in Buckets}

Init ==
  /\ bucket = [b \in Buckets |-> EmptyMap]
  /\ op = [c \in Callers |-> "none"] /\ entries = [c \in Callers |-> <<>>]
  /\ at = [c \in Callers |-> BucketNums] /\ inside = [c \in Callers |-> FALSE]
  /\ next = [c \in Callers |-> 1]
  /\ list = [c \in Callers |-> <<>>] /\ total = [c \in Callers |-> 0]
  /\ always = [c \in Callers |-> {}] /\ ever = [c \in Callers |-> {}]

-----------------------------------------------------------------------------
(* ConcurrentBucket, under its lock.                                       *)

Put(m, k, v) == [x \in DOMAIN m \cup {k} |-> IF x = k THEN v ELSE m[x]]

Replaces(m, k, v) == k \in DOMAIN m /\ <<v, m[k]>> \in Compare

(* Mutant of InsertWithoutLock: a key that is present stays as it is. *)
InsertOnlyNew(m, k, v) == IF k \notin DOMAIN m THEN Put(m, k, v) ELSE m

InsertWithoutLock(m, k, v) ==
  IF k \notin DOMAIN m \/ Replaces(m, k, v) THEN Put(m, k, v) ELSE m

UpdateWithoutLock(m, k, v) ==
  IF Replaces(m, k, v) THEN Put(m, k, v) ELSE m

RemoveWithoutLock(m, k) == Restrict(m, DOMAIN m \ {k})

(* What the operation makes of a bucket. *)
Applied(name, m, e) ==
  CASE name \in {"Insert", "InsertKeyBatch"} -> InsertWithoutLock(m, e.key, e.value)
    [] name \in {"Update", "UpdateKeyBatch"} -> UpdateWithoutLock(m, e.key, e.value)
    [] name \in {"Delete", "RemoveKeyBatch"} -> RemoveWithoutLock(m, e.key)

(* The ways to walk a map: from the smallest key to the largest. *)
Walks(m) ==
  {s \in [1..Cardinality(DOMAIN m) -> DOMAIN m] :
     Range(s) = DOMAIN m /\ \A i, j \in DOMAIN s : i < j => s[i] < s[j]}

(* boost::shared_mutex: a batch inside keeps everybody else out. *)
Unlocked(b) == \A c \in Callers : inside[c] => at[c] # b

(* What the history variables see of a step that leaves the map at maps.   *)
Watch(maps) ==
  /\ always' = [c \in Callers |-> IF op[c] = "none" THEN {} ELSE always[c] \cap InMap(maps)]
  /\ ever' = [c \in Callers |-> IF op[c] = "none" THEN {} ELSE ever[c] \cup InMap(maps)]

Store(b, m) ==
  /\ bucket' = [bucket EXCEPT ![b] = m]
  /\ Watch(bucket')

-----------------------------------------------------------------------------
(* Calls.                                                                  *)

(* Mutant of Cleared: the vector keeps what an earlier call put there. *)
Kept(vector) == vector

(* list.clear() *)
Cleared(vector) == <<>>

(* A caller enters a call; GetAllKey() is given a vector with something    *)
(* in it or with nothing.                                                  *)
Begin(c, call, vector) ==
  /\ op[c] = "none"
  /\ op' = [op EXCEPT ![c] = call.op]
  /\ entries' = [entries EXCEPT ![c] = call.entries]
  /\ at' = [at EXCEPT ![c] = IF call.op \in KeyCalls THEN Home(call.entries[1].key) ELSE 0]
  /\ next' = [next EXCEPT ![c] = 1]
  /\ list' = [list EXCEPT ![c] = IF call.op = "GetAllKey" THEN Cleared(vector) ELSE <<>>]
  /\ always' = [always EXCEPT ![c] = InMap(bucket)]
  /\ ever' = [ever EXCEPT ![c] = InMap(bucket)]
  /\ UNCHANGED <<bucket, inside, total>>

(* Insert(), Update() and Delete() on the bucket of the key. *)
WriteKey(c) ==
  LET b == at[c]
      e == entries[c][1]
  IN  /\ op[c] \in {"Insert", "Update", "Delete"} /\ b \in Buckets /\ Unlocked(b)
      /\ Store(b, Applied(op[c], bucket[b], e))
      /\ total' = [total EXCEPT ![c] =
                     IF \/ op[c] = "Delete"
                        \/ op[c] = "Insert" /\ e.key \notin DOMAIN bucket[b]
                        \/ op[c] \in {"Insert", "Update"} /\ Replaces(bucket[b], e.key, e.value)
                     THEN 1 ELSE 0]
      /\ at' = [at EXCEPT ![c] = BucketNums]
      /\ UNCHANGED <<op, entries, inside, next, list>>

(* LookUp() and Contain() *)
ReadKey(c) ==
  LET m == bucket[at[c]]
      k == entries[c][1].key
  IN  /\ op[c] \in {"LookUp", "Contain"} /\ at[c] \in Buckets /\ Unlocked(at[c])
      /\ list' = [list EXCEPT ![c] = IF op[c] = "LookUp" /\ k \in DOMAIN m
                                     THEN <<[key |-> k, value |-> m[k]]>> ELSE <<>>]
      /\ total' = [total EXCEPT ![c] = IF k \in DOMAIN m THEN 1 ELSE 0]
      /\ at' = [at EXCEPT ![c] = BucketNums]
      /\ Watch(bucket)
      /\ UNCHANGED <<bucket, op, entries, inside, next>>

(* Mutant of SubList: the list is not split. *)
WholeList(c, b) == {i \in DOMAIN entries[c] : i >= next[c]}

(* The entries of the list that are in the sub-list of bucket b and that   *)
(* the loop over it has not passed.                                        *)
SubList(c, b) == {i \in DOMAIN entries[c] : Home(entries[c][i].key) = b /\ i >= next[c]}

(* A batch locks its next bucket, also when it has nothing for it. *)
LockBucket(c) ==
  /\ op[c] \in Batches /\ at[c] \in Buckets /\ ~inside[c] /\ Unlocked(at[c])
  /\ inside' = [inside EXCEPT ![c] = TRUE]
  /\ Watch(bucket)
  /\ UNCHANGED <<bucket, op, entries, at, next, list, total>>

(* One turn of the loop over the sub-list. *)
TreatEntry(c, i) ==
  /\ inside[c]
  /\ i \in SubList(c, at[c]) /\ \A j \in SubList(c, at[c]) : i <= j
  /\ Store(at[c], Applied(op[c], bucket[at[c]], entries[c][i]))
  /\ next' = [next EXCEPT ![c] = i + 1]
  /\ UNCHANGED <<op, entries, at, inside, list, total>>

NextBucket(c) == at' = [at EXCEPT ![c] = @ + 1]

UnlockBucket(c) ==
  /\ inside[c] /\ SubList(c, at[c]) = {}
  /\ inside' = [inside EXCEPT ![c] = FALSE]
  /\ next' = [next EXCEPT ![c] = 1]
  /\ NextBucket(c)
  /\ Watch(bucket)
  /\ UNCHANGED <<bucket, op, entries, list, total>>

(* GetAllKey() pushes what the bucket holds, in the order of its map. *)
ListBucket(c) ==
  LET m == bucket[at[c]]
  IN  /\ op[c] = "GetAllKey" /\ at[c] \in Buckets /\ Unlocked(at[c])
      /\ \E s \in Walks(m) :
           list' = [list EXCEPT ![c] =
                      @ \o [i \in 1..Cardinality(DOMAIN m) |-> [key |-> s[i], value |-> m[s[i]]]]]
      /\ NextBucket(c)
      /\ Watch(bucket)
      /\ UNCHANGED <<bucket, op, entries, inside, next, total>>

(* Size() *)
SizeOfBucket(c) ==
  /\ op[c] = "Size" /\ at[c] \in Buckets /\ Unlocked(at[c])
  /\ total' = [total EXCEPT ![c] = @ + Cardinality(DOMAIN bucket[at[c]])]
  /\ NextBucket(c)
  /\ Watch(bucket)
  /\ UNCHANGED <<bucket, op, entries, inside, next, list>>

(* Clear() *)
ClearBucket(c) ==
  /\ op[c] = "Clear" /\ at[c] \in Buckets /\ Unlocked(at[c])
  /\ Store(at[c], EmptyMap)
  /\ NextBucket(c)
  /\ UNCHANGED <<op, entries, inside, next, list, total>>

Return(c) ==
  /\ op[c] # "none" /\ at[c] = BucketNums
  /\ op' = [op EXCEPT ![c] = "none"] /\ entries' = [entries EXCEPT ![c] = <<>>]
  /\ list' = [list EXCEPT ![c] = <<>>] /\ total' = [total EXCEPT ![c] = 0]
  /\ always' = [always EXCEPT ![c] = {}] /\ ever' = [ever EXCEPT ![c] = {}]
  /\ UNCHANGED <<bucket, at, inside, next>>

(* What GetAllKey() may be given: an empty vector or one with an entry.    *)
Vectors == {<<>>} \cup {<<e>> : e \in Entry}

Enter(c) == \E call \in Calls, vector \in Vectors : Begin(c, call, vector)

GoesOn(c) ==
  \/ WriteKey(c) \/ ReadKey(c)
  \/ LockBucket(c) \/ UnlockBucket(c) \/ \E i \in DOMAIN entries[c] : TreatEntry(c, i)
  \/ ListBucket(c) \/ SizeOfBucket(c) \/ ClearBucket(c)
  \/ Return(c)

Next == \E c \in Callers : Enter(c) \/ GoesOn(c)

Spec == Init /\ [][Next]_vars

-----------------------------------------------------------------------------
(* Properties.                                                             *)

(* GetAllKey() and Size() see the buckets one after the other while others *)
(* change the map.  Even so GetAllKey() lists no key twice, every key that *)
(* was there all the time, and none that was never there; and what Size()  *)
(* counts lies between the two.                                            *)
ListedKeys(c) == {list[c][i].key : i \in DOMAIN list[c]}

SnapshotBounds ==
  \A c \in Callers : at[c] = BucketNums =>
    /\ op[c] = "GetAllKey" =>
         /\ always[c] \subseteq ListedKeys(c) /\ ListedKeys(c) \subseteq ever[c]
         /\ Cardinality(ListedKeys(c)) = Len(list[c])
    /\ op[c] = "Size" => total[c] \in Cardinality(always[c])..Cardinality(ever[c])

(* A batch holds one lock at a time, and it alone is inside that bucket.   *)
OneInside ==
  \A c, d \in Callers : (inside[c] /\ inside[d] /\ at[c] = at[d]) => c = d

(* The map as one function on the keys, what is left to do of each call,   *)
(* and what it has seen.                                                   *)
ValueIn(m, k) == IF k \in DOMAIN m THEN m[k] ELSE Absent

Value == [k \in Keys |-> ValueIn(bucket[Home(k)], k)]

Todo == [c \in Callers |->
  IF op[c] = "none" THEN {}
  ELSE IF op[c] \in WholeMap THEN {k \in Keys : Home(k) >= at[c]}
  ELSE {i \in DOMAIN entries[c] :
          LET b == Home(entries[c][i].key)
          IN  b > at[c] \/ (b = at[c] /\ i >= next[c])}]

Found == [c \in Callers |-> Range(list[c])]

Atomic == INSTANCE AtomicMap WITH value <- Value, todo <- Todo, found <- Found

(* Every call takes effect on each of its keys at one moment of its own,   *)
(* between the call and its return, and answers accordingly: one-key calls *)
(* are atomic although nothing locks the whole map, and the entries of a   *)
(* batch that name the same key are treated in their order.                *)
ImplementsAtomicMap == Atomic!Spec
=============================================================================
