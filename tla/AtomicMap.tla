------------------------------ MODULE AtomicMap ------------------------------
(***************************************************************************)
(* What ConcurrentMap promises to its callers, without buckets and locks:  *)
(* a call about keys does to each of its keys, at one moment between the   *)
(* call and its return, what the one-key operation does, in the order of   *)
(* the entries that name the same key; a call about the whole map treats   *)
(* every key once, each at a moment of its own.  ConcurrentMap.tla is      *)
(* shown to implement this module.                                         *)
(***************************************************************************)
EXTENDS Naturals, Sequences, FiniteSets

CONSTANTS
  Callers,    \* the threads that share the map
  Keys, Values,
  Absent,     \* stands for the value of a key that is not in the map
  Compare,    \* the pairs <<new, old>> for which Compare()(new, old) holds
  Calls       \* the calls to consider: records of an op and its entries

VARIABLES
  value,      \* the value of each key
  op,         \* the operation each caller is in, "none" outside
  entries,    \* the keys, or keys and values, it was given
  todo,       \* the entries, or the keys, it has not treated yet
  found,      \* the entries it has seen
  total       \* what it has counted: bool results count as 0 and 1

vars == <<value, op, entries, todo, found, total>>

Writers  == {"Insert", "InsertKeyBatch", "Update", "UpdateKeyBatch", "Delete", "RemoveKeyBatch"}
Batches  == {"InsertKeyBatch", "UpdateKeyBatch", "RemoveKeyBatch"}
Readers  == {"LookUp", "Contain"}
WholeMap == {"GetAllKey", "Size", "Clear"}

Init ==
  /\ value = [k \in Keys |-> Absent]
  /\ op = [c \in Callers |-> "none"] /\ entries = [c \in Callers |-> <<>>]
  /\ todo = [c \in Callers |-> {}]
  /\ found = [c \in Callers |-> {}] /\ total = [c \in Callers |-> 0]

Begin(c, call) ==
  /\ op[c] = "none"
  /\ op' = [op EXCEPT ![c] = call.op]
  /\ entries' = [entries EXCEPT ![c] = call.entries]
  /\ todo' = [todo EXCEPT ![c] = IF call.op \in WholeMap THEN Keys ELSE DOMAIN call.entries]
  /\ UNCHANGED <<value, found, total>>

(* What an operation makes of a key: only inserting makes one present, and *)
(* a present one gives way only to a value Compare prefers.                *)
Becomes(name, old, new) ==
  CASE name \in {"Delete", "RemoveKeyBatch"} -> Absent
    [] name \in {"Insert", "InsertKeyBatch"} /\ old = Absent -> new
    [] OTHER -> IF <<new, old>> \in Compare THEN new ELSE old

(* What a one-key operation answers; Delete() always says true.            *)
Takes(name, old, new) ==
  \/ name = "Delete"
  \/ name = "Insert" /\ old = Absent
  \/ name \in {"Insert", "Update"} /\ old # Absent /\ <<new, old>> \in Compare

Write(c, i) ==
  LET e == entries[c][i]
  IN  /\ op[c] \in Writers
      /\ i \in todo[c] /\ \A j \in todo[c] : j < i => entries[c][j].key # e.key
      /\ value' = [value EXCEPT ![e.key] = Becomes(op[c], value[e.key], e.value)]
      /\ total' = [total EXCEPT ![c] = IF Takes(op[c], value[e.key], e.value) THEN 1 ELSE @]
      /\ todo' = [todo EXCEPT ![c] = @ \ {i}]
      /\ UNCHANGED <<op, entries, found>>

Present(K) == {k \in K : value[k] # Absent}

Seen(K) == {[key |-> k, value |-> value[k]] : k \in Present(K)}

Read(c, i) ==
  LET k == entries[c][i].key
  IN  /\ op[c] \in Readers /\ i \in todo[c]
      /\ found' = [found EXCEPT ![c] = @ \cup (IF op[c] = "LookUp" THEN Seen({k}) ELSE {})]
      /\ total' = [total EXCEPT ![c] = @ + Cardinality(Present({k}))]
      /\ todo' = [todo EXCEPT ![c] = @ \ {i}]
      /\ UNCHANGED <<value, op, entries>>

Collect(c, K) ==
  /\ op[c] = "GetAllKey" /\ K \subseteq todo[c]
  /\ found' = [found EXCEPT ![c] = @ \cup Seen(K)]
  /\ todo' = [todo EXCEPT ![c] = @ \ K]
  /\ UNCHANGED <<value, op, entries, total>>

Count(c, K) ==
  /\ op[c] = "Size" /\ K \subseteq todo[c]
  /\ total' = [total EXCEPT ![c] = @ + Cardinality(Present(K))]
  /\ todo' = [todo EXCEPT ![c] = @ \ K]
  /\ UNCHANGED <<value, op, entries, found>>

Wipe(c, K) ==
  /\ op[c] = "Clear" /\ K \subseteq todo[c]
  /\ value' = [k \in Keys |-> IF k \in K THEN Absent ELSE value[k]]
  /\ todo' = [todo EXCEPT ![c] = @ \ K]
  /\ UNCHANGED <<op, entries, found, total>>

Return(c) ==
  /\ op[c] # "none" /\ todo[c] = {}
  /\ op' = [op EXCEPT ![c] = "none"] /\ entries' = [entries EXCEPT ![c] = <<>>]
  /\ found' = [found EXCEPT ![c] = {}] /\ total' = [total EXCEPT ![c] = 0]
  /\ UNCHANGED <<value, todo>>

Next ==
  \E c \in Callers :
    \/ \E call \in Calls : Begin(c, call)
    \/ \E i \in DOMAIN entries[c] : Write(c, i) \/ Read(c, i)
    \/ \E K \in SUBSET Keys : Collect(c, K) \/ Count(c, K) \/ Wipe(c, K)
    \/ Return(c)

Spec == Init /\ [][Next]_vars
=============================================================================
