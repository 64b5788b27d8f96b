--------------------------- MODULE MCConcurrentMap ---------------------------
(* ConcurrentMap.tla for TLC: three keys, of which two share a bucket, and  *)
(* a Compare that prefers larger values.                                    *)
EXTENDS ConcurrentMap, TLC

Symmetry == Permutations(Callers)

KeyItself == [k \in Keys |-> k]
Larger == {p \in Values \X Values : p[1] > p[2]}

Few(name, es) == [op |-> name, entries |-> es]
E1(k, v) == [key |-> k, value |-> v]

SomeCalls ==
  { Few("Insert", <<E1(1, 1)>>), Few("Insert", <<E1(1, 2)>>), Few("Insert", <<E1(2, 1)>>),
    Few("Update", <<E1(1, 2)>>), Few("Delete", <<E1(1, 1)>>), Few("Delete", <<E1(2, 1)>>),
    Few("LookUp", <<E1(1, 1)>>), Few("Contain", <<E1(2, 1)>>),
    Few("InsertKeyBatch", <<E1(1, 2), E1(2, 1), E1(3, 1), E1(1, 1)>>),
    Few("UpdateKeyBatch", <<E1(3, 2), E1(1, 2)>>),
    Few("RemoveKeyBatch", <<E1(3, 1), E1(1, 1)>>),
    Few("GetAllKey", <<>>), Few("Size", <<>>), Few("Clear", <<>>) }
=============================================================================
