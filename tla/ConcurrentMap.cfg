\* Two callers, two buckets, three keys.
SPECIFICATION Spec
CONSTANTS
  Callers = {c1, c2}
  Keys = {1, 2, 3}
  Values = {1, 2}
  Absent = Absent
  BucketNums = 2
  Hash <- KeyItself
  Compare <- Larger
  Calls <- SomeCalls
SYMMETRY Symmetry
INVARIANTS TypeOK SnapshotBounds
PROPERTY ImplementsAtomicMap
