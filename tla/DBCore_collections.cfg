SPECIFICATION FairSpec
CONSTANTS
  Procs = {p1, p2}
  Fields = {f1}
  Members = {m1}
  Data = {x}
  Batches <- OneBatch
  TTLs = {1}
  Workload = {"HGet", "HSet", "HGetAll", "HDelete", "SAdd", "SRemove", "RPush", "LPush"}
  MaxTime = 2
  MaxFaults = 0
  MaxKeys = 1
  MaxLen = 4
  One = One
  Absent = Absent
  None = None
  a = a
  b = b
INVARIANTS ListUpdateAtomic
PROPERTY CallsReturn
