SPECIFICATION Spec
CONSTANTS
  Procs = {p1, p2}
  Fields = {f1}
  Members = {m1, m2}
  Data = {x}
  Batches <- OneBatch
  TTLs = {0, 1}
  Workload = {"Put", "Get", "Delete", "SAdd", "SRemove"}
  MaxTime = 2
  MaxFaults = 1
  MaxKeys = 2
  MaxLen = 1
  One = One
  Absent = Absent
  None = None
  a = a
  b = b
INVARIANTS ScalarReadDeletesExpired SetCountsExact
PROPERTIES ScalarIsRegister 
