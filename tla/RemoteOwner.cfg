SPECIFICATION FairSpec
CONSTANTS
  Clients = {c1, c2}
  Calls = {"Put", "Get", "HSet", "HGet", "RPush", "SAdd", "SRemove", "HDelete"}
  TTLs = {0, 1}
  MaxRequests = 2
  MaxRedis = 1
  MaxFaults = 1
  MaxTime = 2
  Absent = Absent
  None = None
INVARIANTS PushesKept CountsBalance
PROPERTIES ReadsSeeNoGap RequestsFinish
CHECK_DEADLOCK FALSE
