SPECIFICATION ScanSpec
CONSTANTS
  Keys = {1, 2}
  Fields = {f1}
  Members = {m1}
  Texts = {x}
  Numbers = {}
  Amounts <- ShortAmounts
  Second = 1
  Bounds <- MCBounds
  Workload = {"GET", "TYPE", "TTL", "EXPIRE", "HGETALL", "SMEMBERS", "LRANGE", "LLEN", "SCARD", "MSETNX", "DEL", "SCAN", "DB.Put", "DB.HSet", "DB.HDelete", "DB.SAdd", "DB.SRemove", "DB.RPush"}
  MaxInt = 7
  MaxTime = 2
  MaxLen = 1
  Counts = {1}
  Absent = Absent
 
PROPERTIES  NeverReturnsExpired 
VIEW Walk
CONSTRAINT SecondIsPlain
