SPECIFICATION Spec
CONSTANTS
  Keys = {1}
  Fields = {f1}
  Members = {m1, m2}
  Texts = {x}
  Numbers <- MCNumbers
  Amounts <- MCAmounts
  Second = 2
  Bounds <- MCBounds
  Workload = {"GET", "STRLEN", "SET", "SETNX", "SETEX", "GETSET", "GETDEL", "GETEX", "APPEND", "INCRBY", "DECRBY", "DEL", "EXISTS", "MGET", "MSET", "KEYS", "DBSIZE", "FLUSHDB", "TYPE", "TTL", "PERSIST", "EXPIRE", "HSET", "HGET", "HMGET", "HEXISTS", "HGETALL", "HLEN", "HKEYS", "HVALS", "HDEL", "HINCRBY", "SADD", "SREM", "SISMEMBER", "SMISMEMBER", "SMEMBERS", "SCARD", "LPUSH", "RPUSH", "LPUSHX", "RPUSHX", "LRANGE", "LLEN", "LPOP", "RPOP", "LTRIM"}
  MaxInt = 7
  MaxTime = 3
  MaxLen = 2
  Absent = Absent
INVARIANTS TypeOK 
PROPERTIES ExpireIsInTheFuture 
VIEW Keyspace
