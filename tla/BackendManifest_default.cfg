SPECIFICATION Spec
CONSTANTS
  Processes = {p1, p2}
  leveldb = leveldb
  mem = mem
  memdb = memdb
  RocksDB = rocksdb
  Linked = {rocksdb, leveldb, mem}
  Native = {memdb}
  OnDisk = {rocksdb, leveldb}
  Selections <- MCDefault
  Legacy = FALSE
  MaxFaults = 0
  Absent = Absent
  Torn = Torn
SYMMETRY Symmetric
INVARIANT OneEnginePerDirectory
