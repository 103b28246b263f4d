SPECIFICATION Spec
CONSTANTS
  Processes = {p1, p2, p3}
  leveldb = leveldb
  mem = mem
  memdb = memdb
  RocksDB = rocksdb
  Linked = {rocksdb, leveldb, mem}
  Native = {memdb}
  OnDisk = {rocksdb, leveldb}
  Selections <- MCAll
  Legacy = TRUE
  MaxFaults = 2
  Absent = Absent
  Torn = Torn
SYMMETRY Symmetric
INVARIANTS OpenMatchesManifest
PROPERTY ManifestIsForever
