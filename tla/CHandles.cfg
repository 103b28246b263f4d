SPECIFICATION CAPISpec
CONSTANTS
  Threads = {t1, t2}
  Keys = {1, 2}
  MaxHandles = 2
  MaxCursors = 1
INVARIANTS ClosedHandleIsInvalid SnapshotInOrder
SYMMETRY Symmetric
