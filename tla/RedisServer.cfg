SPECIFICATION FairSpec
CONSTANTS
  Conns = {c1, c2, c3}
  Closers = {z1, z2}
  MaxClients = 2
  None = None
INVARIANTS ClientsBounded ClosedMeansQuiet NoLostSocket
PROPERTY CloseReturns
CHECK_DEADLOCK FALSE
