SPECIFICATION Spec
CONSTANTS
  Base = 6
  Width = 2
  Bytes = {0, 1, 2}
  MaxKey = 2
  MaxMember = 1
  MaxItems = 3
  MaxPayload = 4
  MaxData = 9
  Bounds <- MCBounds
  maxRESPLine = 3
  maxRESPBulk = 3
  maxRESPArgs = 2
  Replies <- MCReplies
  Following = {"LF", "$", "a"}
  MaxTail = 2
  Directories <- MCDirectories
  Manifests <- MCManifests
  Roots <- MCRoots
  Missing <- MCMissing
  NotDirectories <- MCNotDirectories
  LinkedModules = {"http"}
  Platform = "linux"
  MaxInstalled = 2
  MaxRoots = 2
INVARIANTS RecordsAreSeparate LogicalKeyIsInverse ListCodecIsExact RangeIsInclusive StreamStaysFramed 
CHECK_DEADLOCK FALSE
