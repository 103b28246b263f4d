SPECIFICATION FairTopology
CONSTANTS
  Modes = {"linked", "mixed", "module", "standalone"}
  Auxiliaries <- OneAuxiliary
  Callers = {h1}
  Closers = {main}
  Main = main
  MaxCalls = 2
  MaxSignals = 2
  MaxCrashes = 1
  None = None
INVARIANTS NoCallRacesClose NothingLeftBehind ZeroMeansAsked CleanExitClosed
PROPERTIES OwnerDeathStopsRedis StopIsObeyed StaleOwnerRefused HandlersFinish
CHECK_DEADLOCK FALSE
