SPECIFICATION FairSpec
CONSTANTS
  App = {a}
  MaxStarts = 6
  MaxRound = 2
  MaxFaults = 2
  MaxStops = 2
  MaxReloads = 1
  DirectStarts = FALSE
  ImpatientStops = FALSE
  ClearsOnFailure = TRUE
INVARIANTS OneLoop OneIdentity
PROPERTIES EventuallyStarted KeepsPolling
CHECK_DEADLOCK FALSE
