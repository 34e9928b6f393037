SPECIFICATION Spec
CONSTANTS
  App = {a}
  MaxStarts = 3
  MaxRound = 1
  MaxFaults = 1
  MaxStops = 2
  MaxReloads = 0
  DirectStarts = TRUE
  ImpatientStops = TRUE
  ClearsOnFailure = TRUE
INVARIANTS StartedIsPolling PollsAsRegistered
PROPERTY StoppedStaysStopped
CHECK_DEADLOCK FALSE
