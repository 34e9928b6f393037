SPECIFICATION Spec
CONSTANTS
  Sidecar <- TwoSidecars
  Task = {t, u}
  NoTask = NoTask
  FaultKinds <- AllFaults
  MaxFaults = 2
  MaxRestarts = 2
INVARIANTS DispatchedTogether
