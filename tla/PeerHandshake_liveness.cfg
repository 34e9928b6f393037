SPECIFICATION FairSpec
CONSTANTS
  Sidecar <- ThreeSidecars
  Task = {t}
  NoTask = NoTask
  FaultKinds <- Recoverable
  MaxFaults = 1
  MaxRestarts = 0
INVARIANTS NoHelloLost
PROPERTIES EveryTaskDispatched
