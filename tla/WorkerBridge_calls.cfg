SPECIFICATION FairSpec
CONSTANTS
  MaxCalls = 4
  MaxFaults = 2
INVARIANTS AnswersMatchCalls OneSidecarPolls FailuresAreTold
PROPERTY EveryCallSettles
CHECK_DEADLOCK FALSE
