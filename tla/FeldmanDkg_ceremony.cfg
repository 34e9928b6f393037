SPECIFICATION FairSpec
CONSTANTS
  Party = {a, b, c}
  MaxFaults = 2
  MaxRestarts = 1
  StorageMayFail = FALSE
PROPERTIES ImplementsCeremony EventuallyDone
