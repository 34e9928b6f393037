SPECIFICATION Spec
CONSTANTS
  Party = {a, b, c}
  MaxFaults = 2
  MaxRestarts = 1
  StorageMayFail = TRUE
SYMMETRY Symmetry
INVARIANTS StoredKeysAreWhole AgreementWithoutRestart SharesNeedAllCommitments
