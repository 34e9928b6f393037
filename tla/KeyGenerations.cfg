SPECIFICATION PartSpec
CONSTANTS
  Party = {a, b, c}
  Protocols = {"dkls23", "frost", "bls12381"}
  LastRound = 4
  MaxFaults = 2
  MaxRestarts = 1
  StorageMayFail = TRUE
  Dealer = a
  Garbage <- AnError
  P = 3
  Q = 5
  E = 3
  RsaRounds = 8
  RsaFaults = 1
SYMMETRY Symmetry
INVARIANTS AgreeOnKey InStep RsaAgreeOnKey RsaStoredKeysWork RsaInStep
CHECK_DEADLOCK FALSE
