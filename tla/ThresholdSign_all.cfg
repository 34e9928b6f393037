SPECIFICATION FairSpec
CONSTANTS
  Party = {1, 3}
  DkgIds = {1, 2, 3}
  Protocols = {"decaf448", "frost", "bls48581", "bls12381", "rsa", "dkls23"}
  PartyIDMaps <- Numberings
  LastRound = 4
  MaxFaults = 2
  MaxRestarts = 1
  Q = 101
  Polynomial <- KeyPolynomial
  Nonce <- DrawnNonce
  Challenge <- HashOf
  N = 55
  E = 7
  DShares <- DPolynomial
  Input = 2
INVARIANTS SignaturesVerify NonceUsedOnce
PROPERTIES EventuallySigned
CHECK_DEADLOCK FALSE
