\* Payments through both entries; every kind of key in every client; the
\* wallets for Ethereum and Solana, in every form of a public key but one.
SPECIFICATION PartSpec
CONSTANTS
  None = None
  p1 = p1
  p2 = p2
  Payments = {p1, p2}
  Entries = {"node", "provider"}
  Nonces = {0, 1}
  FeeFields = {{}, {"maxFeePerGas"}}
  MaxNonce = 4
  Attempts = 2
  MaxFaults = 1
  Kinds = {"secp256k1", "p256", "ed25519", "ed448", "decaf448", "bls48581", "bls12381", "rsa", "rsa 2-of-2"}
  Rounds = 2
  Keys = {1}
  WalletEntries = {"react ethereum", "react solana", "solana hook", "vanilla ethereum", "vanilla solana", "node ethereum", "node solana"}
  Users = {"alice"}
  Forms = {"der", "compressed", "uncompressed", "unprefixed", "raw", "raw 0x30"}
SYMMETRY PaymentSymmetry
INVARIANTS NoGap PaidOnce TasksReachTheirSession ShareIsFound OneWallet NoWalletLeftOut
PROPERTY AwaitedSendsStand
CHECK_DEADLOCK FALSE
