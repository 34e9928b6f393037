SPECIFICATION Spec
CONSTANTS
  Kinds = {"rsa 2-of-2"}
  Rounds = 2
INVARIANT RsaSharesAreFound
