SPECIFICATION Spec
CONSTANTS
  Users = {ann, bob}
  MaxKeys = 1
  MaxLogins = 2
  MaxLogouts = 1
  MaxReloads = 2
  MaxFaults = 1
  MaxEvents = 3
SYMMETRY Symmetry
INVARIANTS OnlyLeakedSidecarsRunOn SharesReachOwner SavedSessionIsCurrent FirstContextIsCurrent
PROPERTY NoForeignWalletsLoaded
CHECK_DEADLOCK FALSE
