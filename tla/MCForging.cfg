SPECIFICATION Spec
CONSTANTS
  k1 = k1
  k2 = k2
  k3 = k3
  None = None
  Keys = {k1, k2, k3}
  Secrets <- MCSecrets
  RegisteredAt <- MCRegisteredAt
  List <- MCList
  ActiveDelegates = 3
  ForceForging = FALSE
  MaxSlot = 4
  MaxHeight = 3
  MaxPops = 1
  MaxSyncs = 1
  MaxCalls = 1
  MaxStops = 1
  MaxFailures = 1
INVARIANTS
  TypeOK
  OwnBlockVerifies
  OneBlockPerSlot
PROPERTIES
  ConfiguredKeysForge
CHECK_DEADLOCK FALSE
