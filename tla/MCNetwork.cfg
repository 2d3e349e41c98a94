SPECIFICATION Spec
CONSTANTS
  r1 = r1
  r2 = r2
  None = None
  Remotes = {r1, r2}
  Seeds = {r1}
  AcceptedUpTo <- MCAcceptedUpTo
  Bans = TRUE
  RelayLimit = 2
  BroadcastLimit = 1
  MaxTip = 1
  MaxOutages = 1
  MaxStops = 1
INVARIANTS
  TypeOK
  ConsensusOfTable
PROPERTIES
  InTouch
CHECK_DEADLOCK FALSE
