SPECIFICATION BroadcasterSpec
CONSTANTS
  t1 = t1
  t2 = t2
  t3 = t3
  t4 = t4
  x1 = x1
  x2 = x2
  x3 = x3
  Tasks = {t1, t2, t3, t4}
  Body <- MCBody
  Relays <- MCRelays
  TaskRelayLimit = 2
  ReleaseLimit = 2
  MaxSharedTxs = 2
  MaxFailures = 1
INVARIANTS
  BroadcasterTypeOK
PROPERTIES
  TxsLeave
CHECK_DEADLOCK FALSE
