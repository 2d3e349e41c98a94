SPECIFICATION Spec
CONSTANTS
  g = g
  a2 = a2
  a3 = a3
  a4 = a4
  b3 = b3
  b4 = b4
  b5 = b5
  e2 = e2
  e3 = e3
  Blocks <- MCBlocks
  Genesis <- g
  Parent <- MCParent
  Height <- MCHeight
  Time <- MCTime
  Rank <- MCRank
  Unprocessable <- MCUnprocessable
  Milestones = {4}
  ActiveDelegates = 3
  SlotWindow = 2
  Peers <- MCPeers
  Batch = 2
  Retries = 1
  MaxFaults = 2
INVARIANTS
  TypeOK
  SyncKeepsChain
  MemoryFollowsChain
PROPERTY
  TableIsAPath
