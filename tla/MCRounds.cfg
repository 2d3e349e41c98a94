SPECIFICATION Spec
CONSTANTS
  alice = alice
  bob = bob
  carol = carol
  dave = dave
  voter = voter
  ka = ka
  kb = kb
  kc = kc
  kd = kd
  ka2 = ka2
  kg = kg
  revote = revote
  rekey = rekey
  None = None
  AccountIds <- MCAccounts
  Keys <- MCKeys
  KeyRank <- MCKeyRank
  KeyAddress <- MCKeyAddress
  Txs <- MCTxs
  Tx <- MCTx
  Genesis <- MCGenesis
  GenesisGenerator = kg
  Milestones <- MCMilestones
  Weight <- MCWeight
  SeedByte <- MCSeedByte
  ActiveDelegates = 3
  DelegatesPoolSize = 4
  MaxContinuousMissedBlocks = 1
  FirstV2 = 3
  FeesSwitchHeight = 5
  ProductivityFrom = 3
  MaxHeight = 6
  MaxSkip = 2
  MaxEmptySlots = 2
  MaxTxs = 1
  MaxRestarts = 1
  MaxRequests = 1
INVARIANTS
  TypeOK
  MoneyReplaysChain
  SupplyConserved
  ListReplaysUnlessAstray
  DelegatesTold
CHECK_DEADLOCK FALSE
