SPECIFICATION Spec
CONSTANTS
  alice = alice
  bob = bob
  t1 = t1
  t2 = t2
  t3 = t3
  AccountIds <- MCAccounts
  Txs <- MCTxs
  Sender <- MCSender
  Recipient <- MCRecipient
  Amount <- MCAmount
  Fee <- MCFee
  Genesis <- MCGenesis
  HeldBack <- MCHeldBack
  UnconfirmedInPool = 2
  MaxTxsPerBlock = 2
  MaxHeight = 2
  MaxReceived = 2
  MaxExpired = 1
  MaxFaults = 1
  MaxRestarts = 1
INVARIANTS
  TypeOK
  TxInOnePlace
  BalancesReplayChain
  UnconfirmedFollowsPool
  PoolNeverExcludes
  ApplyHoldsShutdown
