SPECIFICATION Spec
CONSTANTS
  alice = alice
  bob = bob
  carol = carol
  x = x
  y = y
  k0 = k0
  k1 = k1
  kb = kb
  kc = kc
  g = g
  voteX = voteX
  oldVoteX = oldVoteX
  swapVote = swapVote
  change1 = change1
  regY = regY
  regYToo = regYToo
  second = second
  None = None
  AccountIds <- MCAccounts
  Usernames <- MCUsernames
  ForgingKeys <- MCKeys
  Txs <- MCTxs
  Tx <- MCTx
  GenesisTxs <- MCGenesis
  MaximumVotes = 1
  MaxTxsPerBlock = 2
  MaxHeight = 3
  MaxIncoming = 2
  MaxLosses = 1
INVARIANTS
  TypeOK
  ConfirmedFollowsChain
  ExactWhenUndisturbed
  RefusedForItself
CHECK_DEADLOCK FALSE
