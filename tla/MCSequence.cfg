SPECIFICATION Spec
CONSTANTS
  default = default
  balances = balances
  receive = receive
  fork = fork
  incoming = incoming
  apply1 = apply1
  pop = pop
  apply2 = apply2
  NoTask = NoTask
  Names <- MCNames
  Tasks <- MCTasks
  SeqOf <- MCSeqOf
  Calls <- MCCalls
  Rank <- MCRank
\* the system stops when every call has been answered
CHECK_DEADLOCK FALSE
INVARIANTS
  TypeOK
  OneTickServes
PROPERTY
  ServesInOrder
