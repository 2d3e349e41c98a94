SPECIFICATION Spec
CONSTANTS
  FeeEntries <- RisingFees
  V2Addresses = {"rise1"}
  MaxVotes = 2
  Offered <- MixedOffers
  MaxPayload = 370
  MaxTxs = 2
  MaxBytes = 931
  MaxHeight = 4
  MaxFaults = 1
  MaxSubmitted = 3
  MaxInbox = 1
INVARIANTS TypeOK AcceptedAsSent
PROPERTIES PeerKeptUnlessExcused CatchesUp
CHECK_DEADLOCK FALSE
