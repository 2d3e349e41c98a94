SPECIFICATION Spec
CONSTANTS
  FeeEntries <- RisingFees
  V2Addresses = {"rise1"}
  MaxVotes = 2
  Offered <- SwitchOffers
  MaxPayload = 370
  MaxTxs = 1
  MaxBytes = 931
  MaxHeight = 3
  MaxFaults = 0
  MaxSubmitted = 1
  MaxInbox = 1
INVARIANTS DecodedAsSent
CHECK_DEADLOCK FALSE
