SPECIFICATION FairSpec
CONSTANTS
  None = None
  Transactions <- RejectedTransactions
  MaxInFlight = 2
  MaxCrashes = 0
  QueueStates = {TRUE}
PROPERTY AllAcknowledged
