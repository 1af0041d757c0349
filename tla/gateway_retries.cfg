SPECIFICATION FairSpec
CONSTANTS
  None = None
  Transactions <- ThrowingTransactions
  MaxInFlight = 2
  MaxCrashes = 1
  QueueStates = {TRUE, FALSE}
INVARIANTS TypeOK WorkIsQueuedOnce AcknowledgedIsComplete WorkIsInOrder
PROPERTY CleanPrefixIsAcknowledged
