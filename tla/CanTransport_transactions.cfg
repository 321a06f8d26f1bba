SPECIFICATION FairSpec
CONSTANTS
  MotorCount = 1
  NoFrame = NoFrame
  MaxGeneration = 4
  MaxTransactions = 2
  MaxCalls = 0
  MaxRuns = 2
  MayFail = TRUE
INVARIANTS
  TransactionsInOrder
  AckMeansPublishedOrDropped
  StopDrainsTransactions
PROPERTIES
  StopReturns
  TransactionsAreHandled
