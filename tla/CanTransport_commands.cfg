SPECIFICATION FairSpec
CONSTANTS
  MotorCount = 2
  NoFrame = NoFrame
  MaxGeneration = 2
  MaxTransactions = 0
  MaxCalls = 3
  MaxRuns = 1
  MayFail = FALSE
INVARIANTS
  MotionHeldDuringRecovery
  LatestCommandWins
PROPERTIES
  HeldMotionResumes
