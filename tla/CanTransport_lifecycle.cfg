SPECIFICATION Spec
CONSTANTS
  MotorCount = 1
  NoFrame = NoFrame
  MaxGeneration = 4
  MaxTransactions = 1
  MaxCalls = 1
  MaxRuns = 1
  MayFail = TRUE
INVARIANTS
  TypeOK
  NoStaleActivation
  NoLostWakeup
  FailureClosesGate
PROPERTIES
  ImplementsCommandBus
