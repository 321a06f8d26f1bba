SPECIFICATION Spec
CONSTANTS
  MotorCount = 2
  RecoveryTimeout = 4
  RetryInterval = 2
  TransmitTimeout = 3
  FeedbackTimeout = 3
  MaxTime = 10
INVARIANTS
  TypeOK
  HoldsMatchRecoveries
  NoEndlessRecovery
  RecoveryGetsItsTime
  RetriesKeepTheirDistance
  ActiveMeansDelivering
PROPERTIES
  LossIsPersistent
  StallIsReal
