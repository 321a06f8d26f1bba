SPECIFICATION Spec
CONSTANTS
  MotorCount = 1
  RecoveryTimeout = 4
  RetryInterval = 3
  TransmitTimeout = 2
  FeedbackTimeout = 3
  MaxTime = 8
PROPERTIES
  IdleIsNotStalled
