SPECIFICATION FairSpec
CONSTANTS
  MotorCount = 2
  Settings <- HandshakeSettings
  MaxAttempts = 2
  MaxAnswers = 1
  MaxFaults = 1
INVARIANTS
  TypeOK
  RunningMotorsAreConfigured
  StopSurvivesLosses
  ConfirmedStopIsReal
PROPERTIES
  ImplementsLifecycle
  ActivationIsReal
  UnattendedMotorsStop
  CallsReturn
