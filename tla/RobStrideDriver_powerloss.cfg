SPECIFICATION FairSpec
CONSTANTS
  MotorCount = 1
  Settings <- PowerLossSettings
  MaxAttempts = 1
  MaxAnswers = 1
  MaxFaults = 2
PROPERTIES
  LossOfHostStopsMotors
