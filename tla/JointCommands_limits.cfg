SPECIFICATION Spec
CONSTANTS
  NaN = NaN
  Steps = 12
  Snap = 1
  Tolerance = 2
  MaxTicks = 1000
  Profiles <- ScaledProfiles
  Configurations <- DescriptionsToCheck
  Values <- TargetValues
INVARIANTS
  TargetsArriveUnclipped
  OnlyRoundingIsRejected
  ReportIsWhatWasCommanded
