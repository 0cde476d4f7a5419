CONSTANTS
  Keys <- SmuKeys
  Unknown = Unknown
  None = None
  Levels <- RequestedLevels
  Steps <- RequestedSteps
  Limits <- RequestedLimits
  Schema <- Keithley2600
  GlobalMax <- ScaledMax
  MaxPoints = 6
SPECIFICATION Spec
INVARIANTS
  TypeOK
  LevelsWithinLimits
  EstimateIsExact
  SweepCoversTheRange
  SetupIsValidated
  VerdictsAgree
