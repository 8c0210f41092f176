SPECIFICATION FairSpec
CONSTANTS
  Jobs = {j1, j2}
  Lag = 1
  Retentions = {0, 3}
  MaxHour = 4
  MaxReadings = 2
  MaxFaults = 1
  None = None
PROPERTIES
  RollUpsConverge
  RetentionHolds
