SPECIFICATION FairSpec
CONSTANTS
  Nodes = {1}
  Runs = {r1, r2}
  Users = {u1, u2}
  None = None
  NoData = NoData
  Aqis <- MCAqis
  WARNING = 1
  CRITICAL = 2
  MaxAcks = 2
  MaxCrashes = 1
INVARIANTS
  OneOpenAlertPerNode
  NotifiedAfterCommit
  NotifiedAtMostOnce
PROPERTIES
  BoardSpec
  BreachStaysVisible
