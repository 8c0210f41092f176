SPECIFICATION Spec
CONSTANTS
  Nodes = {1, 2}
  Runs = {r1, r2}
  Users = {u1}
  None = None
  NoData = NoData
  Aqis <- MCAqis
  WARNING = 1
  CRITICAL = 2
  MaxAcks = 1
  MaxCrashes = 0
SYMMETRY MCSymmetry
INVARIANT
  SomeRunProgresses
