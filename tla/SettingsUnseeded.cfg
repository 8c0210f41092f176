SPECIFICATION Spec
CONSTANTS
  Reqs = {r1, r2}
  Patches <- MCPatches
  Values <- MCValues
  Null = Null
  Absent = Absent
  Default <- MCKeyValue
  SeedValue <- MCKeyValue
  Seeded = {}
SYMMETRY MCSymmetry
INVARIANT
  PairOrdered
CHECK_DEADLOCK FALSE
