SPECIFICATION Spec
CONSTANTS
  Reqs = {r1, r2}
  Patches <- MCMailPatches
  Values <- MCValues
  Null = Null
  Absent = Absent
  Default <- MCKeyValue
  SeedValue <- MCKeyValue
  Seeded <- MCPair
SYMMETRY MCSymmetry
INVARIANT
  AuditChainAllKeys
CHECK_DEADLOCK FALSE
