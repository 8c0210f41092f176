SPECIFICATION FairSpec
CONSTANTS
  Reqs = {r1, r2, r3}
  Patches <- MCPatches
  Values <- MCValues
  Null = Null
  Absent = Absent
  Default <- MCKeyValue
  SeedValue <- MCKeyValue
  Seeded <- MCPair
INVARIANTS
  PairOrdered
  AuditChain
PROPERTY
  EveryPatchAnswered
CHECK_DEADLOCK FALSE
