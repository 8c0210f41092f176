SPECIFICATION FairSpec
CONSTANTS
  e1 = e1
  e2 = e2
  e3 = e3
  u1 = u1
  u2 = u2
  Exports = {e1, e2, e3}
  Users = {u1, u2}
  Owner <- MCOwner
  Limit = 2
  MaxStreams = 1
  Rows = 2
  MaxFaults = 1
INVARIANTS
  OneExportPerCooldown
  CompleteOrMarked
PROPERTIES
  ExportsEnd
