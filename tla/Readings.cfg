SPECIFICATION FairSpec
CONSTANTS
  p1 = p1
  p2 = p2
  Payloads = {p1}
  Timed <- MCTimed
  DeviceTime <- MCDeviceTime
  Workers = {w1, w2}
  Readers = {r1}
  Admins = {a1}
  MaxRetries = 1
  MaxFailures = 2
  MaxCrashes = 1
  Faulty = TRUE
  None = None
INVARIANTS
  TimedStoredOnce
  NothingVanishes
PROPERTIES
  EveryReadingSettles
  CircuitRecovers
  LatestCatchesUp
