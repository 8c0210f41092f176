SPECIFICATION Spec
CONSTANTS
  p1 = p1
  p2 = p2
  Payloads = {p1, p2}
  Timed <- MCTimed
  DeviceTime <- MCDeviceTime
  Workers = {w1}
  Readers = {r1}
  Admins = {}
  MaxRetries = 0
  MaxFailures = 2
  MaxCrashes = 0
  Faulty = FALSE
  None = None
INVARIANT
  NoOlderSnapshot
CHECK_DEADLOCK FALSE
