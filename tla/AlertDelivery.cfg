SPECIFICATION MCSpec
CONSTANTS
  Alerts = {a1, a2, a3, a4}
  Few = {a1, a2}
  Watched = a1
  InboxSize = 2
  Callers = {c1, c2}
  MaxQueue = 2
  BatchSize = 2
  MaxAttempts = 1
  MaxFaults = 2
  Clients = {s1}
  Ghost = Ghost
  NoCast = NoCast
  Full = 2
INVARIANTS
  OpenSocketsReachable
PROPERTIES
  LostOnlyByPolicy
  AlertReachesSocket
  DeadAccountLosesSocket
