SPECIFICATION PublisherSpec
CONSTANTS
  Alerts = {a1, a2, a3}
  Callers = {c1, c2}
  MaxQueue = 2
  BatchSize = 2
  MaxAttempts = 1
  MaxFaults = 1
PROPERTIES
  InterruptedRetryKeeps
CHECK_DEADLOCK FALSE
