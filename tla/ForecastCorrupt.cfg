SPECIFICATION Spec
CONSTANTS
  Requests = {r1, r2}
  Trainers = {t1}
  Stamps = {1, 2, 3, 4}
  Legacy = Legacy
  None = None
  Junk = Junk
  Bad = Bad
  Empty = Empty
  MaxData = 2
  MaxFaults = 1
INVARIANT
  CorruptedRecomputed
