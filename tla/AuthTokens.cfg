SPECIFICATION FairSpec
CONSTANTS
  Requests = {r1, r2}
  Tokens = {t1, t2, t3}
  Resets = {p1, p2}
  MaxIssued = 3
  UserRow = UserRow
  None = None
INVARIANT
  OneLivePerLogin
PROPERTIES
  DeadChainStaysDead
  ResetIsOneTime
  DeactivationTakesEffect
