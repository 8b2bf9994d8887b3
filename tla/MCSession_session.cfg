SPECIFICATION MCFairSpec
CONSTANTS
  r1 = r1
  r2 = r2
  Requests = {r1, r2}
  Boot = Boot
  User = User
  Nobody = Nobody
  MaxPairs = 3
  MaxStarts = 2
  MaxLogins = 1
INVARIANTS
  RotatedOnce
PROPERTIES
  KeptThroughFailures
  ReloginExplained
  RequestSettles
CHECK_DEADLOCK FALSE
