SPECIFICATION FairSpec
CONSTANTS
  c1 = c1
  c2 = c2
  c3 = c3
  Runs = {c1, c2, c3}
  NoRun = NoRun
  MaxRetries = 1
INVARIANTS OneConnectAtATime ShownIsLinked
PROPERTIES ConnectSettles
CHECK_DEADLOCK FALSE
