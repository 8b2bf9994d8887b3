SPECIFICATION FairSpec
CONSTANTS
  a = a
  b = b
  Sides <- MCSides
  MaxAttempts = 1
  MaxMissed = 2
  MaxOutages = 1
PROPERTIES
  BrokenLinkIsSettled
CHECK_DEADLOCK FALSE
