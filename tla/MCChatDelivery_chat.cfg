SPECIFICATION MCFairSpec
CONSTANTS
  alice = alice
  bob = bob
  w1 = w1
  w2 = w2
  m1 = m1
  conv = conv
  Users = {alice, bob}
  Workers = {w1, w2}
  sender = alice
  receiver = bob
  Messages = {m1}
  conversation = conv
  DrainLimit = 1
  MaxDrops = 1
  MaxRetries = 1
  MaxChannels = 1
  MaxSeens = 1
  MaxStops = 1
  MaxTrouble = 2
INVARIANTS
  DeliveredIsSaved
  AcceptedIsKept
PROPERTIES
  AwayIsCaughtUp
CHECK_DEADLOCK FALSE
