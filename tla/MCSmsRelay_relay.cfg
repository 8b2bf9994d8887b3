SPECIFICATION MCFairSpec
CONSTANTS
  p1 = p1
  p2 = p2
  a1 = a1
  NoPhone = NoPhone
  Phones = {p1, p2}
  Apis = {a1}
  MaxTexts = 2
  MaxChanges = 1
  MaxCrashes = 1
  MaxEvents = 3
INVARIANTS
  PendingHasOwner
  SentWasTransmitted
  WrittenOnce
  HandledOnce
  ForwardFollowsTarget
PROPERTY EveryTextAnswered
CHECK_DEADLOCK FALSE
