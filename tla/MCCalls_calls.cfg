CONSTANTS
  alice = alice
  bob = bob
  Users = {alice, bob}
  NoUser = NoUser
  NoCall = NoCall
  rank <- MCRank
  MaxCalls = 3
  MaxTaps = 2
  MaxLosses = 1
  MaxEvents = 3
  MaxUnderWay = 1
SPECIFICATION MCFairSpec
INVARIANTS MarkerHasOwner StartedOnce StartedWasAnswered NotBothBusy CompletedWasAnswered
PROPERTIES AttemptsEnd
CHECK_DEADLOCK FALSE
