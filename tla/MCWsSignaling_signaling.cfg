CONSTANTS
  alice = alice
  Peers = {alice}
  MaxAttempts = 1
  MaxQueue = 2
  MaxFrames = 3
  MaxEvents = 2
SPECIFICATION MCFairSpec
INVARIANTS NoOrphanSocket NeverStranded TornDownIsNotReplayed InOrder
PROPERTIES ZombieIsReplaced QueuedIsSettled
CHECK_DEADLOCK FALSE
