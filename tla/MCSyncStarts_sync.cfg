SPECIFICATION MCFairSpec
CONSTANTS
  d1 = d1
  d2 = d2
  call = call
  participant = participant
  conversation = conversation
  NoRecord = NoRecord
  Devices = {d1, d2}
  Records = {call, participant}
  Parent <- OneParent
  PageLimit = 1
  MaxTime = 2
  MaxWrites = 3
  FirstWrites = 2
  MaxTrouble = 1
  MaxDeletes = 1
  MaxFailures = 1
INVARIANTS
  SyncedIsCommitted
PROPERTIES
  UnpushedEditSurvives
  DeletedStaysDeleted
  EveryEditReachesServer
