SPECIFICATION FairSpec
CONSTANTS
  d1 = d1
  d2 = d2
  call = call
  participant = participant
  conversation = conversation
  NoRecord = NoRecord
  Devices = {d1, d2}
  Records = {conversation}
  Parent <- NoParent
  PageLimit = 2
  MaxTime = 2
  MaxWrites = 2
  MaxDeletes = 0
  MaxFailures = 0
PROPERTIES
  Converges
