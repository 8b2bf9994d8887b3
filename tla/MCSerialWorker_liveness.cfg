SPECIFICATION FairSpec
CONSTANTS
  r1 = r1
  r2 = r2
  r3 = r3
  NoReq = NoReq
  Requests = {r1}
  NumberOf <- DistinctNumbers
  Capacity = 2
  LossKinds = {"NETWORK_LOST", "SIM_MISSING"}
  MaxEvents = 1
PROPERTIES
  EveryCallerReturns
  StopTerminates
