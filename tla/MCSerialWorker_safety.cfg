SPECIFICATION Spec
CONSTANTS
  r1 = r1
  r2 = r2
  r3 = r3
  NoReq = NoReq
  Requests = {r1, r2}
  NumberOf <- DistinctNumbers
  Capacity = 1
  LossKinds = {"NETWORK_LOST"}
  MaxEvents = 1
SYMMETRY Interchangeable
INVARIANTS
  TypeOK
  ClientTimeoutNeverWritten
  SuccessWasTransmitted
PROPERTIES
  ImplementsDispatch
  ShutdownQuiesces
