SPECIFICATION FairSpec
CONSTANTS
  a1 = a1  a2 = a2  b1 = b1  s1 = s1  s2 = s2
  None = None
  Addrs <- MCAddrs
  Bases <- MCBases
  Stamps <- MCStamps
  NSlots = 2
  Reserve = 1
  NWaiters = 1
  NBits = 3
  MaxUpsets = 1
  Stops = TRUE
CHECK_DEADLOCK FALSE
INVARIANTS
  LockHolderNeverParks
  AdoptionKept
  SignalsAccounted
  NoLostWake
  WaitersCounted
PROPERTIES
  StopFreesWaiters
  UnpublishedReturns
