SPECIFICATION FairSpec
CONSTANTS
  MaxWord = 7
  PageSize = 2
  HeapPages <- MCHeapPages
  Clients = {c1, c2}
  LibClients = {c1}
  Nobody = Nobody
  Blank = Blank
  Nothing = Nothing
  Requests <- MCRequests
  InitialTargets <- MCTargets
  KernelFaults = TRUE
  MaxChanges = 2
  StaleSizes = {0, 2}
INVARIANTS TypeOK PointersReadTarget IdleHoldsNothing
PROPERTIES OthersUndisturbed CallsReturn MediatesAccess
CHECK_DEADLOCK FALSE
