SPECIFICATION Spec
CONSTANTS
  MaxWord = 7
  PageSize = 2
  HeapPages <- MCHeapPages
  Clients = {c1}
  LibClients = {c1}
  Nobody = Nobody
  Blank = Blank
  Nothing = Nothing
  Requests <- MCOneThread
  InitialTargets <- MCTargets
  KernelFaults = FALSE
  MaxChanges = 0
  StaleSizes = {0, 2}
INVARIANT LibIdleHoldsNothing
CHECK_DEADLOCK FALSE
