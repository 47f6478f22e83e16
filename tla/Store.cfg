SPECIFICATION StoreSpec
CONSTANTS
  None = None
  t1 = t1
  t2 = t2
  k1 = k1
  k2 = k2
  k3 = k3
INVARIANTS
  RequestsAreAccounted
  ProbeIsSound
  FaultsAreAccounted
PROPERTIES
  RequestsEnd
CHECK_DEADLOCK FALSE
