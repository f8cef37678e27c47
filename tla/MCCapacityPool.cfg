SPECIFICATION Spec
CONSTANTS
  o1 = o1
  o2 = o2
  l1 = l1
  l2 = l2
  l3 = l3
  None = None
  Owners <- MCOwners
  Leases <- MCLeases
  OwnerOf <- MCOwnerOf
  Sizes <- MCSizes
  DriverLeases <- MCDriverLeases
  Bytes = 1024
  BurstPercent = 50
  MaxWaiters = 2
INVARIANTS Ledger ReserveExclusive NoLostWakeup NoLeak
