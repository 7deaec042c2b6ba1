\* Three requests of up to two forks each on one active and one waiting place:
\* the third may find the gate full.
CONSTANTS
  l1 = l1
  l2 = l2
  l3 = l3
  k1 = k1
  k2 = k2
  None = None
  MaxChain = 2
  Lease = {l1, l2, l3}
  Leaf = {k1, k2}
  MaxActive = 1
  MaxWaiters = 1
SPECIFICATION LiveSpec
INVARIANTS
  CapacityAccounted
  LeafWorkIsOwned
PROPERTIES
  LeasesComeBack
  ClosedDrains
CHECK_DEADLOCK FALSE
