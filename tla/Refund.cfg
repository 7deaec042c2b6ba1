\* Two refunds of an order and two runs of the queue; one run is lost, one
\* order to the queue, each refund may be asked for twice.
CONSTANTS
  r1 = r1
  r2 = r2
  w1 = w1
  w2 = w2
  None = None
  Job = {r1, r2}
  Worker = {w1, w2}
  BatchSize = 2
  MaxAttempts = 2
  MaxClaims = 3
  MaxFaults = 1
  MaxAdmin = 1
  Total = 1
  MaxAsks = 2
SYMMETRY MCSymmetry
SPECIFICATION RefundSpec
INVARIANTS
  PaidOnlyWhenAsked
  BooksMatchRefunds
  VettedRefundsFit
  OverlapNeedsAnOrder
  ProcessingIsHeld
PROPERTIES
  SettledForGood
  OnlyTheHolderSettles
CHECK_DEADLOCK FALSE
