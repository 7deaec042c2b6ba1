\* One refund, no lost run and no order to the queue: the administrator asks
\* again through the refund alone.
CONSTANTS
  r1 = r1
  r2 = r2
  w1 = w1
  w2 = w2
  None = None
  Job = {r1}
  Worker = {w1}
  BatchSize = 1
  MaxAttempts = 2
  MaxClaims = 3
  MaxFaults = 0
  MaxAdmin = 0
  Total = 1
  MaxAsks = 2
SPECIFICATION RefundLiveSpec
PROPERTIES
  RetriedRefundRuns
CHECK_DEADLOCK FALSE
