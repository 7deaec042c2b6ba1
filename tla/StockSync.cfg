\* Two movements of one product's stock, two runs of the queue; one run is
\* lost, one order to the queue.  Every job has one attempt, so MaxClaims is
\* never what stops a run.
CONSTANTS
  m1 = m1
  m2 = m2
  w1 = w1
  w2 = w2
  None = None
  Job = {m1, m2}
  Worker = {w1, w2}
  BatchSize = 2
  MaxAttempts = 1
  MaxClaims = 3
  MaxFaults = 1
  MaxAdmin = 1
  MaxStock = 1
  FirstStock = 1
SPECIFICATION StockLiveSpec
INVARIANTS
  DriftHasAReason
PROPERTIES
  DriftEnds
CHECK_DEADLOCK FALSE
