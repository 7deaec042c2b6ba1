\* Runs slower than the stale-lock threshold, two administrators.
CONSTANTS
  d1 = d1
  d2 = d2
  d3 = d3
  a1 = a1
  a2 = a2
  NoRow = NoRow
  Run = {d1, d2}
  Admin = {a1, a2}
  MaxAttempts = 1
  MaxFaults = 0
  MaxRetries = 2
  MaxSlow = 1
SPECIFICATION Spec
INVARIANTS
  AtMostOneDraft
  SucceededMeansDrafted
SYMMETRY MCSymmetry
CHECK_DEADLOCK FALSE
