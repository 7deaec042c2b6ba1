\* A run dies between the draft and its totals.
CONSTANTS
  d1 = d1
  d2 = d2
  d3 = d3
  a1 = a1
  a2 = a2
  NoRow = NoRow
  Run = {d1, d2}
  Admin = {a1}
  MaxAttempts = 3
  MaxFaults = 1
  MaxRetries = 0
  MaxSlow = 0
SPECIFICATION Spec
INVARIANTS
  SucceededIsComplete
CHECK_DEADLOCK FALSE
