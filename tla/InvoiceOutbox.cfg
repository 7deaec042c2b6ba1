\* Two runs at a time, one administrator, locks released in time.
CONSTANTS
  d1 = d1
  d2 = d2
  d3 = d3
  a1 = a1
  a2 = a2
  NoRow = NoRow
  Run = {d1, d2}
  Admin = {a1}
  MaxAttempts = 3
  MaxFaults = 2
  MaxRetries = 1
  MaxSlow = 0
SPECIFICATION FairSpec
INVARIANTS
  OneDispatch
  DeadLetterJustified
PROPERTIES
  SucceededIsFinal
  Converges
CHECK_DEADLOCK FALSE
