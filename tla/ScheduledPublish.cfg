\* Two runs of the schedule and one direct request; one run dies, one order.
CONSTANTS
  w1 = w1
  w2 = w2
  c1 = c1
  c2 = c2
  Schedule = Schedule
  None = None
  Worker = {w1, w2}
  Direct = {c1}
  MaxAttempts = 2
  MaxClaims = 3
  MaxFaults = 1
  MaxAdmin = 1
SPECIFICATION LiveSpec
INVARIANTS
  AtMostOnce
  RowIsTruthful
  SucceededIsPublished
PROPERTIES
  EntryIsFenced
  NoReplay
  ScheduleSettles
CHECK_DEADLOCK FALSE
