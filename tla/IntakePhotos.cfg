\* Two photos, two finalizations, one cleanup at a time, one restart.  The
\* writes and the acknowledgement of p1 may fail; a walk sees both private files
\* and one of two canonical ones.
CONSTANTS
  p1 = p1
  p2 = p2
  f1 = f1
  f2 = f2
  c1 = c1
  c2 = c2
  Photo = {p1, p2}
  Finalizer = {f1, f2}
  Cleaner = {c1}
  ImageAdmission = FALSE
  ExecutionEnabled = TRUE
  MaxExamined <- Caps
  Faulty = {p1}
  MaxRestarts = 1
SPECIFICATION LiveSpec
INVARIANTS
  SourcesAreKept
  PhotosAreKept
PROPERTIES
  OrphansGo
CHECK_DEADLOCK FALSE
