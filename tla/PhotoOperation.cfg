\* Two executions on three processes of two machines, both artifacts.  The first
\* process is not confined.
CONSTANTS
  e1 = e1
  e2 = e2
  p1 = p1
  p2 = p2
  p3 = p3
  None = None
  Foreign = Foreign
  Exec = {e1, e2}
  Proc = {p1, p2, p3}
  Host = {1, 2}
  HostOf <- TwoHosts
  Confined = {p2, p3}
  ArtCount = 2
  TrustedOperator = TRUE
SPECIFICATION FairSpec
INVARIANTS
  AuthorityPinsGeneration
  OneLiveExecutor
  RecordedBeforeNamed
  ReviewNeedsEvidence
  CommittedIsPublished
PROPERTIES
  TransferAfterExit
  PublishesOnce
  RetryConverges
CHECK_DEADLOCK FALSE
