CONSTANTS
  Nodes = {n1, n2}
  Opener = n1
  Peer = n2
  Calls = {c1, c2}
  Serial = TRUE
  FailingDisks = {n1}
  MaxSeq = 3
  MaxCrashes = 1
SPECIFICATION FairSpec
INVARIANTS MonotonicSequence  SessionsSurvive StoreAgrees
PROPERTIES ResolverEvicts
CHECK_DEADLOCK FALSE
