CONSTANTS
  Nodes = {n1}
  Opener = n1
  Peer = n1
  Calls = {c1, c2}
  Serial = FALSE
  FailingDisks = {}
  MaxSeq = 4
  MaxCrashes = 0
SPECIFICATION Spec
INVARIANTS MonotonicSequence
CHECK_DEADLOCK FALSE
