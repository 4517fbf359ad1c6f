CONSTANTS
  n1 = n1
  n2 = n2
  a = a
  c = c
  Nodes = {n1, n2}
  Home = n1
  Handles = {a, c}
  NodeOf <- MCNodeOf
  Creator = a
  ChatUser = c
  Commands = {k1, k2}
  Workers = {w1}
  Serial = TRUE
  Retention = 2
  MayFail = TRUE
  MaxRuns = 2
  MaxCrashes = 1
  None = None
SPECIFICATION Spec
INVARIANTS HomeLeads RoomAgrees
PROPERTIES AppendOnly 
SYMMETRY Symmetry
CHECK_DEADLOCK FALSE
