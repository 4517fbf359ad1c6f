SPECIFICATION Spec
CONSTANTS
  Users = {u1, u2}
  Teams = {t1, t2}
  Codes = {c1}
  Nodes = {n1}
  Tokens = {k1}
  Requests = {r1, r2}
  MaxUses = 1
  None = None
INVARIANTS OwnerRemains TablesAgree
SYMMETRY Symmetric
CHECK_DEADLOCK FALSE
