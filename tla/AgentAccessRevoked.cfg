SPECIFICATION Spec
CONSTANTS
  w1 = w1 w2 = w2 r1 = r1 r2 = r2 s1 = s1 s2 = s2 l1 = l1 l2 = l2
  Handlers = {w1, w2}
  Requests = {r1}
  Scopes = {s1}
  Leases = {l1}
  MaxRows = 1
  DecisionModes = {"once","until"}
  DirectModes = {"persistent"}
  None = None
SYMMETRY Symmetry
INVARIANT RevokedPermissionHasNoLease
CHECK_DEADLOCK FALSE
