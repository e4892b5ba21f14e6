SPECIFICATION Spec
CONSTANTS
  w1 = w1 w2 = w2 r1 = r1 r2 = r2 s1 = s1 s2 = s2 l1 = l1 l2 = l2
  Handlers = {w1, w2}
  Requests = {r1, r2}
  Scopes = {s1, s2}
  Leases = {l1}
  MaxRows = 3
  DecisionModes = {"once"}
  DirectModes = {}
  None = None
SYMMETRY Symmetry
PROPERTIES ApprovalIsWhole
CHECK_DEADLOCK FALSE
