SPECIFICATION Spec
CONSTANTS
  w1 = w1 w2 = w2 u1 = u1 u2 = u2 a1 = a1 a2 = a2 h1 = h1 p1 = p1 p2 = p2 c1 = c1
  Handlers = {w1, w2}
  Users = {u1, u2}
  Agents = {a1, a2}
  Hosts = {h1}
  HostOf <- OneHost
  Codes = {p1}
  Capabilities = {c1}
  None = None
SYMMETRY Symmetry
INVARIANTS AgentAndHostShareController
