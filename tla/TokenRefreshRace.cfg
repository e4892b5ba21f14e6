SPECIFICATION Spec
CONSTANTS
  Requests = {r1, r2, r3}
  Reliable = {r1, r2, r3}
  r1 = r1 r2 = r2 r3 = r3 r4 = r4 k1 = k1 k2 = k2 c1 = c1 a1 = a1 a2 = a2
  Clients = {k1, k2}
  Credentials = {c1}
  Resources = {a1}
  ClientOf <- OneCredential
  None = None
SYMMETRY RequestSymmetry
INVARIANTS TypeOK OneLivePerFamily RevokedFamilyHasNoLiveToken
PROPERTIES DeadFamilyStaysDead
