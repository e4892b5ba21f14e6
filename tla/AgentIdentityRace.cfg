SPECIFICATION Spec
CONSTANTS
  w1 = w1 w2 = w2 i1 = i1 i2 = i2 h1 = h1 h2 = h2 k1 = k1 k2 = k2
  Handlers = {w1, w2}
  Identities = {i1, i2}
  Hosts = {h1, h2}
  Keys = {k1}
  None = None
SYMMETRY Symmetry
INVARIANTS TypeOK NothingHalfCreated
PROPERTIES ReservationsHold DeletionIsFinal
