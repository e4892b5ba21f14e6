SPECIFICATION Spec
CONSTANTS
  w1 = w1 w2 = w2 w3 = w3 g1 = g1 g2 = g2
  Handlers = {w1, w2, w3}
  Grants = {g1, g2}
  MaxRotations = 2
  MaxVersion = 3
  Overrun = TRUE
  None = None
SYMMETRY Symmetry
INVARIANTS TypeOK RevokedConnectionHasNoCredential CallbackIsHonouredOnce
PROPERTIES RotationIsNotLost RevokedCredentialIsSettled
CHECK_DEADLOCK FALSE
