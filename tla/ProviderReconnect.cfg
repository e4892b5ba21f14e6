SPECIFICATION Spec
CONSTANTS
  w1 = w1 w2 = w2 w3 = w3 g1 = g1 g2 = g2
  Handlers = {w1, w2}
  Grants = {g1, g2}
  MaxRotations = 2
  MaxVersion = 3
  Overrun = FALSE
  None = None
SYMMETRY Symmetry
PROPERTIES OnlyCallbacksReplace
CHECK_DEADLOCK FALSE
