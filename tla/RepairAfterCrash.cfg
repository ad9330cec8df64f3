\* One worker, two passes, one crash.
CONSTANTS
  p1 = p1  p2 = p2  a = a  b = b  c = c  w1 = w1  w2 = w2
  Packages = {p1, p2}
  Texts = {a, b, c}
  EmbeddedTexts = {a, b}
  Readings <- SmallReadings
  Workers = {w1}
  None = None
  Bounds <- OneCrash
SPECIFICATION Spec
INVARIANT RepairRestoresVectors
CHECK_DEADLOCK FALSE
