\* Two packages, two workers: up to two edits between and during two passes, one
\* failure, crash, damaged file or forced pass.
CONSTANTS
  p1 = p1  p2 = p2  a = a  b = b  c = c  w1 = w1  w2 = w2
  Packages = {p1, p2}
  Texts = {a, b, c}
  EmbeddedTexts = {a, b}
  Readings <- SmallReadings
  Workers = {w1, w2}
  None = None
  Bounds <- SmallBounds
SYMMETRY Symmetry
SPECIFICATION Spec
INVARIANTS TypeOK StoresAgree RowsAreOneReading WritesAreNotRefused
\* The user may stop editing and indexing.
CHECK_DEADLOCK FALSE
