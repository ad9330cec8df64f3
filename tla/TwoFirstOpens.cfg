\* Two processes open a new bundle at once; nothing fails.
CONSTANTS
  p1 = p1  p2 = p2  p3 = p3
  Processes = {p1, p2}
  Situations <- NewBundle
  Before = Before
  Failures = 0
  Crashes = 0
  None = None
SPECIFICATION Spec
PROPERTY RowsSurviveEveryOpen
