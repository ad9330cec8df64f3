\* Three processes, one error of the environment, two crashes.
CONSTANTS
  p1 = p1  p2 = p2  p3 = p3
  Processes = {p1, p2, p3}
  Situations <- SmallSituations
  Before = Before
  Failures = 1
  Crashes = 2
  None = None
SYMMETRY Symmetry
SPECIFICATION Spec
INVARIANTS TypeOK OpenBundlesAreWhole
PROPERTIES RowsSurviveOpens
