\* Two branches; a file with one chunk, two equal ones, or in another module; two
\* files of one module; two extraction keys; five rowids.
CONSTANTS
  b1 = b1  b2 = b2
  Branches = {b1, b2}
  Situations <- SmallSituations
  Copies <- SmallCopies
  MaxRowid = 5
  None = None
SYMMETRY Symmetry
SPECIFICATION Spec
INVARIANTS TypeOK BranchesHoldTheirTrees NothingLeaks
PROPERTIES PinnedSurvives
