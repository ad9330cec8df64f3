\* Two branches, two moves, an unreadable upstream, a failed check; fair tasks.
CONSTANTS
  b1 = b1  b2 = b2
  Branches = {b1, b2}
  MovesBeforeBaseline = FALSE
  None = None
  Bounds <- SignalBounds
SPECIFICATION FairSpec
INVARIANTS TypeOK BoardIsCurrent
PROPERTIES SignalNeverGoesBack EveryMoveIsShown
