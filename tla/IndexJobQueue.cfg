\* Two drain loops, every kind of request, four submits; fair tasks.
CONSTANTS
  k1 = k1  k2 = k2  p1 = p1  p2 = p2  h1 = h1  h2 = h2  w1 = w1  w2 = w2
  Keys = {k1, k2}
  Paths = {p1, p2}
  Heads = {h1, h2}
  None = None
  Workers = {w1, w2}
  Requests <- MixedRequests
  MaxSubmits = 4
SPECIFICATION FairSpec
INVARIANTS TypeOK IdleIsTruthful
PROPERTIES ImplementsPassRequests EveryRequestGetsAPass WaitIdleIsReleased
CHECK_DEADLOCK FALSE
