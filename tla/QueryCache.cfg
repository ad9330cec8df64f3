\* Three calls of two keys, a cache of one entry that expires, one permit, every
\* cancellation; fair tasks.
CONSTANTS
  c1 = c1  c2 = c2  c3 = c3  k1 = k1  k2 = k2
  Calls = {c1, c2, c3}
  Keys = {k1, k2}
  None = None
  MaxEntries = 1
  Ttl = 1
  MaxInFlight = 1
  MaxTime = 2
SPECIFICATION FairSpec
INVARIANTS TypeOK OneComputation AnswersAreFresh
PROPERTY EveryCallEnds
CHECK_DEADLOCK FALSE
