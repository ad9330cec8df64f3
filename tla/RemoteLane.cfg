\* One tracked branch: a push, a commit, a checkout, which does not fall between
\* the read of the worktrees and the last update, a fetch, two failures, a restart.
CONSTANTS
  b1 = b1
  Branches = {b1}
  TrackRefs = {b1}
  FastForward = TRUE
  Interval = 2
  Ceiling = 3
  CheckoutsAnyTime = FALSE
  None = None
  Bounds <- LaneBounds
SPECIFICATION FairSpec
INVARIANTS TypeOK TrackedRefsAreIndexed BackoffFollowsTheOutage
PROPERTIES NoCommitIsLost EveryPushIsIndexed
