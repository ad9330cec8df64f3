\* Two tracked branches, under --watch and under plain serve, with fair tasks and
\* timers: the situations of SmallSetups.
CONSTANTS
  main = main  dev = dev
  Branches = {main, dev}
  Main = main
  Tracked = {main, dev}
  None = None
  NonGit = NonGit
  Setups <- SmallSetups
SPECIFICATION FairSpec
INVARIANTS TypeOK HeadIsServed EditsAreServed BranchRowsAreCurrent PassServesWhatItRead OneServedCheckout
PROPERTIES EventuallyServed
