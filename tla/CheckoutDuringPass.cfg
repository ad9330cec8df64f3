\* Plain serve, one checkout, which may fall inside the startup pass.
CONSTANTS
  main = main  dev = dev
  Branches = {main, dev}
  Main = main
  Tracked = {main, dev}
  None = None
  NonGit = NonGit
  Setups <- OneCheckout
SPECIFICATION Spec
INVARIANTS TreeIsServed
