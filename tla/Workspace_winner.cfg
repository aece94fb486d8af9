SPECIFICATION FairSpec
CONSTANTS
  Calls = {c1, c2}
  Nobody = nobody
  Budget <- Killed1
INVARIANTS OneCreator
CHECK_DEADLOCK FALSE
