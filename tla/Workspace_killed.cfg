SPECIFICATION FairSpec
CONSTANTS
  Calls = {c1, c2}
  Nobody = nobody
  Budget <- Killed1
PROPERTIES KilledIsRecovered
CHECK_DEADLOCK FALSE
