SPECIFICATION FairSpec
CONSTANTS
  Calls = {c1, c2}
  Nobody = nobody
  Budget <- Disturbed
INVARIANTS CreatorHoldsRow EndedIsClean
PROPERTIES RetrySucceeds
CHECK_DEADLOCK FALSE
