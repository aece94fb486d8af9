SPECIFICATION FairSpec
CONSTANTS
  p = p
  q = q
  Loops = {p, q}
  First = p
  Capacity = 2
  Followed = TRUE
  Budget <- FeedBudget
  Total = 3
INVARIANTS ClosedEntityIsQuiet SnapshotIsExplained RequestIsCarried
PROPERTIES BoardCatchesUp WithdrawalReachesBoard
CHECK_DEADLOCK FALSE
