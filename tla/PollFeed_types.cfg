SPECIFICATION Spec
CONSTANTS
  p = p
  q = q
  Loops = {p, q}
  First = p
  Capacity = 2
  Followed = TRUE
  Budget <- FeedBudget
  Total = 3
INVARIANTS TypeOK
CHECK_DEADLOCK FALSE
