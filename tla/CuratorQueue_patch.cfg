SPECIFICATION Spec
CONSTANTS
  a = a
  b = b
  Values = {a, b}
  Requests = {1, 2}
  Goroutines = {1, 2}
  Depth = 1
  Variety = 2
  Budget <- PatchBudget
INVARIANTS DeltaKept
CHECK_DEADLOCK FALSE
