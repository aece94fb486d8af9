SPECIFICATION FairSpec
CONSTANTS
  a = a
  b = b
  Values = {a, b}
  Requests = {1, 2}
  Goroutines = {1, 2}
  Depth = 1
  Variety = 2
  Budget <- ChatBudget
INVARIANTS OneAgent CancelOfRunning DeltaKeptWithoutLapse BaselineIsKnown RunningIsWorkedOn
PROPERTIES RequestEnds ImplementsChat
CHECK_DEADLOCK FALSE
