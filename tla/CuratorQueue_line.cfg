SPECIFICATION Spec
CONSTANTS
  a = a
  b = b
  Values = {a}
  Requests = {1, 2, 3}
  Goroutines = {1, 2}
  Depth = 1
  Variety = 2
  Budget <- LineBudget
INVARIANTS TypeOK QueuedIsRead
PROPERTIES ImplementsChat
CHECK_DEADLOCK FALSE
