SPECIFICATION Spec
CONSTANTS
  r1 = r1
  nobody = nobody
  Runs = {r1}
  Nobody = nobody
  Budget <- CancelBudget
PROPERTIES CancelledIsFinal
CHECK_DEADLOCK FALSE
