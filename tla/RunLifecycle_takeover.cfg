SPECIFICATION Spec
CONSTANTS
  r1 = r1
  nobody = nobody
  Runs = {r1}
  Nobody = nobody
  Budget <- TakeoverBudget
PROPERTIES TakenOverIsFinal
CHECK_DEADLOCK FALSE
