SPECIFICATION Spec
CONSTANTS
  r1 = r1
  nobody = nobody
  Runs = {r1}
  Nobody = nobody
  Budget <- YieldBudget
INVARIANTS ParkedIsResumable
CHECK_DEADLOCK FALSE
