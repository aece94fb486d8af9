SPECIFICATION Spec
CONSTANTS
  q1 = q1
  q2 = q2
  orch = orch
  resumer = resumer
  Requests = {q1, q2}
  Orch = orch
  Resumer = resumer
  StepCount = 2
  Variety = 2
  Budget <- RaceBudget
SYMMETRY Alike
INVARIANTS TypeOK WorktreeUnderAgent EndedIsClean EndedIsDrained
PROPERTIES StepsInOrder
CHECK_DEADLOCK FALSE
