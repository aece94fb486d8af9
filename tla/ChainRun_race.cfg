SPECIFICATION FairSpec
CONSTANTS
  q1 = q1
  q2 = q2
  orch = orch
  resumer = resumer
  Requests = {q1, q2}
  Orch = orch
  Resumer = resumer
  StepCount = 2
  Variety = 1
  Budget <- RaceBudget
INVARIANTS WorktreeUnderAgent EndedIsClean EndedIsDrained
PROPERTIES StepsInOrder CancelEnds
CHECK_DEADLOCK FALSE
