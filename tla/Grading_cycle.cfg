SPECIFICATION FairSpec
CONSTANTS
  t = t
  u = u
  Tasks = {t, u}
  Budget <- CycleBudget
INVARIANTS ScoringIsHeld GradeIsCarried
PROPERTIES TaskIsScored GradeReachesAgent
CHECK_DEADLOCK FALSE
