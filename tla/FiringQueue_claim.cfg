SPECIFICATION Spec
CONSTANTS
  e1 = e1
  e2 = e2
  t1 = t1
  t2 = t2
  g1 = g1
  g2 = g2
  h = h
  s = s
  d1 = d1
  sweeper = sweeper
  u1 = u1
  nobody = nobody
  Entities = {e1}
  Tasks = {t1}
  Triggers = {g1, g2}
  EntityOf <- OneEntity
  Deferred = {}
  BreakerThreshold = 1
  Handler = h
  Derivers = {s}
  Drainers = {d1}
  Sweeper = sweeper
  Users = {u1}
  Nobody = nobody
  Budget <- ClaimBudget
  MaxRuns = 6
INVARIANTS FiringOwnsItsRun
PROPERTIES UserWins
CHECK_DEADLOCK FALSE
