SPECIFICATION FairSpec
CONSTANTS
  t = t
  u = u
  Tasks = {t, u}
  Budget <- CycleBudget

PROPERTY DeferredTriggerFires
CHECK_DEADLOCK FALSE
