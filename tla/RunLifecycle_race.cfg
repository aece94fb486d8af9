SPECIFICATION FairSpec
CONSTANTS
  r1 = r1
  nobody = nobody
  Runs = {r1}
  Nobody = nobody
  Budget <- RaceBudget
INVARIANTS HandleIsLive TakenOverIsResumable WorktreeReclaimed NoPhantomRun
PROPERTIES EndedStaysEnded RunEnds
CHECK_DEADLOCK FALSE
