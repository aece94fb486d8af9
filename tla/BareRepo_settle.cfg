SPECIFICATION FairSpec
CONSTANTS
  Runs = {r1, r2}
  Projects = {}
  PRs = {1, 2}
  Head <- Heads
  Kind <- Kinds
  Base = "fix"
  Boot = boot
  Budget <- Faulty
  Variety = 2
PROPERTIES RunSettles
CHECK_DEADLOCK FALSE
