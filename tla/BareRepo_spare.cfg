SPECIFICATION Spec
CONSTANTS
  Runs = {r1, r2}
  Projects = {j1}
  PRs = {1, 2, 3}
  Head <- Heads
  Kind <- Kinds
  Base = "fix"
  Boot = boot
  Budget <- Concurrent
  Variety = 2
INVARIANTS CleanupSparesCheckouts
CHECK_DEADLOCK FALSE
