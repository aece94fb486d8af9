SPECIFICATION Spec
CONSTANTS
  Runs = {r1, r2}
  Projects = {j1}
  PRs = {1, 2, 3}
  Head <- Heads
  Kind <- Kinds
  Base = "fix"
  Boot = boot
  Budget <- AllOnce
  Variety = 2
SYMMETRY AnyRun
INVARIANTS TypeOK
CHECK_DEADLOCK FALSE
