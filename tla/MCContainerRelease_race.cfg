\* Two pushes to the default branch, shortly after each other.
SPECIFICATION Spec
CONSTANTS
  r1 = r1
  r2 = r2
  Run <- Runs
  Platform = {"amd", "arm"}
  Commit = {"c1", "c2"}
  Pinned = {"c1", "c2"}
  Starts <- TwoPushes
  Passes <- AllPass
  MaxBase = 0
  MaxBreaks = 0
  MaxReruns = 1
INVARIANTS
  SignsTheIndexItMade
CHECK_DEADLOCK FALSE
