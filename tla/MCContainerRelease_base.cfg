\* A push to the default branch of a commit whose Dockerfile names its base by a
\* tag, and a base image that moves.
SPECIFICATION Spec
CONSTANTS
  r1 = r1
  r2 = r2
  Run <- Runs
  Platform = {"amd", "arm"}
  Commit = {"c1", "c2"}
  Pinned = {"c1"}
  Starts <- TwoPushes
  Passes <- AllPass
  MaxBase = 1
  MaxBreaks = 0
  MaxReruns = 0
INVARIANTS
  ShipsWhatWasTested
CHECK_DEADLOCK FALSE
