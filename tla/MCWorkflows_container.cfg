\* A push to the default branch beside another one, a release or a pull request;
\* the base image moves, a platform fails on the newer one.  Or: three runs of
\* the wiki, which somebody may have to begin, and a generator that breaks once.
SPECIFICATION FairWorkflowsSpec
CONSTANTS
  r1 = r1
  r2 = r2
  Run <- Runs
  Platform = {"amd", "arm"}
  Commit = {"c1", "c2", "c3", "c4", "c5"}
  Pinned = {"c1", "c2", "c5"}
  Starts <- Mixed
  Passes <- NotOnArm
  MaxBase = 1
  MaxBreaks = 1
  MaxReruns = 1
  w1 = w1
  w2 = w2
  w3 = w3
  WikiRun <- WikiRuns
  NoRun = nobody
  Page = {"home", "side"}
  Text = {"x", "y"}
  Trees <- BrokenTrees
  Publish = TRUE
  MaxEdits = 1
  MaxFailures = 1
  MaxRetries = 1
INVARIANTS
  TypeOK
  OneCommitPerIndex
  TestedApartFromBase
  ProvenanceIsTrue
  ReleasedIsSigned
  WikiTypeOK
  WikiIsOneTree
  OnlyHandsInterfere
PROPERTIES
  SomebodyPublishes
CHECK_DEADLOCK FALSE
