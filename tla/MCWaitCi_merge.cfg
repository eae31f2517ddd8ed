\* The merge: pushes, other mergers, lost answers and policy blocks.
SPECIFICATION ObservedSpec
CONSTANTS
  Name <- Names
  App = {"actions"}
  Contexts <- Gates
  GateApp = "actions"
  AnyApp = FALSE
  Allowed = {}
  Everyone = "everyone"
  MinChecks = 1
  SuiteCap = 9
  RunListCap = 9
  Sha = {"A", "B"}
  NoSha = "none"
  WantSha = "none"
  NewestFirst = TRUE
  PageSize = 9
  Reported <- GateRuns
  Endings = {"success", "bad"}
  OthersMerge = TRUE
  MaxId = 2
  MaxSuites = 1
  MaxPushes = 1
  MaxFaults = 1
  WithPr = TRUE
  OnPush = "reset"
  Timeout = 1
  HungAfter = 2
  Interval = 1
  Merge = TRUE
  RequireProtection = TRUE
  MergeRetries = 1
  MergeRetryDelay = 1
  MaxRunPages = 1
INVARIANTS
  GreenIsReal
  MergeNeedsAFreshLook
  GreenExitTellsTheTruth
PROPERTIES
  ImplementsCommitGate
CHECK_DEADLOCK FALSE
