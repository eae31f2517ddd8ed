\* A poll whose call fails between the two polls that settle.
SPECIFICATION TimingSpec
CONSTANTS
  Name <- Names
  App = {"actions"}
  Contexts <- Gates
  GateApp = "actions"
  AnyApp = FALSE
  Allowed = {}
  Everyone = "everyone"
  MinChecks = 1
  SuiteCap = 9
  RunListCap = 9
  Sha = {"A"}
  NoSha = "none"
  WantSha = "none"
  NewestFirst = TRUE
  PageSize = 9
  Reported <- GateRuns
  Endings = {"success"}
  OthersMerge = FALSE
  MaxId = 2
  MaxSuites = 1
  MaxPushes = 0
  MaxFaults = 1
  WithPr = TRUE
  OnPush = "abort"
  Timeout = 4
  HungAfter = 4
  Interval = 1
  Merge = FALSE
  RequireProtection = FALSE
  MergeRetries = 0
  MergeRetryDelay = 0
  MaxRunPages = 1
INVARIANTS
  SettledByConsecutivePolls
CHECK_DEADLOCK FALSE
