\* Polling a commit whose list changes between pages, reads and polls, and
\* hides the runs of its older suites.
SPECIFICATION ObservedSpec
CONSTANTS
  Name <- Names
  App = {"actions"}
  Contexts <- Gates
  GateApp = "actions"
  AnyApp = FALSE
  Allowed = {}
  Everyone = "everyone"
  MinChecks = 1
  SuiteCap = 2
  RunListCap = 9
  Sha = {"A"}
  NoSha = "none"
  WantSha = "A"
  NewestFirst = TRUE
  PageSize = 1
  Reported <- PlainRuns
  Endings = {"success", "bad"}
  OthersMerge = FALSE
  MaxId = 3
  MaxSuites = 3
  MaxPushes = 0
  MaxFaults = 0
  WithPr = FALSE
  OnPush = "abort"
  Timeout = 1
  HungAfter = 2
  Interval = 1
  Merge = FALSE
  RequireProtection = FALSE
  MergeRetries = 0
  MergeRetryDelay = 0
  MaxRunPages = 2
INVARIANTS
  TypeOK
  GreenIsReal
  SettledAcrossPolls
CHECK_DEADLOCK FALSE
