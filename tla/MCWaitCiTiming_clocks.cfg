\* How long the script waits and what its timeout and hung mean, with a push,
\* a call that fails and a merge that is tried again.
SPECIFICATION FairTimingSpec
CONSTANTS
  Name <- Names
  App = {"actions"}
  Contexts <- Gates
  GateApp = "actions"
  AnyApp = FALSE
  Allowed = {}
  Everyone = "everyone"
  MinChecks = 1
  SuiteCap = 9
  RunListCap = 9
  Sha = {"A", "B"}
  NoSha = "none"
  WantSha = "none"
  NewestFirst = TRUE
  PageSize = 9
  Reported <- GateRuns
  Endings = {"success"}
  OthersMerge = FALSE
  MaxId = 2
  MaxSuites = 1
  MaxPushes = 1
  MaxFaults = 1
  WithPr = TRUE
  OnPush = "reset"
  Timeout = 5
  HungAfter = 3
  Interval = 1
  Merge = TRUE
  RequireProtection = FALSE
  MergeRetries = 1
  MergeRetryDelay = 10
  MaxRunPages = 1
INVARIANTS
  WaitIsBounded
  HungIsAboutThePin
  QuietGreenIsNotMissed
  HungMeansNothingChanged
PROPERTIES
  EveryStepIsProgress
  Terminates
CHECK_DEADLOCK FALSE
