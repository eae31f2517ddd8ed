\* Runs of every kind and ending: forged names, foreign apps, exceptions; an
\* explicit --sha together with --on-push reset.
SPECIFICATION ObservedSpec
CONSTANTS
  Name <- Names
  App = {"actions", "other"}
  Contexts <- Gates
  GateApp = "actions"
  AnyApp = FALSE
  Allowed <- LintMayFail
  Everyone = "everyone"
  MinChecks = 2
  SuiteCap = 9
  RunListCap = 9
  Sha = {"A", "B"}
  NoSha = "none"
  WantSha = "A"
  NewestFirst = TRUE
  PageSize = 9
  Reported <- OddRuns
  Endings = {"success", "pass", "bad", "none"}
  OthersMerge = FALSE
  MaxId = 2
  MaxSuites = 1
  MaxPushes = 1
  MaxFaults = 0
  WithPr = TRUE
  OnPush = "reset"
  Timeout = 1
  HungAfter = 2
  Interval = 1
  Merge = FALSE
  RequireProtection = FALSE
  MergeRetries = 0
  MergeRetryDelay = 0
  MaxRunPages = 1
INVARIANTS
  GreenIsReal
  ExplicitShaIsNeverReplaced
CHECK_DEADLOCK FALSE
