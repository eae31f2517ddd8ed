\* Each of the programs that do not interact: every way a job can come to the
\* secrets and every request; two runs that release files for one tag;
\* Dockerfiles, locks, registers and wikis with every defect of a small set;
\* edits, failures and runs again in between.
SPECIFICATION ToolsSpec
CONSTANTS
  r1 = r1
  r2 = r2
  Run <- Runs
  File = {"deb"}
  Sums = "SHA256SUMS"
  Sign = TRUE
  Attest = TRUE
  FileSets <- OnlyDeb
  MaxBuilds = 2
  MaxBreaks = 1
  Parts = {"doppler", "release", "base", "drift", "locks", "register", "wiki"}
  Name = {"A", "B", "LABEL"}
  Label = {"LABEL"}
  Uses <- AnyUse
  BaseJobs <- SomeBaseJobs
  Vuln = {"a", "b", "c"}
  DriftJobs <- SomeDriftJobs
  Tools <- ToolList
  Carrier <- InWorkflow
  Oldest <- OldestOf
  Newest = 12
  Workflows <- InWorkflows
  Wheels <- WheelsOf
  MaxChanges = 2
  MaxRuns = 3
  Ids <- IdList
  NoDate = NoDate
  Dates <- SomeDates
  Threshold = 21
  Period = 7
  LastDay = 17
  MaxIssues = 4
  MaxRenewals = 1
  MaxFailures = 1
  MaxReruns = 1
  Sources <- SomeSources
  Histories <- SomeHistories
  OutPages = {"Old"}
SYMMETRY EitherRun
INVARIANTS
  TypeOK
  SecretsNeedTrust
  MaskedByThen
  ExactlyWhatWasAsked
  ToolsTypeOK
  OnlyVouchedFor
  SuccessIsComplete
  NoImageIsHidden
  EveryDriftIsNamed
  ZeroMeansInOrder
  WarnedBeforeFailing
  OneIssuePerEntry
  WrittenWikiIsSound
CHECK_DEADLOCK FALSE
