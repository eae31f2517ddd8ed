\* Two FROMs, one of which names its own stage like its image.
SPECIFICATION ToolsSpec
CONSTANTS
  r1 = r1
  r2 = r2
  Run <- Runs
  File = {"deb"}
  Sums = "SHA256SUMS"
  Sign = TRUE
  Attest = TRUE
  FileSets <- OnlyDeb
  MaxBuilds = 2
  MaxBreaks = 1
  Parts = {"base"}
  Name = {"A", "B", "LABEL"}
  Label = {"LABEL"}
  Uses <- AnyUse
  BaseJobs <- SomeBaseJobs
  Vuln = {"a", "b", "c"}
  DriftJobs <- SomeDriftJobs
  Tools <- ToolList
  Carrier <- InWorkflow
  Oldest <- OldestOf
  Newest = 12
  Workflows <- InWorkflows
  Wheels <- WheelsOf
  MaxChanges = 2
  MaxRuns = 3
  Ids <- IdList
  NoDate = NoDate
  Dates <- SomeDates
  Threshold = 21
  Period = 7
  LastDay = 17
  MaxIssues = 4
  MaxRenewals = 1
  MaxFailures = 1
  MaxReruns = 1
  Sources <- SomeSources
  Histories <- SomeHistories
  OutPages = {"Old"}
INVARIANTS
  EveryBaseIsFollowed
CHECK_DEADLOCK FALSE
