\* Three repositories of two owners, each with a flaw or none.
SPECIFICATION Spec
CONSTANTS
  Repo <- Repos
  Owner <- Owners
  Orgs = {"org"}
  OwnerOf <- OwnerOfRepo
  Listed <- InOrder
  Minted = {{"user", "org"}, {"org"}}
  SharedRepo = "home"
  SharedGate = "gate"
  DefaultGate = "ci"
  Gate = {"py", "sh"}
  Person = {"ann"}
  Advisory = {"CVE", "GHSA"}
  Register <- Entries
  Setting = {"pvr"}
  RepoStates <- FlawsOf
  OrgStates <- OrgKinds
  MaxRefusals = 1
INVARIANTS
  TypeOK
  GreenAuditIsTrue
  FailIsDeserved
CHECK_DEADLOCK FALSE
