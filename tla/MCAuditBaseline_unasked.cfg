\* A workflow listing that cannot be read.
SPECIFICATION Spec
CONSTANTS
  Repo <- Repos
  Owner <- Owners
  Orgs = {"org"}
  OwnerOf <- OwnerOfRepo
  Listed <- InOrder
  Minted = {{"user", "org"}, {"org"}}
  SharedRepo = "home"
  SharedGate = "gate"
  DefaultGate = "ci"
  Gate = {"py", "sh"}
  Person = {"ann"}
  Advisory = {"CVE", "GHSA"}
  Register <- Entries
  Setting = {"pvr"}
  RepoStates <- FlawsOf
  OrgStates <- OrgKinds
  MaxRefusals = 1
INVARIANTS
  UnaskedIsNeverPass
CHECK_DEADLOCK FALSE
