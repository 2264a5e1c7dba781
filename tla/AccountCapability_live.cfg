\* Two clients who do not wait, every fault, a capability deleted meanwhile.
SPECIFICATION FairSpec
CONSTANTS
  r1 = r1
  r2 = r2
  r3 = r3
  Services = {"compute", "vpc", "subnet"}
  Capabilities = {"base", "network"}
  Content <- OverlapContent
  Requires <- VpcRequires
  NoService = "nothing"
  Core = {"compute"}
  AccountTypes = {"public", "private"}
  CapType <- Untyped
  Requests = {r1, r2}
  Patient = FALSE
  Dropped = {"network"}
  Faults = {"definition", "dispatch", "create", "build", "delete", "timeout"}
INVARIANTS
  TypeOK
  BuildingOwned
PROPERTY
  BuildingEnds
CHECK_DEADLOCK FALSE
