\* Three requests, one at a time, with every fault.
SPECIFICATION Spec
CONSTANTS
  r1 = r1
  r2 = r2
  r3 = r3
  Services = {"compute", "vpc", "subnet"}
  Capabilities = {"base", "subnets", "lab"}
  Content <- OpenContent
  Requires <- FlatRequires
  NoService = "nothing"
  Core = {"compute"}
  AccountTypes = {"public", "private"}
  CapType <- PublicAndPrivate
  Requests = {r1, r2, r3}
  Patient = TRUE
  Dropped = {}
  Faults = {"definition", "dispatch", "create", "build", "delete", "timeout"}
SYMMETRY RequestSymmetry
INVARIANTS
  ActiveMeansServices
  ServiceHasRequirement
CHECK_DEADLOCK FALSE
PROPERTY AccountTypeWriteOnce
