\* Two clients who do not wait, without faults.
SPECIFICATION Spec
CONSTANTS
  r1 = r1
  r2 = r2
  r3 = r3
  Services = {"compute", "vpc", "subnet"}
  Capabilities = {"base", "network"}
  Content <- OverlapContent
  Requires <- VpcRequires
  NoService = "nothing"
  Core = {"compute"}
  AccountTypes = {"public", "private"}
  CapType <- Untyped
  Requests = {r1, r2}
  Patient = FALSE
  Dropped = {}
  Faults = {}
INVARIANTS
  OverlapWithoutErrors
CHECK_DEADLOCK FALSE
