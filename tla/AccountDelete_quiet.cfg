\* Two deletions of an account nobody adds to meanwhile, with every fault.
CONSTANTS
  r1 = r1  r2 = r2
  Services = {"vpc", "subnet", "image"}
  Parent <- Tree
  NoService = "nothing"
  Name <- OwnNames
  Guarded = {"image"}
  Tags = {"tag"}
  Requests = {r1, r2}
  Quiet = TRUE
  Faults = {"link", "build", "dispatch", "resource", "tag", "role"}
SPECIFICATION Spec
SYMMETRY RequestSymmetry
INVARIANTS TypeOK NothingOutlives NoTagOutlives
PROPERTIES ChildrenFirst InactiveTakesNoService
CHECK_DEADLOCK FALSE
