\* A deletion asked again until it works, while clients create and delete services.
CONSTANTS
  r1 = r1  r2 = r2
  Services = {"vpc", "subnet", "image"}
  Parent <- Tree
  NoService = "nothing"
  Name <- OwnNames
  Guarded = {}
  Tags = {"tag"}
  Requests = {r1}
  Quiet = FALSE
  Faults = {"link", "build", "late"}
SPECIFICATION FairSpec
PROPERTY DeleteSucceeds
CHECK_DEADLOCK FALSE
