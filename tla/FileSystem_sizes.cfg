\* One request at a time; the resource service may refuse.
CONSTANTS
  r1 = r1  r2 = r2  r3 = r3
  FileSystems = {"efs"}
  Old = {}
  OpenStack = {}
  Existing = {"efs"}
  Copies = {}
  Share <- FirstShares
  Sizes = {1, 2}
  Shares = {3, 4, 5}
  NoShare = 0
  Requests = {r1, r2}
  Alone = {"mount", "unmount", "resize", "touch", "grant", "manage", "compliance", "drop", "delete"}
  Faults = {"remote"}
SPECIFICATION Spec
INVARIANT SizeAgrees
CHECK_DEADLOCK FALSE
