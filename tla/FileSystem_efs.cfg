\* Two requests of every kind, with every fault but a check that gets no answer:
\* creation and deletion of a share and writes of the configuration go alone.
CONSTANTS
  r1 = r1  r2 = r2  r3 = r3
  FileSystems = {"new", "efs", "copy", "old"}
  Old = {"old"}
  OpenStack = {"old"}
  Existing = {"efs", "copy", "old"}
  Copies = {"copy"}
  Share <- FirstShares
  Sizes = {1, 2}
  Shares = {1, 2, 3, 4, 5}
  NoShare = 0
  Requests = {r1, r2}
  Alone = {"mount", "drop", "resize", "compliance"}
  Faults = {"dispatch", "remote", "wait"}
SPECIFICATION FairSpec
INVARIANTS TypeOK NoOrphanShare DirectionFits ComplianceAgrees
PROPERTIES ReplicaUntouched SettlesAgain
CHECK_DEADLOCK FALSE
