\* Requests that do not read while another one is between its read and its
\* write: one instance is there with a data volume beside it, one is new.
CONSTANTS
  i1 = i1  i2 = i2  r1 = r1  r2 = r2  r3 = r3
  Instances = {i1, i2}
  Disks = {"root1", "root2", "data"}
  Boot <- RootDisks
  Copies = {1, 2}
  Existing = {i1}
  Types = {"small", "large"}
  Groups = {"web", "ssh"}
  FirstGroup = "web"
  Requests = {r1, r2, r3}
  Batch = 1
  Overlap = FALSE
  Faults = {"dispatch", "remote", "wait"}
SPECIFICATION Spec
SYMMETRY RequestSymmetry
INVARIANTS TypeOK KeepsGroup OneRowPerVolume AttachingFree FlavorAgrees
PROPERTY InUseIsKept
CHECK_DEADLOCK FALSE
