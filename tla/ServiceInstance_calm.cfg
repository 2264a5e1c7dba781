\* Nobody forces or stops a delete, and the post hooks and the resource checks
\* answer: three requests without actions race on one new instance with celery tasks.
CONSTANTS
  i1 = i1  i2 = i2  r1 = r1  r2 = r2  r3 = r3
  Instances = {i1}
  Requests = {r1, r2, r3}
  Async = {i1}
  Existing = {}
  Operations = {"add", "import", "update", "patch", "delete"}
  Options = {}
  Faults = {"prelude", "tags", "dispatch", "remote"}
SPECIFICATION Spec
SYMMETRY RequestSymmetry
INVARIANTS NoOrphanResource PurgeLosesNothing ActiveIsConfigured
CHECK_DEADLOCK FALSE
