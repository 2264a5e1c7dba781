\* Every operation, option and fault, and every operation ends: two requests on
\* an old instance without celery tasks and a new one with them.
CONSTANTS
  i1 = i1  i2 = i2  r1 = r1  r2 = r2  r3 = r3
  Instances = {i1, i2}
  Requests = {r1, r2}
  Async = {i2}
  Existing = {i1}
  Operations = {"add", "import", "update", "patch", "action", "delete"}
  Options = {"force", "no_propagate", "given", "override"}
  Faults = {"insert", "hook", "prelude", "tags", "dispatch", "check", "remote", "lost_reply", "soft_delete"}
SPECIFICATION FairSpec
INVARIANTS TypeOK NoUnownedTransit
PROPERTIES DeletionIsFinal TransitEnds ImplementsLifecycle
CHECK_DEADLOCK FALSE
