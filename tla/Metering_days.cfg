CONSTANTS
  c1 = c1  c2 = c2  a1 = a1  a2 = a2  s1 = s1  s2 = s2  r1 = r1  r2 = r2  d1 = d1  d2 = d2
  Containers = {c1, c2}
  Accounts = {a1, a2}
  Opened <- OpenedAt
  Expires <- ExpiresAt
  Owner <- Owners
  Report <- Reports
  Names = {"cpu", "ram"}
  FirstTypes = {"cpu"}
  Values = {0, 2}
  Surveys = {s1, s2}
  Clients = {r1, r2}
  Dailies = {d1, d2}
  Casts <- Actors
  Hours = 2
  Days = 2
  Alone = TRUE
  Faults = {"accounts", "container", "save", "finalize", "crash"}
SPECIFICATION FairSpec
INVARIANTS TypeOK KnownTyped DayIsComplete FairCharge ExposedOnce
PROPERTY SurveyIsTold
CHECK_DEADLOCK FALSE
