SPECIFICATION FairSpec
CONSTANTS
  u1 = u1
  u2 = u2
  s1 = s1
  s2 = s2
  s3 = s3
  User = {u1, u2}
  Master = Master
  MaxCommits = 3
  Session = {s1, s2, s3}
  Owner <- TwoTabs
  Ferry = {s2}
  Kinds = {"edit", "publish", "rollback"}
  MaxAtRollback = 3
  MaxLoose = 3
PROPERTIES
  OnlyStaleFerryLosesWork
  EveryRequestEnds
