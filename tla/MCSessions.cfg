SPECIFICATION SessionsSpec
CONSTANTS
  u1 = u1
  u2 = u2
  s1 = s1
  s2 = s2
  s3 = s3
  User = {u1, u2}
  Master = Master
  MaxCommits = 4
  Session = {s1, s2, s3}
  Owner <- TwoTabs
  Ferry = {}
  Kinds = {"edit", "publish", "reset", "rollback"}
  MaxAtRollback = 3
  MaxLoose = 2
SYMMETRY Tabs
CONSTRAINTS RollbacksComeEarly LooseComeEarly
INVARIANTS
  TypeOK
  
PROPERTIES
  ActsAtomically
