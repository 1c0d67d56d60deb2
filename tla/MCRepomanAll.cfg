SPECIFICATION Spec
CONSTANTS
  User = {u1, u2}
  JsonPath = {p, q}
  RawPath = {r}
  RawValue = {h}
  Field = {f}
  Value = {v1}
  Absent = Absent
  Null = Null
  NoFile = NoFile
  Tag = {t}
  EditKinds = {"set", "delete", "move"}
  Forces = {TRUE, FALSE}
  ResolveFirst = FALSE
  MaxCommits = 5
SYMMETRY Symmetry
INVARIANTS
  TypeOK
PROPERTIES
  MasterHistoryGrows
