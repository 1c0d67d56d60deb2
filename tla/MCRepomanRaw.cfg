SPECIFICATION SpecPublished
CONSTANTS
  User = {u1, u2}
  JsonPath = {p}
  RawPath = {r}
  RawValue = {h1, h2}
  Field = {f}
  Value = {v1, v2}
  Absent = Absent
  Null = Null
  NoFile = NoFile
  Tag = {}
  EditKinds = {"set", "delete"}
  Forces = {FALSE}
  ResolveFirst = TRUE
  MaxCommits = 8
SYMMETRY Symmetry
PROPERTIES
  PublishKeepsOthersRawFiles
