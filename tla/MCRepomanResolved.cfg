SPECIFICATION SpecPublished
CONSTANTS
  User = {u1, u2}
  JsonPath = {p}
  RawPath = {}
  RawValue = {}
  Field = {f}
  Value = {v1, v2}
  Absent = Absent
  Null = Null
  NoFile = NoFile
  Tag = {}
  EditKinds = {"set", "delete"}
  Forces = {FALSE}
  ResolveFirst = TRUE
  MaxCommits = 9
SYMMETRY Symmetry
PROPERTIES
  ResolvedPublishSucceeds
