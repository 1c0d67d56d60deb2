SPECIFICATION SpecPublished
CONSTANTS
  User = {u1, u2}
  JsonPath = {p}
  RawPath = {}
  RawValue = {}
  Field = {f, g}
  Value = {v1, v2}
  Absent = Absent
  Null = Null
  NoFile = NoFile
  Tag = {}
  EditKinds = {"set", "delete"}
  Forces = {FALSE}
  ResolveFirst = TRUE
  MaxCommits = 6
SYMMETRY Symmetry
INVARIANTS
  MergeBaseIsForkPoint
  MasterHasNoMarkers
PROPERTIES
  PublishMergesJson
  FailedPublishKeepsBoth
