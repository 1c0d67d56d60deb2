SPECIFICATION Spec
CONSTANTS
  Parts = {"files", "models", "copies", "unsaved", "legacy", "git"}
  Cut = Cut
  None = None
  Closed = Closed
  Spider = {"n1", "n2"}
  SampleId = {"x1", "x2"}
  FileData = {"c1"}
  Member = {"m1", "m2", "m3", "m4"}
  Slices = FALSE
  Base = {"a"}
  MaxNumber = 2
  Schema = {"s1", "s2"}
  Project = "project"
  Field = {"f1"}
  Value = {"v1"}
  New = "new"
  OldSample = {"s1", "s2"}
  OldSchema = {"old", "gone"}
  MaxEdits = 1
  TreeId = {"x1"}
  TreeData = {"c1", "c2"}
  Template = "c2"
  MaxTreeEdits = 2
INVARIANTS
  IndexedByKey
  CopiesShareSchemas
  OldSpidersAreKept
PROPERTIES
  RequestsActAtOnce
  OwnSpidersKept
  ActsAsStore
  EditsSurvive
  ActsAsVersions
CHECK_DEADLOCK FALSE
