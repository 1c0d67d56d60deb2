SPECIFICATION AnySpec
CONSTANTS
  MaxTags = 4
  MaxPath = 3
  MaxElements = 6
  Parts = {"json", "lists", "url", "sample", "items", "select", "links", "check", "page", "records"}
  NoValue = NoValue
  Field = {f, g}
  Absent = Absent
  Null = Null
  Value = {v1, v2, Null}
  String = {a, b, c}
  Object = {}
  MaxLen = 3
  Hole = Hole
  MaxTemplate = 4
  Item = {i1, i2, i3}
  Annotation = {x1, x2}
  NoItem = NoItem
INVARIANTS
  MergesKeepBothSides
  StartUrlsAreKept
  SamplesKeepTheirNesting
  ItemsAreExportedWhole
  LinksAreFoundOnce
  SamplesExtractAsShown
  NotesAreInThePage
  AnnotationsAreInTheirContainers
  MigratedSamplesAreSound
  RecordsAreFoundOnce
CHECK_DEADLOCK FALSE
