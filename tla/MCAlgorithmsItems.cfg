SPECIFICATION Spec
CONSTANTS
  MaxTags = 4
  MaxPath = 3
  MaxElements = 6
  Parts = {"items"}
  Field = {f, g}
  Absent = Absent
  Null = Null
  Value = {v1, v2, Null}
  String = {}
  Object = {a, b, c}
  MaxLen = 3
  Hole = Hole
  MaxTemplate = 4
  Item = {i1, i2, i3}
  Annotation = {x1, x2}
  NoItem = NoItem
INVARIANT IncompleteItemsAreDiscarded
CHECK_DEADLOCK FALSE
