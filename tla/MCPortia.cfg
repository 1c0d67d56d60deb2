SPECIFICATION Spec
CONSTANTS
  Schema = {s1, s2, s3}
  Field = {f1, f2}
  Sample = {x1, x2}
  Item = {i1, i2, i3}
  Annotation = {a1, a2}
  Name = {n1, n2}
  Commits = FALSE
  Orders = {"annotations", "schema"}
SYMMETRY Symmetry
INVARIANTS
  ReferencesHold
  AutoCreatedHasOneUser
  OneDefaultSchema
PROPERTIES
  SchemaChangeKeepsNames
