SPECIFICATION Spec
CONSTANTS
  Project = {p1}
  Spider = {s1, s2}
  Page = {a, b}
  Blank = Blank
  None = None
  MaxVersion = 1
INVARIANT LatestAnnotationsAreUsed
CHECK_DEADLOCK FALSE
