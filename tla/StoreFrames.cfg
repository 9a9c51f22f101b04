SPECIFICATION Spec
CONSTANTS
  ColumnName <- MCColumnName
  Value = {0}
  SeriesVar = {s}
  s = s
  FrameVar = {f, g}
  f = f
  g = g
  Holder = {}
  Address = {1, 2, 3, 4, 5, 6, 7}
  MaxRows = 2
  MaxWidth = 2
VIEW View
INVARIANTS
  TypeOK
  FramesWellFormed
PROPERTIES
  KeepsValues
CHECK_DEADLOCK FALSE
