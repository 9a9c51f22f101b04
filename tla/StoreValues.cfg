SPECIFICATION Spec
CONSTANTS
  ColumnName <- MCColumnName
  Value = {0, 1}
  SeriesVar = {s, t}
  s = s
  t = t
  FrameVar = {f}
  f = f
  Holder = {}
  Address = {1, 2, 3, 4, 5, 6, 7}
  MaxRows = 2
  MaxWidth = 1
VIEW View
PROPERTIES
  NoSharedWrites
  KeepsValues
CHECK_DEADLOCK FALSE
