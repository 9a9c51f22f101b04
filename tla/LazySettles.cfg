SPECIFICATION LazySpec
CONSTANTS
  ColumnName <- MCNames
  Value = {0, 1}
  SeriesVar = {}
  FrameVar = {f}
  f = f
  LazyVar = {l}
  l = l
  GroupVar = {}
  Call = {c}
  c = c
  OptionsVar = {o}
  o = o
  Options <- MCOptions
  Given <- MCRow
  NoOptions = NoOptions
  Holder <- MCHolder
  Address = {1, 2, 3, 4}
  MaxRows = 1
  MaxWidth = 1
  MaxSteps = 1
PROPERTIES
  QueriesSettle
  KeepsPlans
CHECK_DEADLOCK FALSE
