SPECIFICATION LazySpec
CONSTANTS
  ColumnName <- MCColumnName
  Value = {0, 1}
  SeriesVar = {}
  FrameVar = {f, h}
  f = f
  h = h
  LazyVar = {l}
  l = l
  GroupVar = {g}
  g = g
  Call = {c}
  c = c
  OptionsVar = {}
  Options = {}
  Given <- MCRow
  NoOptions = NoOptions
  Holder <- MCHolder
  Address = {1, 2, 3, 4, 5, 6}
  MaxRows = 2
  MaxWidth = 1
  MaxSteps = 1
VIEW LazyView
INVARIANTS
  LazyTypeOK
PROPERTIES
  KeepsPlans
CHECK_DEADLOCK FALSE
