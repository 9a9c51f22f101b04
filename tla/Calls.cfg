SPECIFICATION Spec
CHECK_DEADLOCK FALSE
CONSTANTS
  Classes = {"Expr", "ExprString", "ExprList", "ExprDateTime", "ExprStruct", "Series", "SeriesString", "SeriesList", "SeriesDateTime", "SeriesStruct", "DataFrame", "LazyDataFrame", "LazyGroupBy", "GroupBy", "pl"}
  Dtypes = {"Float64", "Utf8", "Bool", "Datetime", "UInt64"}
  MaxDepth = 8
INVARIANTS
  TypeOK
  DeclaredCallsReturn
  ArgumentsCount
  OptionsAreKept
  WaysAgree
