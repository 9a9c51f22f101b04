------------------------------ MODULE Interfaces ------------------------------
(* The interfaces of the package: what each declares, and what implements it. *)
EXTENDS Methods
LOCAL INSTANCE Declarations
LOCAL INSTANCE ObjectDeclarations
LOCAL INSTANCE ExprMethods
LOCAL INSTANCE NamespaceMethods
LOCAL INSTANCE SeriesMethods
LOCAL INSTANCE FrameMethods
LOCAL INSTANCE LazyMethods
LOCAL INSTANCE FunctionMethods
LOCAL INSTANCE IoMethods

Declared ==
  [Expr |-> ExprDeclared, ExprString |-> Strings, ExprList |-> Lists,
   ExprDateTime |-> DateTrait, ExprStruct |-> ExprStructs,
   Series |-> SeriesDeclared, SeriesString |-> Strings, SeriesList |-> Lists,
   SeriesDateTime |-> DateTrait, SeriesStruct |-> SeriesStructs,
   DataFrame |-> FrameDeclared, LazyDataFrame |-> LazyDeclared,
   LazyGroupBy |-> LazyGroupByDeclared, GroupBy |-> GroupByDeclared,
   pl |-> OfColumns @@ ColumnsDeclared @@ FunctionsDeclared @@ FunctionsRestDeclared
          @@ StructsDeclared @@ FrameFunctionsDeclared @@ WhenDeclared @@ ReadersDeclared
          @@ BinaryReadersDeclared]

Implemented ==
  [Expr |-> ExprTable, ExprString |-> ExprStringTable, ExprList |-> ExprListTable,
   ExprDateTime |-> ExprDateTimeTable, ExprStruct |-> ExprStructTable,
   Series |-> SeriesTable, SeriesString |-> SeriesStringTable, SeriesList |-> SeriesListTable,
   SeriesDateTime |-> SeriesDateTimeTable, SeriesStruct |-> SeriesStructTable,
   DataFrame |-> FrameTable, LazyDataFrame |-> LazyTable,
   LazyGroupBy |-> LazyGroupByTable, GroupBy |-> GroupByTable,
   pl |-> LazyFunctions @@ LazyFunctionsRest @@ Constructors @@ FrameFunctions @@ WhenTable
          @@ Readers]

\* The class of the native object that an object of each class wraps.
Wrapped ==
  [c \in {"Expr", "ExprString", "ExprList", "ExprDateTime", "ExprStruct"} |-> "JsExpr"]
  @@ [c \in {"Series", "SeriesString", "SeriesList", "SeriesDateTime", "SeriesStruct"} |-> "JsSeries"]
  @@ [DataFrame |-> "JsDataFrame", GroupBy |-> "JsDataFrame", LazyDataFrame |-> "JsLazyFrame",
      LazyGroupBy |-> "JsLazyGroupBy", pl |-> "pli"]
===============================================================================
