--------------------------- MODULE FunctionMethods ---------------------------
(***************************************************************************)
(* The functions of the module itself, declared and implemented in         *)
(* polars/lazy/functions.ts, polars/functions.ts, polars/lazy/whenthen.ts, *)
(* polars/io.ts and polars/groupby.ts.  A function of a column or a Series *)
(* has an argument for each.                                               *)
(***************************************************************************)
LOCAL INSTANCE Methods
LOCAL INSTANCE LazyMethods

LOCAL Gives(native, args) == <<Pli(native, args), New("Expr")>>
LOCAL Frame(native, args) == <<Pli(native, args), New("DataFrame")>>
LOCAL Lazy(native, args)  == <<Pli(native, args), New("LazyDataFrame")>>
LOCAL AnExpr(p) == Arg(p, "null", "expr")    \* exprToLitOrExpr(p, false), not its _expr

\* The method of this name, of the Series or of the expression of the column.
LOCAL OfEither(method, args) ==
  PlainIf({"series"}, <<Given("Series", "series"), On(method, args)>>)
  \o Plain(<<Fn("col", [name |-> Value("column")]), On(method, args)>>)

OfColumns ==
  LET ofColumnOrSeries == Plainly({"column"}, {}) \cup Plainly({"series"}, {}) IN
  [m \in {"first", "last", "mean", "avg", "median", "nUnique", "count"} |-> ofColumnOrSeries]
  @@ [m \in {"head", "tail"} |-> Plainly({"column"}, {"n"}) \cup Plainly({"series"}, {"n"})]
  @@ [quantile |-> Plainly({"column", "q"}, {}) \cup Plainly({"series", "q"}, {}),
      groups   |-> Plainly({"column"}, {}),
      list     |-> Plainly({"column"}, {})]

ColumnsDeclared ==
  [col |-> Plainly({"name"}, {}), cols |-> Plainly({"names"}, {}), lit |-> Plainly({"value"}, {})]

FunctionsDeclared ==
  [arange |-> ByOptions({"low", "high", "step"}, {}) \cup Plainly({"low"}, {"high", "step", "eager"}),
   all |-> Plainly({}, {}), exclude |-> Plainly({"columns"}, {}),
   argSortBy |-> Plainly({"exprs"}, {"reverse"}),
   concatList |-> Plainly({"others"}, {}),
   concatString |-> ByOptions({"exprs", "sep"}, {}) \cup Plainly({"exprs"}, {"sep"}),
   cov |-> Plainly({"a", "b"}, {})]

FunctionsRestDeclared ==
  [m \in {"pearsonCorr", "spearmanRankCorr"} |-> Plainly({"a", "b"}, {})]
  @@ [format |-> Plainly({"strings", "exprs"}, {}), select |-> Plainly({"exprs"}, {})]

StructsDeclared ==
  [struct |-> Plainly({"series"}, {}) \cup Plainly({"exprs"}, {}), element |-> Plainly({}, {})]

LazyFunctions ==
  [m \in {"first", "last"} |->
     PlainIf({"series"}, <<Given("Series", "series"), On("get", [index |-> Const("0")])>>)
     \o PlainIf({"column"}, <<Fn("col", [name |-> Value("column")]), On(m, <<>>)>>)
     \o Plain(Gives(m, <<>>))]
  @@ [col    |-> Plain(Gives("col", <<Value("name")>>)),
      cols   |-> Plain(Gives("cols", <<List("names")>>)),
      lit    |-> Plain(Gives("lit", <<Value("value")>>)),
      arange |-> Options(<<Fn("arange", Forward({"low", "high", "step", "eager"}))>>)
                 \o PlainIf({"eager"}, <<Fn("arange", Forward({"low", "high", "step"})),
                                         On("alias", [name |-> Const("arange")]),
                                         Fn("DataFrame", <<>>),
                                         On("select", [exprs |-> Arg("", "query", "column")]),
                                         On("getColumn", [name |-> Const("arange")])>>)
                 \o Plain(Gives("arange", <<AnExpr("low"), AnExpr("high"), Value("step")>>)),
      all    |-> Plain(<<Fn("col", [name |-> Const("*")])>>),
      exclude |-> Plain(<<Fn("col", [name |-> Const("*")]), On("exclude", Forward({"columns"}))>>),
      argSortBy |-> Plain(Gives("argsortBy", <<Exprs("exprs"), ListOr("reverse", "false")>>)),
      avg    |-> Plain(<<Fn("mean", Forward({"column", "series"}))>>),
      concatList |-> Plain(Gives("concatLst", <<Exprs("others")>>)),
      concatString |-> Options(<<Fn("concatString", Forward({"exprs", "sep"}))>>)
                       \o Plain(Gives("concatStr", <<Exprs("exprs"), Or("sep", ",")>>)),
      count  |-> PlainIf({"series"}, <<Given("Series", "series"), On("len", <<>>)>>)
                 \o Plain(<<Fn("col", [name |-> Value("column")]), On("count", <<>>)>>),
      cov    |-> Plain(Gives("cov", <<AnExpr("a"), AnExpr("b")>>))]

LazyFunctionsRest ==
  [element |-> Plain(<<Fn("col", [name |-> Const("")])>>),
   format |-> Plain(<<Fn("concatString",
                      [exprs |-> Record([strings |-> Literal("strings"), exprs |-> Column("exprs")]),
                       sep |-> Const("")])>>),
   groups |-> Plain(<<Fn("col", [name |-> Value("column")]), On("aggGroups", <<>>)>>),
   head   |-> OfEither("head", [length |-> Value("n")]),
   mean   |-> OfEither("mean", <<>>),
   median |-> OfEither("median", <<>>),
   nUnique |-> OfEither("nUnique", <<>>),
   pearsonCorr |-> Plain(Gives("pearsonCorr", <<AnExpr("a"), AnExpr("b")>>)),
   quantile |-> OfEither("quantile", [quantile |-> Value("q")]),
   select |-> Plain(<<Fn("DataFrame", <<>>), On("select", Forward({"exprs"}))>>),
   spearmanRankCorr |-> Plain(Gives("spearmanRankCorr",
                                    <<AnExpr("a"), AnExpr("b"), Value(""), Const("false")>>)),
   tail   |-> OfEither("tail", [length |-> Value("n")]),
   list   |-> Plain(<<Fn("col", [name |-> Value("column")]), On("list", <<>>)>>),
   struct |-> PlainIf({"series"}, Gives("asStruct", <<Arg("series", Undefined, "exprs")>>)
                                  \o <<Fn("select", [exprs |-> Arg("", "query", "column")]),
                                       On("toSeries", <<>>)>>)
              \o Plain(Gives("asStruct", <<Exprs("exprs")>>))]
\* Called within other methods: constructors, and functions given by the caller.
Constructors ==
  [DataFrame |-> Plain(<<Over("DataFrame")>>),
   GroupBy   |-> Plain(<<Given("GroupBy", "by")>>),
   call      |-> Plain(<<Given("value", "f")>>),
   RollingGroupBy |-> RollingGroupBy,
   DynamicGroupBy |-> DynamicGroupBy]
-----------------------------------------------------------------------------
FrameFunctionsDeclared ==
  [repeat |-> Plainly({"value", "n"}, {"name"}),
   concat |-> Plainly({"items"}, {"rechunk"}) \cup Plainly({"items", "horizontal"}, {"rechunk"})
              \cup Plainly({"items", "vertical"}, {"rechunk"})
              \cup Plainly({"series"}, {"rechunk"})]

\* Given options replace the default as a whole: without a how of their own,
\* frames are not concatenated vertically.
FrameFunctions ==
  [repeat |-> Plain(<<Pli("repeat", <<Or("name", ""), Value("value"), Value("n"), Const("dtype")>>),
                      New("Series")>>),
   concat |-> LET stacked == <<Given("DataFrame", "items"), On("vstack", [df |-> Const("rest")])>>
                  joined == Frame("horizontalConcat", <<Arg("items", Undefined, "natives")>>)
                  series == <<Given("Series", "series"), On("concat", [other |-> Const("rest")])>>
                  rechunking == <<On("rechunk", <<>>)>>
              IN  PlainIf({"series", "rechunk"}, series \o rechunking)
                  \o PlainIf({"series"}, series \o rechunking)
                  \o PlainIf({"vertical", "rechunk"}, stacked \o rechunking)
                  \o PlainIf({"vertical"}, stacked)
                  \o PlainIf({"rechunk"}, joined \o rechunking)
                  \o PlainIf({"horizontal"}, joined)
                  \o Plain(stacked \o rechunking)]

WhenDeclared ==
  [when |-> Plainly({"predicate", "then", "otherwise"}, {"whenNext"})
            \cup Plainly({"predicate", "then", "otherwise", "whenNext", "thenNext"}, {})]

\* when(..).then(..).otherwise(..), with another layer or not
WhenTable ==
  LET first == <<Pli("when", <<Native("predicate")>>), On("then", <<Native("then")>>)>>
      ending == <<On("otherwise", <<Native("otherwise")>>), New("Expr")>>
  IN  [when |-> PlainIf({"whenNext", "thenNext"},
                        first \o <<On("when", <<Native("whenNext")>>),
                                   On("then", <<Native("thenNext")>>)>> \o ending)
                \o PlainIf({"whenNext"}, first \o <<On("when", <<Native("whenNext")>>)>> \o ending)
                \o Plain(first \o ending)]
=============================================================================
