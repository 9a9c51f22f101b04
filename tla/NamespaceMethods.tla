--------------------------- MODULE NamespaceMethods ---------------------------
(***************************************************************************)
(* The str, lst, date and struct namespaces of Expr (polars/lazy/expr/) and*)
(* of Series (polars/series/).  What a Series cannot do itself it asks of  *)
(* an expression, over a frame of one column.                              *)
(***************************************************************************)
LOCAL INSTANCE Methods

LOCAL ToExpr(native, args)   == <<Own(native, args), New("Expr")>>
LOCAL ToSeries(native, args) == <<Own(native, args), New("Series")>>

\* .toFrame().select(the expression).getColumn(s.name)
Queried ==
  <<Over("Series"), On("toFrame", <<>>), On("select", [exprs |-> Arg("", "query", "column")]),
    On("getColumn", [name |-> Const("name")])>>

\* col(s.name).namespace.call(...).as(s.name)
AsQuery(namespace, call, args) ==
  <<Fn("col", [name |-> Const("name")]), On(namespace, <<>>), On(call, args),
    On("as", [name |-> Const("name")])>> \o Queried

\* A string method of the native object, under its own parameters' names.
LOCAL Texts(Wrap(_, _)) ==
  [contains      |-> Plain(Wrap("strContains", <<Value("pat")>>)),
   extract       |-> Plain(Wrap("strExtract", <<Value("pat"), Value("groupIndex")>>)),
   jsonPathMatch |-> Plain(Wrap("strJsonPathMatch", <<Value("pat")>>)),
   lengths       |-> Plain(Wrap("strLengths", <<>>)),
   replace       |-> Plain(Wrap("strReplace", <<Value("pat"), Value("val")>>)),
   replaceAll    |-> Plain(Wrap("strReplaceAll", <<Value("pat"), Value("val")>>)),
   padStart      |-> Plain(Wrap("strPadStart", <<Value("length"), Value("fillChar")>>)),
   padEnd        |-> Plain(Wrap("strPadEnd", <<Value("length"), Value("fillChar")>>)),
   zFill         |-> Plain(Wrap("strZFill", <<Value("length")>>)),
   slice         |-> Plain(Wrap("strSlice", <<Value("start"), Value("length")>>)),
   toLowerCase   |-> Plain(Wrap("strToLowercase", <<>>)),
   toUpperCase   |-> Plain(Wrap("strToUppercase", <<>>)),
   \* the options leave strict to the native default, the plain call makes it false
   decode        |-> PlainIf({"hex"}, Wrap("strHexDecode", <<Or("strict", "false")>>))
                     \o PlainIf({"base64"}, Wrap("strBase64Decode", <<Or("strict", "false")>>))
                     \o OptionsIf({"hex"}, Wrap("strHexDecode", <<Value("strict")>>))
                     \o OptionsIf({"base64"}, Wrap("strBase64Decode", <<Value("strict")>>)),
   encode        |-> PlainIf({"hex"}, Wrap("strHexEncode", <<>>))
                     \o PlainIf({"base64"}, Wrap("strBase64Encode", <<>>))]

ExprStringTable ==
  LET parsing == <<Value("fmt"), Const("false"), Const("false")>> IN
  Texts(ToExpr)
  @@ [concat |-> Plain(ToExpr("strConcat", <<Value("delimiter")>>)),
      lstrip |-> Plain(ToExpr("strLstrip", <<>>)),
      rstrip |-> Plain(ToExpr("strRstrip", <<>>)),
      strip  |-> Plain(ToExpr("strStrip", <<>>)),
      split  |-> Plain(ToExpr("strSplit", <<Value("by"), Value("inclusive")>>)),
      strptime |-> PlainIf({"date"}, ToExpr("strParseDate", parsing))
                   \o PlainIf({"datetime"}, ToExpr("strParseDatetime", parsing))]

SeriesStringTable ==
  Texts(ToSeries)
  @@ [concat |-> Plain(AsQuery("str", "concat", Forward({"delimiter"}))),
      lstrip |-> Plain(ToSeries("strReplace", <<Const("^\\s*"), Const("")>>)),
      rstrip |-> Plain(ToSeries("strReplace", <<Const("[ \\t]+$"), Const("")>>)),
      strip  |-> Plain(AsQuery("str", "strip", <<>>)),
      split  |-> Plain(AsQuery("str", "split", Forward({"by", "inclusive"}))),
      strptime |-> Plain(AsQuery("str", "strptime", Forward({"date", "datetime", "fmt"})))]

\* this.slice(-n, n)
LOCAL Last == <<This("slice", [offset |-> Arg("n", "-5", "value"), length |-> Or("n", "5")])>>
LOCAL First == <<This("slice", [offset |-> Const("0"), length |-> Or("n", "5")])>>

ExprListTable ==
  [argMax   |-> Plain(ToExpr("lstArgMax", <<>>)),
   argMin   |-> Plain(ToExpr("lstArgMin", <<>>)),
   lengths  |-> Plain(ToExpr("lstLengths", <<>>)),
   max      |-> Plain(ToExpr("lstMax", <<>>)),
   mean     |-> Plain(ToExpr("lstMean", <<>>)),
   min      |-> Plain(ToExpr("lstMin", <<>>)),
   reverse  |-> Plain(ToExpr("lstReverse", <<>>)),
   sum      |-> Plain(ToExpr("lstSum", <<>>)),
   unique   |-> Plain(ToExpr("lstUnique", <<>>)),
   \* an array of neither expressions, series nor names is to become a Series
   concat   |-> PlainIf({"values"}, <<Pli("Series", <<Value("values")>>),
                                      This("concat", [other |-> Const("series")])>>)
                \o Plain(<<Fn("concatList",
                     [others |-> Record([self |-> Const("this"), others |-> OrElse("other", "others")])])>>),
   contains |-> Plain(<<NotYet>>),
   diff     |-> Plain(ToExpr("lstDiff", <<Or("n", "1"), Or("nullBehavior", "ignore")>>)),
   get      |-> Plain(ToExpr("lstGet", <<Literal("index")>>)),
   head     |-> Plain(First),
   tail     |-> Plain(Last),
   eval     |-> Plain(ToExpr("lstEval", <<Native("expr"), Or("parallel", "true")>>)),
   first    |-> Plain(<<This("get", [index |-> Const("0")])>>),
   join     |-> Plain(ToExpr("lstJoin", <<Or("separator", ",")>>)),
   last     |-> Plain(<<This("get", [index |-> Const("-1")])>>),
   shift    |-> Plain(ToExpr("lstShift", <<Value("periods")>>)),
   slice    |-> Plain(ToExpr("lstSlice", <<Value("offset"), Value("length")>>)),
   sort     |-> Both(ToExpr("lstSort", <<Or("reverse", "false")>>))]

SeriesListTable ==
  LET asked(call, args) == Plain(AsQuery("lst", call, args)) IN
  [m \in {"argMax", "argMin", "lengths", "max", "mean", "min", "reverse", "sum", "unique"} |->
     asked(m, <<>>)]
  @@ [concat   |-> asked("concat", Forward({"other", "others", "values"})),
      contains |-> asked("contains", Forward({"item"})),
      diff     |-> asked("diff", Forward({"n", "nullBehavior"})),
      get      |-> asked("get", Forward({"index"})),
      eval     |-> asked("eval", Forward({"expr", "parallel"})),
      first    |-> asked("get", [index |-> Const("0")]),
      head     |-> Plain(First),
      tail     |-> Plain(Last),
      join     |-> asked("join", [separator |-> Or("separator", ",")]),
      last     |-> asked("get", [index |-> Const("-1")]),
      shift    |-> asked("shift", Forward({"periods"})),
      slice    |-> asked("slice", Forward({"offset", "length"})),
      sort     |-> Both(AsQuery("lst", "sort", [reverse |-> Or("reverse", "false")]))]

LOCAL DateParts == {"day", "hour", "minute", "month", "nanosecond", "ordinalDay", "second",
                    "timestamp", "week", "weekday", "year"}

ExprDateTimeTable ==
  Wrapping(DateParts, "Expr") @@ [strftime |-> Plain(ToExpr("strftime", <<Value("fmt")>>))]

SeriesDateTimeTable ==
  Wrapping(DateParts, "Series") @@ [strftime |-> Plain(ToSeries("strftime", <<Value("fmt")>>))]

ExprStructTable ==
  [field        |-> Plain(ToExpr("structFieldByName", <<Value("name")>>)),
   renameFields |-> Plain(ToExpr("structRenameFields", <<List("names")>>))]

\* DataFrame({}).select(_Expr(pli.lit(_s).native(...))).toSeries()
LOCAL Selected(native, args) ==
  <<Pli("lit", <<Const("series")>>), On(native, args), Fn("DataFrame", <<>>),
    On("select", [exprs |-> Arg("", "query", "column")]), On("toSeries", <<>>)>>

SeriesStructTable ==
  [fields       |-> Plain(<<Own("structFields", <<>>)>>),
   toFrame      |-> Plain(<<Own("structToFrame", <<>>), New("DataFrame")>>),
   field        |-> Plain(Selected("structFieldByName", <<Value("name")>>)),
   renameFields |-> Plain(Selected("structRenameFields", <<List("names")>>))]
=============================================================================
