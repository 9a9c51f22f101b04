---------------------------- MODULE SeriesMethods ----------------------------
(***************************************************************************)
(* The methods of Series, in the order of polars/series/index.ts.  Those   *)
(* of the numeric operators are native functions chosen by the dtype; some *)
(* are asked of an expression, over a frame of one column.                 *)
(***************************************************************************)
LOCAL INSTANCE Methods
LOCAL INSTANCE NamespaceMethods

Floats   == {"Float32", "Float64"}
Numerics == Floats \cup {"Int8", "Int16", "Int32", "Int64", "UInt8", "UInt16", "UInt32", "UInt64"}

LOCAL Wrap(native, args) == <<Own(native, args), New("Series")>>

DtypeWrap(method, args) == <<Typed("series" \o method, args), New("Series")>>

LOCAL Dispatched(method) == Plain(DtypeWrap(method, <<Value("other")>>))
LOCAL Delegated(method)  == Plain(<<This(method, Forward({"other"}))>>)

\* expr_op: col(s.name)[method](...args)
ExprOp(method) == Both(<<Fn("col", [name |-> Const("name")]), Spread(method)>> \o Queried)

SeriesBasics ==
  LET appending == <<Own("clone", <<>>), Do("append", <<Native("other")>>), New("Series")>> IN
  [m \in {"bitand", "bitor", "bitxor"} |-> Plain(Wrap(m, <<Native("other")>>))]
  @@ [m \in {"cumSum", "cumMax", "cumMin", "cumProd"} |->
        LET native == [cumSum |-> "cumsum", cumMax |-> "cummax", cumMin |-> "cummin",
                       cumProd |-> "cumprod"][m]
        IN  Plain(Wrap(native, <<Value("reverse")>>)) \o Options(Wrap(native, <<Whole>>))]
  @@ [cumCount  |-> ExprOp("cumCount"),
      toString  |-> Plain(<<Own("toString", <<>>)>>),
      serialize |-> Plain(<<Own("serialize", <<Value("format")>>)>>),
      length    |-> Plain(<<Own("len", <<>>)>>),
      str       |-> Plain(<<Over("SeriesString")>>),
      lst       |-> Plain(<<Over("SeriesList")>>),
      date      |-> Plain(<<Over("SeriesDateTime")>>),
      struct    |-> Plain(<<Over("SeriesStruct")>>),
      abs       |-> Plain(Wrap("abs", <<>>)),
      add       |-> Dispatched("Add"),
      alias     |-> Plain(<<Own("clone", <<>>), Do("rename", <<Value("name")>>), New("Series")>>),
      append    |-> Plain(<<Own("append", <<Native("other")>>)>>),
      argMax    |-> Plain(<<Own("argMax", <<>>)>>),
      argMin    |-> Plain(<<Own("argMin", <<>>)>>),
      argSort   |-> Plain(Wrap("argsort", <<Or("reverse", "false"), Const("true")>>))
                    \o Options(Wrap("argsort", <<Value("reverse"), Const("true")>>)),
      argTrue   |-> Plain(<<Over("JsDataFrame"), On("lazy", <<>>), On("select", <<Arg("", "argWhere", "exprs")>>),
                            On("collectSync", <<>>), On("column", <<Const("name")>>),
                            New("Series")>>),
      argUnique |-> Plain(Wrap("argUnique", <<>>)),
      as        |-> Plain(<<This("alias", Forward({"name"}))>>),
      cast      |-> Plain(Wrap("cast", <<Value("dtype"), Or("strict", "false")>>)),
      chunkLengths |-> Plain(<<Own("chunkLengths", <<>>)>>),
      clone     |-> Plain(Wrap("clone", <<>>)),
      concat    |-> Plain(appending)]

SeriesFilling ==
  Wrapping({"dropNulls", "explode"}, "Series")
  @@ [m \in {"extend", "extendConstant"} |->
        Plain(Wrap("extendConstant", <<Value("value"), Value("n")>>))]
  @@ [describe |->
        \* the cast series answers, its methods return what the native ones do
        PlainOf(Numerics, <<This("clone", <<>>), On("cast", [dtype |-> Const("Float64")]),
                            Do("min", <<>>), Do("max", <<>>), Do("nullCount", <<>>),
                            Do("mean", <<>>), Do("len", <<>>), Fn("DataFrame", <<>>)>>)
        \o PlainOf({"Bool"}, <<This("clone", <<>>), Do("sum", <<>>), Do("nullCount", <<>>),
                               Do("len", <<>>), Fn("DataFrame", <<>>)>>)
        \o Plain(<<Only({"Utf8"}), This("clone", <<>>), Do("nUnique", <<>>),
                   Do("nullCount", <<>>), Do("len", <<>>), Fn("DataFrame", <<>>)>>),
      diff     |-> Both(Wrap("diff", <<Or("n", "1"), Or("nullBehavior", "ignore")>>)),
      div      |-> Dispatched("Div"),
      divideBy |-> Delegated("div"),
      dot      |-> Plain(Wrap("dot", <<Native("other")>>)),
      eq       |-> Dispatched("Eq"),
      equals   |-> Delegated("eq"),
      fillNull |-> Both(Wrap("fillNull", <<Value("strategy")>>)),
      filter   |-> Plain(Wrap("filter", <<Native("predicate")>>))
                   \o Options(Wrap("filter", <<Whole>>)),    \* a Series made of the object
      get      |-> Plain(<<Typed("seriesGet", <<Value("index")>>)>>),
      getIndex |-> Plain(<<Own("getIdx", <<Value("n")>>)>>),
      gt       |-> Dispatched("Gt"),
      greaterThan |-> Delegated("gt"),
      gtEq     |-> Dispatched("GtEq"),
      greaterThanEquals |-> Delegated("gtEq"),
      hash     |-> LET keys == <<Or("k0", "0"), Or("k1", "1"), Or("k2", "2"), Or("k3", "3")>>
                   IN  Plain(Wrap("hash", keys))
                       \o OptionsIf({"k0"}, Wrap("hash", keys)) \o Options(<<Fails>>),
      hasValidity |-> Plain(<<Own("hasValidity", <<>>)>>),
      head     |-> Plain(Wrap("head", <<Or("length", "5")>>)),
      inner    |-> Plain(<<Over("JsSeries")>>),
      interpolate |-> Plain(<<Fn("col", [name |-> Const("name")]), On("interpolate", <<>>)>>
                            \o Queried)]

SeriesPredicates ==
  Wrapping({"isDuplicated", "isFirst", "isNotNull", "isNull", "isUnique", "mode", "peakMax",
            "peakMin"}, "Series")
  @@ [m \in {"isBoolean", "isDateTime", "isFloat", "isNumeric", "isUtf8"} |->
        Plain(<<Own("dtype", <<>>)>>)]
  @@ Reading({"max", "mean", "median", "min", "nChunks", "nullCount", "nUnique"})
  @@ [isFinite   |-> Plain(<<Only(Floats)>> \o Wrap("isFinite", <<>>)),
      isInfinite |-> Plain(<<Only(Floats)>> \o Wrap("isInfinite", <<>>)),
      isIn       |-> Plain(Wrap("isIn", <<Native("other")>>)),
      isNaN      |-> Plain(Wrap("isNan", <<>>)),
      isNotNaN   |-> Plain(Wrap("isNotNan", <<>>)),
      kurtosis   |-> Both(<<Own("kurtosis", <<Or("fisher", "true"), Or("bias", "true")>>)>>),
      len        |-> Plain(<<This("length", <<>>)>>),
      lt         |-> Dispatched("Lt"),
      lessThan   |-> Dispatched("Lt"),
      ltEq       |-> Dispatched("LtEq"),
      lessThanEquals |-> Dispatched("LtEq"),
      limit      |-> Plain(Wrap("limit", <<Or("length", "10")>>)),
      minus      |-> Dispatched("Sub"),
      mul        |-> Dispatched("Mul"),
      neq        |-> Dispatched("Neq"),
      notEquals  |-> Delegated("neq"),
      plus       |-> Dispatched("Add")]

SeriesRolling ==
  LET renaming == PlainIf({"inPlace"}, <<Own("rename", <<Value("name")>>)>>)
                  \o OptionsIf({"inPlace"}, <<Own("rename", <<Value("name")>>)>>)
                  \o Both(<<This("alias", Forward({"name"}))>>)
  IN
  [m \in {"rollingMax", "rollingMean", "rollingMin", "rollingSum", "rollingStd", "rollingVar",
          "rollingMedian", "rollingQuantile", "rollingSkew", "clip"} |-> ExprOp(m)]
  @@ [quantile |-> Plain(<<Own("quantile", <<Value("quantile"), Or("interpolation", "nearest")>>)>>),
      rank     |-> Plain(Wrap("rank", <<Or("method", "average"), Const("false")>>)),
      rechunk  |-> Plain(Wrap("rechunk", <<Or("inPlace", "false")>>)),
      reinterpret |-> Plain(<<Only({"UInt64", "Int64"})>>
                            \o Wrap("reinterpret", <<Or("signed", "true")>>)),
      rem      |-> Dispatched("Rem"),
      modulo   |-> Delegated("rem"),
      rename   |-> renaming,
      floor    |-> Plain(Wrap("floor", <<>>)),
      ceil     |-> Plain(Wrap("ceil", <<>>)),
      round    |-> Both(<<Only(Numerics)>> \o Wrap("round", <<Value("decimals")>>)),
      \* what is given is made a Series, the value as long as the indices
      setAtIdx |-> Plain(<<Own("setAtIdx", <<Native("indices"), Native("value")>>)>>),
      set      |-> Plain(DtypeWrap("SetWithMask", <<Native("filter"), Value("value")>>))]

SeriesSampling ==
  LET samples(native, size, replace) ==
        Wrap(native, <<size, replace, Const("false"), Value("seed")>>)
      replacing == Or("withReplacement", "false")
      again == <<This("sample", Forward({"n", "frac", "withReplacement"}))>>   \* not the seed
  IN
  [sample |-> OptionsIf({"n"}, again) \o OptionsIf({"frac"}, again)
              \o PlainIf({"n"}, samples("sampleN", Value("n"), replacing))
              \o PlainIf({"frac"}, samples("sampleFrac", Value("frac"), replacing))
              \o PlainIf({"withReplacement"}, <<Demands({"n", "frac"})>>)
              \o PlainIf({"seed"}, <<Demands({"n", "frac"})>>)
              \o Plain(samples("sampleN", Const("1"), Const("false"))),
   seriesEqual |-> Plain(<<Own("seriesEqual", <<Native("other"), Or("nullEqual", "true"),
                                                Or("strict", "false")>>)>>),
   shift        |-> Plain(Wrap("shift", <<Or("periods", "1")>>)),
   shiftAndFill |-> ExprOp("shiftAndFill"),
   shrinkToFit  |-> PlainIf({"inPlace"}, <<Own("shrinkToFit", <<>>)>>)
                    \o Plain(<<This("clone", <<>>), On("shrinkToFit", <<>>)>>),
   skew  |-> Plain(<<Own("skew", <<Or("bias", "true")>>)>>),
   slice |-> Plain(Wrap("slice", <<Value("offset"), Value("length")>>)),
   sort  |-> Both(Wrap("sort", <<Or("reverse", "false")>>)),
   sub   |-> Dispatched("Sub"),
   sum   |-> Plain(<<Own("sum", <<>>)>>)]

SeriesConverting ==
  Reading({"toArray", "toBinary"})
  @@ [tail      |-> Plain(Wrap("tail", <<Or("length", "5")>>)),
      take      |-> Plain(Wrap("take", <<Value("indices")>>)),
      takeEvery |-> Plain(Wrap("takeEvery", <<Value("n")>>)),
      multiplyBy |-> Delegated("mul"),
      \* of a series without nulls
      toTypedArray |-> Plain(<<Own("hasValidity", <<>>), Own("toTypedArray", <<>>)>>),
      toFrame   |-> Plain(<<Over("DataFrame")>>),
      toJSON    |-> PlainIf({"key"}, <<Own("toJs", <<>>)>>)
                    \o Plain(<<Own("serialize", <<Const("json")>>)>>),
      toObject  |-> Plain(<<Own("toJs", <<>>)>>),
      unique    |-> PlainIf({"maintainOrder"}, Wrap("uniqueStable", <<>>))
                    \o Options(Wrap("uniqueStable", <<>>)) \o Plain(Wrap("unique", <<>>)),
      valueCounts |-> Plain(<<>>),
      values    |-> Plain(<<Own("len", <<>>), Own("getIdx", <<Const("start")>>)>>),
      zipWith   |-> Plain(Wrap("zipWith", <<Native("mask"), Native("other")>>))]

SeriesTable ==
  SeriesBasics @@ SeriesFilling @@ SeriesPredicates @@ SeriesRolling @@ SeriesSampling
  @@ SeriesConverting
=============================================================================
