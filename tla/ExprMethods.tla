----------------------------- MODULE ExprMethods -----------------------------
(* The methods of Expr, in the order of polars/lazy/expr/index.ts. *)
LOCAL INSTANCE Methods

LOCAL Gives(native, args) == <<Own(native, args), New("Expr")>>

Operator(native) == Plain(Gives(native, <<Column("other")>>))

\* Fault: without the defaults of minPeriods and center.
RollingOptionsAsGiven == Record(Forward({"windowSize", "weights", "minPeriods", "center"}))

\* windowSize is required; minPeriods ?? windowSize, center ?? false.
RollingOptions ==
  Record([windowSize |-> Value("windowSize"), weights |-> Value("weights"),
          minPeriods |-> OrElse("minPeriods", "windowSize"), center |-> Or("center", "false")])

Rolling(native) ==
  BothIf({"windowSize"}, Gives(native, <<RollingOptions>>)) \o Both(<<Demands({"windowSize"})>>)

\* Fault: reverse is not handed on.
ReversingNever(native) == Both(Gives(native, <<Const("false")>>))

Reversing(native) == Both(Gives(native, <<Or("reverse", "false")>>))

ExprBasics ==
  Wrapping({"abs", "aggGroups", "argMax", "argMin", "argUnique", "backwardFill", "ceil",
            "count"}, "Expr")
  @@ [serialize |-> Plain(<<Own("serialize", <<Value("format")>>)>>),
      toString  |-> Plain(<<Own("toString", <<>>)>>),
      toJSON    |-> PlainIf({"key"}, <<Own("toJs", <<>>)>>)
                    \o Plain(<<Own("serialize", <<Const("json")>>)>>),
      str       |-> Plain(<<Over("ExprString")>>),
      lst       |-> Plain(<<Over("ExprList")>>),
      date      |-> Plain(<<Over("ExprDateTime")>>),
      struct    |-> Plain(<<Over("ExprStruct")>>),
      inner     |-> Plain(<<Over("JsExpr")>>),
      alias     |-> Plain(Gives("alias", <<Value("name")>>)),
      as        |-> Plain(Gives("alias", <<Value("name")>>)),
      and       |-> Operator("and"),
      argSort   |-> Reversing("argSort"),
      cast      |-> Plain(Gives("cast", <<Value("dtype"), Or("strict", "false")>>)),
      clip      |-> Both(Gives("clip", <<Value("min"), Value("max")>>))]

ExprCumulative ==
  LET extending == Both(Gives("extendConstant", <<Value("value"), Value("n")>>)) IN
  [cumCount |-> Reversing("cumcount"),
   cumMax   |-> Reversing("cummax"),
   cumMin   |-> Reversing("cummin"),
   cumProd  |-> Reversing("cumprod"),
   cumSum   |-> Reversing("cumsum"),
   diff     |-> Plain(Gives("diff", <<Value("n"), Or("nullBehavior", "ignore")>>))
                \o Options(Gives("diff", <<Value("n"), Value("nullBehavior")>>)),
   dot      |-> Operator("dot"),
   exclude  |-> Plain(Gives("exclude", <<List("columns")>>)),
   explode  |-> Plain(Gives("explode", <<>>)),
   extend   |-> extending,
   extendConstant |-> extending]

ExprFilling ==
  Wrapping({"first", "floor", "forwardFill", "isDuplicated", "isFinite", "isInfinite",
            "isFirst", "isNan", "isNotNan", "isNotNull", "isNull", "isUnique", "keepName",
            "last", "list", "lowerBound"}, "Expr")
  @@ [fillNan  |-> Plain(Gives("fillNan", <<Literal("other")>>)),
      fillNull |-> PlainIf({"strategy"}, Gives("fillNullWithStrategy", <<Value("strategy")>>))
                   \o Plain(Gives("fillNull", <<Literal("other")>>)),
      filter   |-> Plain(Gives("filter", <<Literal("predicate")>>)),
      flatten  |-> Plain(Gives("explode", <<>>)),
      hash     |-> LET keys == <<Or("k0", "0"), Or("k1", "1"), Or("k2", "2"), Or("k3", "3")>>
                   IN  Plain(Gives("hash", keys))
                       \* without k0 the object stands in for it
                       \o OptionsIf({"k0"}, Gives("hash", keys)) \o Options(<<Fails>>),
      head     |-> BothIf({"length"}, Gives("head", <<Value("length")>>)) \o Plain(<<Fails>>),
      interpolate |-> Plain(Gives("interpolate", <<Or("method", "linear")>>)),
      isIn     |-> Operator("isIn"),
      kurtosis |-> Both(Gives("kurtosis", <<Or("fisher", "true"), Or("bias", "true")>>))]

ExprReductions ==
  Wrapping({"max", "mean", "median", "min", "mode", "not", "nUnique", "reverse"}, "Expr")
  @@ [or       |-> Plain(Gives("or", <<Literal("other")>>)),
      over     |-> Plain(Gives("over", <<Exprs("by")>>)),
      pow      |-> Both(Gives("pow", <<Value("exponent")>>)),
      prefix   |-> Plain(Gives("prefix", <<Value("prefix")>>)),
      quantile |-> Plain(Gives("quantile",
                               <<Literal("quantile"), Or("interpolation", "nearest")>>)),
      rank     |-> Both(Gives("rank", <<Or("method", "average"), Or("reverse", "false")>>)),
      reinterpret |-> Both(Gives("reinterpret", <<Or("signed", "true")>>)),
      repeatBy |-> Plain(Gives("repeatBy", <<Column("by")>>))]
  @@ [m \in {"rollingMax", "rollingMean", "rollingMin", "rollingSum", "rollingStd",
             "rollingVar", "rollingMedian"} |-> Rolling(m)]

ExprSampling ==
  [rollingQuantile |->
     LET leading == <<Value("quantile"), Or("interpolation", "nearest")>>
         \* with plain arguments minPeriods and center are handed on as they are
         asGiven == Record(Forward({"windowSize", "weights", "minPeriods", "center"}))
     IN  Plain(Gives("rollingQuantile", Append(leading, asGiven)))
         \o OptionsIf({"windowSize"}, Gives("rollingQuantile", Append(leading, RollingOptions)))
         \o Options(<<Demands({"windowSize"})>>),
   rollingSkew |-> Both(Gives("rollingSkew", <<Value("windowSize"), Or("bias", "true")>>)),
   round |-> Both(Gives("round", <<Value("decimals")>>)),
   sample |->
     LET samples == <<Value("frac"), Or("withReplacement", "false"), Const("false"),
                      Value("seed")>>
         \* not the seed of the options
         again == <<This("sample", Forward({"n", "frac", "withReplacement"}))>>
     IN  OptionsIf({"n"}, again) \o OptionsIf({"frac"}, again)
         \o PlainIf({"n"}, <<NotYet>>)
         \o PlainIf({"frac"}, Gives("sampleFrac", samples))
         \o Both(<<Demands({"n", "frac"})>>),
   shift |-> Plain(Gives("shift", <<Value("periods")>>)) \o Options(Gives("shift", <<Whole>>)),
   shiftAndFill |-> Both(Gives("shiftAndFill", <<Value("periods"), Literal("fillValue")>>)),
   skew   |-> Both(Gives("skew", <<Or("bias", "true")>>)),
   \* An expression has no offset of its own: what it looks up are two nulls.
   slice  |-> PlainIf({"offsetExpr"}, LET null == Arg("", "null", "literal")
                                     IN  Gives("slice", <<null, null>>))
              \o Both(Gives("slice", <<Literal("offset"), Literal("length")>>)),
   sort   |-> Both(Gives("sortWith", <<Or("reverse", "false"), Or("nullsLast", "false")>>)),
   sortBy |-> Plain(Gives("sortBy", <<Exprs("by"), ListOr("reverse", "false")>>))
              \o Options(<<This("sortBy", Forward({"by", "reverse"}))>>)]

ExprSelecting ==
  Wrapping({"std", "sum", "upperBound", "var"}, "Expr")
  @@ [suffix    |-> Plain(Gives("suffix", <<Value("suffix")>>)),
      tail      |-> Plain(Gives("tail", <<Value("length")>>)) \o Options(Gives("tail", <<Whole>>)),
      take      |-> PlainIf({"indices"}, Gives("take", <<Literal("indices")>>))
                    \o Plain(Gives("take", <<Native("index")>>)) \o Options(<<Fails>>),
      takeEvery |-> Plain(Gives("takeEvery", <<Value("n")>>)),
      unique    |-> PlainIf({"maintainOrder"}, Gives("unique_stable", <<>>))
                    \o Options(Gives("unique_stable", <<>>)) \o Plain(Gives("unique", <<>>)),
      where     |-> Plain(<<This("filter", Forward({"predicate"}))>>)]

\* Fault: one name of an operator copied from its neighbour.
ExprOperatorsMiscopied ==
  [m \in {"add", "plus"} |-> Operator(IF m = "plus" THEN "sub" ELSE "add")]

ExprOperators ==
  [m \in {"add", "plus"} |-> Operator("add")]
  @@ [m \in {"sub", "minus"} |-> Operator("sub")]
  @@ [m \in {"div", "divideBy"} |-> Operator("div")]
  @@ [m \in {"mul", "multiplyBy"} |-> Operator("mul")]
  @@ [m \in {"rem", "modulo"} |-> Operator("rem")]
  @@ [m \in {"eq", "equals"} |-> Operator("eq")]
  @@ [m \in {"gtEq", "greaterThanEquals"} |-> Operator("gtEq")]
  @@ [m \in {"gt", "greaterThan"} |-> Operator("gt")]
  @@ [m \in {"ltEq", "lessThanEquals"} |-> Operator("ltEq")]
  @@ [m \in {"lt", "lessThan"} |-> Operator("lt")]
  @@ [m \in {"neq", "notEquals"} |-> Operator("neq")]

ExprTable ==
  ExprBasics @@ ExprCumulative @@ ExprFilling @@ ExprReductions @@ ExprSampling
  @@ ExprSelecting @@ ExprOperators
=============================================================================
