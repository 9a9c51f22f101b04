----------------------------- MODULE LazyMethods -----------------------------
(***************************************************************************)
(* The methods of LazyDataFrame, LazyGroupBy and the group-bys of a frame, *)
(* in the order of polars/lazy/dataframe.ts, polars/lazy/groupby.ts and    *)
(* polars/groupby.ts.                                                      *)
(***************************************************************************)
LOCAL INSTANCE Methods

LOCAL Wrap(native, args) == <<Own(native, args), New("LazyDataFrame")>>
LOCAL Unsorted == ListOr("", "none")             \* []
LOCAL NoExprs  == Arg("", "none", "exprs")

LazyCollecting ==
  LET fetched(native) == <<On(native, <<Value("numRows")>>), New("DataFrame")>>
      \* simplifyExpr and slicePushdown are what it looks for
      toggled(predicates, projections, native) ==
        <<Own("optimizationToggle",
              <<Value("typeCoercion"), predicates, projections, Value("simplifyExpr"),
                Value("stringCache"), Value("slicePushdown")>>)>> \o fetched(native)
      fetching(native) ==
        PlainIf({"noOptimization"},
                <<Writes({"predicatePushdown", "projectionPushdown"})>>
                  \o toggled(Const("false"), Const("false"), native))
        \o PlainIfAny({"typeCoercion", "predicatePushdown", "projectionPushdown",
                       "stringCache"},
                      toggled(Value("predicatePushdown"), Value("projectionPushdown"), native))
        \o Plain(<<Own(native, <<Value("numRows")>>), New("DataFrame")>>)
      collected(native) == Plain(<<Own(native, <<>>), New("DataFrame")>>)
      deduplicated(subset) == Wrap("unique", <<Or("maintainOrder", "false"), subset,
                                               Or("keep", "first")>>)
  IN
  [m \in {"columns", "describePlan", "describeOptimizedPlan"} |-> Plain(<<Own(m, <<>>)>>)]
  @@ [cache     |-> Plain(Wrap("cache", <<>>)),
      clone     |-> Plain(Wrap("clone", <<>>)),
      collectSync |-> collected("collectSync"),
      collect   |-> collected("collect"),
      drop      |-> Plain(Wrap("dropColumns", <<List("names")>>)),
      \* the arguments are handed on as they are
      distinct  |-> Plain(Wrap("unique", <<Value("maintainOrder"), Value("subset"), Value("keep")>>))
                    \o Options(Wrap("unique", <<Whole>>)),
      unique    |-> Plain(deduplicated(List("subset")))
                    \o OptionsIf({"subset"}, <<Writes({"subset"})>> \o deduplicated(List("subset")))
                    \o Options(deduplicated(List("subset"))),
      dropNulls |-> Plain(Wrap("dropNulls", <<List("columns")>>)),
      explode   |-> Plain(Wrap("explode", <<Exprs("columns")>>)),
      fetchSync |-> fetching("fetchSync"),
      fetch     |-> fetching("fetch"),
      first     |-> Plain(<<This("fetchSync", [numRows |-> Const("1")])>>),
      fillNull  |-> Plain(Wrap("fillNull", <<Literal("fillValue")>>)),
      filter    |-> Plain(Wrap("filter", <<Column("predicate")>>))]

LazyGrouping ==
  LET grouped(native, args) == <<Own(native, args), New("LazyGroupBy")>>
      offset(width) == OrElse("offset", width)                  \* minus the width
      closed == Or("closed", "right")
      \* prepareGroupbyInputs: names become expressions, expressions of an array stay as they are
      windows(by) ==
        [groupByRolling |-> grouped("groupbyRolling", <<Value("indexColumn"), Value("period"),
                                                        offset("period"), closed, by>>),
         groupByDynamic |-> grouped("groupbyDynamic",
                              <<Value("indexColumn"), Value("every"), OrElse("period", "every"),
                                offset("every"), Or("truncate", "true"),
                                Or("includeBoundaries", "false"), closed, by>>)]
      window(m) == OptionsIf({"byExprs"}, windows(Arg("byExprs", Undefined, "expr list"))[m])
                   \o OptionsIf({"by"}, windows(Exprs("by"))[m])
                   \o Options(windows(NoExprs)[m])
      asof(on, other, left, right) ==
        Wrap("joinAsof", <<Native("other"), Arg(on, Undefined, "column"),
                           Arg(other, Undefined, "column"), List(left), List(right),
                           Or("allowParallel", "true"), Or("forceParallel", "false"),
                           Or("suffix", "_right"), Or("strategy", "backward"),
                           Value("tolerance")>>)
      joined(left, right) ==
        Wrap("join", <<Native("other"), left, right, Or("allowParallel", "true"),
                       Or("forceParallel", "false"), Or("how", "inner"), Or("suffix", "right"),
                       Unsorted, Unsorted>>)
  IN
  [groupBy |-> PlainIf({"options"}, grouped("groupby", <<Exprs("by"), Arg("options", Undefined,
                                                                          "object")>>))
               \o Plain(grouped("groupby", <<Exprs("by"), Or("maintainOrder", "true")>>)),
   groupByRolling |-> window("groupByRolling"),
   groupByDynamic |-> window("groupByDynamic"),
   head |-> Plain(Wrap("slice", <<Const("0"), Or("length", "5")>>)),
   join |-> PlainIf({"cross"},
              Wrap("join", <<Native("other"), NoExprs, NoExprs, Or("allowParallel", "true"),
                             Or("forceParallel", "false"), Value("cross"), Or("suffix", "right"),
                             Unsorted, Unsorted>>))
            \o PlainIf({"on"}, joined(Exprs("on"), Exprs("on")))
            \o PlainIf({"leftOn", "rightOn"}, joined(Exprs("leftOn"), Exprs("rightOn")))
            \o Plain(<<Demands({"on", "leftOn", "rightOn"})>>),
   \* by is preferred to byLeft and byRight, on to leftOn and rightOn
   joinAsof |-> PlainIf({"on", "by"}, asof("on", "on", "by", "by"))
                \o PlainIf({"on"}, asof("on", "on", "byLeft", "byRight"))
                \o PlainIf({"leftOn", "rightOn", "by"}, asof("leftOn", "rightOn", "by", "by"))
                \o PlainIf({"leftOn", "rightOn"}, asof("leftOn", "rightOn", "byLeft", "byRight"))
                \o PlainIf({"leftOn"}, <<Demands({"on", "rightOn"})>>)
                \o PlainIf({"rightOn"}, <<Demands({"on", "leftOn"})>>)
                \o Plain(asof("leftOn", "rightOn", "byLeft", "byRight"))]

LazyRest ==
  [m \in {"max", "mean", "median", "min", "reverse", "std", "sum", "var"} |-> Plain(Wrap(m, <<>>))]
  @@ [last     |-> Plain(Wrap("tail", <<Const("1")>>)),
      limit    |-> Plain(Wrap("slice", <<Const("0"), Or("length", "5")>>)),
      melt     |-> Plain(Wrap("melt", <<List("idVars"), List("valueVars")>>)),
      quantile |-> Plain(Wrap("quantile", <<Value("quantile"), Const("nearest")>>)),
      rename   |-> Plain(Wrap("rename", <<List("mapping"), List("mapping")>>)),
      select   |-> Plain(Wrap("select", <<Exprs("exprs")>>)),
      shift    |-> Plain(Wrap("shift", <<Value("periods")>>)) \o Options(Wrap("shift", <<Whole>>)),
      shiftAndFill |-> Both(Wrap("shiftAndFill", <<Value("periods"), Literal("fillValue")>>)),
      slice    |-> Both(Wrap("slice", <<Value("offset"), Value("length")>>)),
      sort     |-> Options(<<This("sort", Forward({"by", "exprs", "reverse"}))>>)
                   \o PlainIf({"exprs"}, Wrap("sortByExprs", <<Exprs("exprs"),
                                              ListOr("reverse", "false"), Const("true")>>))
                   \o Plain(Wrap("sort", <<Value("by"), Or("reverse", "false"), Const("true")>>)),
      tail     |-> Plain(Wrap("tail", <<Or("length", "5")>>)),
      toJSON   |-> Plain(<<Own("serialize", <<Const("json")>>)>>),
      serialize |-> Plain(<<Own("serialize", <<Value("format")>>)>>),
      withColumn  |-> Plain(Wrap("withColumn", <<Native("expr")>>)),
      withColumns |-> Plain(Wrap("withColumns", <<Exprs("exprs")>>)),
      withColumnRenamed |-> Plain(Wrap("rename", <<List("existing"), List("replacement")>>)),
      withRowCount |-> Plain(Wrap("withRowCount", <<Or("name", "row_nr")>>))]

LazyTable == LazyCollecting @@ LazyGrouping @@ LazyRest

LazyGroupByTable ==
  [agg  |-> Plain(Wrap("agg", <<Exprs("aggs")>>)),
   head |-> Plain(Wrap("head", <<Or("n", "5")>>)),
   tail |-> Plain(Wrap("tail", <<Or("n", "5")>>))]
-----------------------------------------------------------------------------
\* df.groupBy(by): the declared methods, each a query over the frame it holds.

GroupByDeclared ==
  Bare({"aggList", "count", "first", "groups", "last", "max", "mean", "median", "min", "nUnique", "sum",
        "toString"})
  @@ [agg      |-> Plainly({"columns"}, {}) \cup ByOptions({"columns"}, {}),
      head     |-> Plainly({}, {"n"}),
      pivot    |-> EitherWay({"pivotCol", "valuesCol"}, {}),
      quantile |-> Plainly({"quantile"}, {}),
      tail     |-> Plainly({}, {"n"})]

GroupByTable ==
  LET queried(aggs) == <<Over("DataFrame"), On("lazy", <<>>),
                         On("groupBy", [by |-> ListOr("by", "by"), maintainOrder |-> Const("false")]),
                         On("agg", [aggs |-> aggs]),
                         On("collectSync", [noOptimization |-> Const("true")])>>
      query == Arg("", "query", "column")
      \* agg(exclude(by).method(...))
      excluding(method, args) ==
        Plain(<<Fn("exclude", [columns |-> ListOr("by", "by")]), On(method, args)>> \o queried(query))
      \* _DataFrame(df.groupby([by].flat(), null, agg))
      aggregated(agg) == Plain(<<Own("groupby", <<ListOr("by", "by"), Value(""), Const(agg)>>),
                                 New("DataFrame")>>)
  IN
  [m \in {"first", "last", "max", "mean", "median", "min", "nUnique", "sum"} |-> excluding(m, <<>>)]
  @@ [agg      |-> Plain(queried(Value("columns"))) \o Options(queried(Value("columns"))),
      aggList  |-> excluding("list", <<>>),
      count    |-> aggregated("count"),
      groups   |-> aggregated("groups"),
      head     |-> excluding("head", [length |-> Or("n", "5")]),
      tail     |-> excluding("tail", [length |-> Or("n", "5")]),
      quantile |-> excluding("quantile", [quantile |-> Value("quantile")]),
      \* the operation of the PivotOps it returns
      pivot    |-> Both(<<Own("pivot", <<ListOr("by", "by"), List("pivotCol"), List("valuesCol"),
                                         Const("sum")>>), New("DataFrame")>>),
      toString |-> Plain(<<>>)]

\* The intermediate states of df.groupByRolling and df.groupByDynamic, with their agg.
LOCAL Windowed(method, names) ==
  Plain(<<Over("DataFrame"), On("lazy", <<>>), OnWith(method, Forward(names)),
          On("agg", [aggs |-> Const("aggs")]), On("collectSync", <<>>)>>)

RollingGroupBy == Windowed("groupByRolling", {"indexColumn", "period", "offset", "closed", "by", "byExprs"})
DynamicGroupBy == Windowed("groupByDynamic",
                           {"indexColumn", "every", "period", "offset", "truncate",
                            "includeBoundaries", "closed", "by", "byExprs"})
=============================================================================
