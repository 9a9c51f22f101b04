----------------------------- MODULE FrameMethods -----------------------------
(* The methods of DataFrame, in the order of polars/dataframe.ts. *)
LOCAL INSTANCE Methods

LOCAL Wrap(native, args)   == <<Own(native, args), New("DataFrame")>>
LOCAL Column1(native, args) == <<Own(native, args), New("Series")>>

\* this.lazy().call(...).collectSync(); a collect option has no argument of its own.
Lazily(call, args) == <<This("lazy", <<>>), On(call, args), On("collectSync", <<>>)>>

Unoptimized(call, args) ==
  <<This("lazy", <<>>), On(call, args), On("collectSync", [noOptimization |-> Const("true")])>>

Horizontally(native, args, method) ==
  PlainIf({"rows"}, Column1(native, args)) \o Plain(Wrap(method, <<>>))

FrameBasics ==
  LET deduplicating == <<This("unique", Forward({"maintainOrder", "subset"}))>> IN
  [clone    |-> Plain(Wrap("clone", <<>>)),
   describe |-> Plain(<<This("mean", <<>>), This("std", <<>>), This("min", <<>>), This("max", <<>>),
                        This("median", <<>>), Fn("concat", [items |-> Const("summaries")]),
                        Do("insertAtIdx", <<Const("0"), Arg("", "describe", "native")>>)>>),
   inner    |-> Plain(<<Over("JsDataFrame")>>),
   drop     |-> PlainIf({"name"}, Wrap("drop", <<Value("name")>>))
                \o Plain(<<This("clone", <<>>), Do("dropInPlace", <<Value("names")>>)>>),
   dropNulls |-> Plain(Wrap("dropNulls", <<List("columns")>>)),
   distinct |-> Plain(deduplicating),
   unique   |-> LET defaults(subset) == Wrap("unique", <<Or("maintainOrder", "false"), subset,
                                                         Or("keep", "first")>>)
                IN  Plain(defaults(Value("subset")))
                    \o OptionsIf({"subset"}, <<Writes({"subset"})>> \o defaults(List("subset")))
                    \o Options(defaults(List("subset"))),
   explode  |-> Plain(Unoptimized("explode", Forward({"columns"}))),
   extend   |-> Plain(Wrap("extend", <<Native("other")>>)),
   filter   |-> Plain(Lazily("filter", Forward({"predicate"}))),
   fillNull |-> Plain(Wrap("fillNull", <<Value("strategy")>>)),
   findIdxByName |-> Plain(<<Own("findIdxByName", <<Value("name")>>)>>)]

FrameColumns ==
  LET keys == <<Or("k0", "0"), Or("k1", "1"), Or("k2", "2"), Or("k3", "3")>>
      toGroup == {"indexColumn", "period", "offset", "closed", "by", "byExprs"}
  IN
  [fold       |-> Plain(<<This("getColumns", <<>>), Fn("call", [f |-> Value("operation")])>>),
   frameEqual |-> Plain(<<Own("frameEqual", <<Native("other"), Or("nullEqual", "true")>>)>>),
   getColumn  |-> Plain(Column1("column", <<Value("name")>>)),
   getColumns |-> Plain(<<Own("getColumns", <<>>)>>),
   groupBy    |-> Plain(<<Fn("GroupBy", [by |-> List("by")])>>),
   groupByRolling |-> Options(<<Fn("RollingGroupBy", Forward(toGroup))>>),
   groupByDynamic |-> Options(<<Fn("DynamicGroupBy",
                                   Forward(toGroup \cup {"every", "truncate", "includeBoundaries"}))>>),
   hashRows   |-> Plain(Column1("hashRows", keys)) \o OptionsIf({"k0"}, Column1("hashRows", keys))
                  \o Options(<<Fails>>),
   head       |-> Plain(Wrap("head", <<Or("length", "5")>>)),
   hstack     |-> PlainIf({"inPlace"}, Wrap("hstackMut", <<List("columns")>>))
                  \o Plain(Wrap("hstack", <<List("columns")>>)),
   insertAtIdx |-> Plain(<<Own("insertAtIdx", <<Value("index"), Native("series")>>)>>),
   interpolate |-> Plain(<<Fn("col", [name |-> Const("*")]), On("interpolate", <<>>),
                           Over("DataFrame"), On("select", [exprs |-> Arg("", "query", "column")])>>)]

FrameJoins ==
  LET fn == Arg("aggregateFunc", "first", "expr")
      joined(left, right) == Wrap("join", <<Native("other"), left, right, Or("how", "inner"),
                                            Or("suffix", "right")>>)
      pivoted == Wrap("pivotExpr", <<List("values"), List("index"), List("columns"), fn,
                                     Or("maintainOrder", "true"), Or("sortColumns", "false")>>)
  IN
  [m \in {"isDuplicated", "isUnique"} |-> Plain(Column1(m, <<>>))]
  @@ [isEmpty |-> Plain(<<Own("height", <<>>)>>),
      join    |-> PlainIf({"cross"}, Wrap("join", <<Native("other"), ListOr("", "none"),
                                          ListOr("", "none"), Value("cross"), Or("suffix", "right")>>))
                  \o PlainIf({"on"}, joined(List("on"), List("on")))
                  \o PlainIf({"leftOn", "rightOn"}, joined(List("leftOn"), List("rightOn")))
                  \o Plain(<<Demands({"on", "leftOn", "rightOn"})>>),
      joinAsof |-> Plain(Lazily("joinAsof",
                     Forward({"leftOn", "rightOn", "on", "byLeft", "byRight", "by", "strategy",
                              "suffix", "tolerance", "allowParallel", "forceParallel"})
                     @@ [other |-> Native("other")])),
      lazy    |-> Plain(<<Own("lazy", <<>>), New("LazyDataFrame")>>),
      limit   |-> Plain(Wrap("head", <<Or("length", "5")>>)),
      max     |-> Horizontally("hmax", <<>>, "max"),
      mean    |-> Horizontally("hmean", <<Or("nullStrategy", "ignore")>>, "mean"),
      median  |-> Plain(Wrap("median", <<>>)),
      melt    |-> Plain(Wrap("melt", <<List("idVars"), List("valueVars")>>)),
      min     |-> Horizontally("hmin", <<>>, "min"),
      nChunks |-> Plain(<<Own("nChunks", <<>>)>>),
      nullCount |-> Plain(Wrap("nullCount", <<>>)),
      partitionBy |-> Plain(<<Own("partitionBy", <<List("cols"), Or("stable", "false")>>),
                              Fn("call", [f |-> Value("mapFn")])>>),
      \* options is destructured, whether it was given or not
      pivot   |-> Options(pivoted) \o PlainIf({"values", "index", "columns"}, pivoted)]

FrameSelecting ==
  LET renaming == <<This("clone", <<>>), Do("rename", <<Value("existing"), Value("replacement")>>)>>
      samples(native, size, replace) ==
        Wrap(native, <<size, replace, Const("false"), Value("seed")>>)
      replacing == Or("withReplacement", "false")
      again == <<This("sample", Forward({"n", "frac", "withReplacement"}))>>   \* not the seed
  IN
  [quantile |-> Plain(Wrap("quantile", <<Value("quantile"), Const("nearest")>>)),
   rechunk  |-> Plain(Wrap("rechunk", <<>>)),
   rename   |-> Plain(<<This("clone", <<>>), Do("rename", <<Value("mapping"), Value("mapping")>>)>>),
   replaceAtIdx |-> Plain(<<Own("replaceAtIdx", <<Value("index"), Native("newColumn")>>)>>),
   rows     |-> Plain(<<Own("toRows", <<>>)>>),
   sample   |-> OptionsIf({"n"}, again) \o OptionsIf({"frac"}, again)
                \o PlainIf({"n"}, samples("sampleN", Value("n"), replacing))
                \o PlainIf({"frac"}, samples("sampleFrac", Value("frac"), replacing))
                \o PlainIf({"withReplacement"}, <<Demands({"n", "frac"})>>)
                \o PlainIf({"seed"}, <<Demands({"n", "frac"})>>)
                \o Plain(samples("sampleN", Const("1"), Const("false"))),
   select   |-> PlainIf({"exprs"}, Lazily("select", Forward({"exprs"})))
                \o Plain(Wrap("select", <<List("columns")>>)),
   shift    |-> Both(Wrap("shift", <<Value("periods")>>)),
   shiftAndFill |-> Plain(Lazily("shiftAndFill", Forward({"periods", "fillValue"})))
                    \o Options(<<This("lazy", <<>>), Spread("shiftAndFill"), On("collectSync", <<>>)>>),
   \* any object is in place
   shrinkToFit  |-> PlainIf({"inPlace"}, <<Own("shrinkToFit", <<>>)>>)
                    \o Options(<<Own("shrinkToFit", <<>>)>>)
                    \o Plain(<<This("clone", <<>>), Do("shrinkToFit", <<>>)>>),
   slice    |-> Both(Wrap("slice", <<Value("offset"), Value("length")>>)),
   sort     |-> Options(<<This("sort", Forward({"by", "exprs", "reverse"}))>>)
                \o PlainIf({"exprs"}, Unoptimized("sort", Forward({"exprs", "reverse"})))
                \o Plain(Wrap("sort", <<Value("by"), Or("reverse", "false"), Const("true")>>)),
   std      |-> Plain(Wrap("std", <<>>)),
   sum      |-> Horizontally("hsum", <<Or("nullStrategy", "ignore")>>, "sum"),
   tail     |-> Plain(Wrap("tail", <<Or("length", "5")>>)),
   withColumnRenamed |-> Both(renaming)]

\* A destination given is written to, otherwise the chunks written are concatenated.
FrameWriting ==
  LET writing(native, names) == Own(native, <<Or("dest", "buffers"), Record(Forward(names))>>)
      compressing(native) == Both(<<Own(native, <<Or("dest", "buffers"),
                                                  Or("compression", "uncompressed")>>)>>)
  IN
  [serialize  |-> Plain(<<Own("serialize", <<Value("format")>>)>>),
   writeCSV   |-> Both(<<writing("writeCsv", {"hasHeader", "sep"})>>),
   toRecords  |-> Plain(<<Own("toObjects", <<>>)>>),
   toJSON     |-> PlainIf({"key"}, <<Own("toJs", <<>>)>>)
                  \o Plain(<<Own("serialize", <<Const("json")>>)>>),
   toObject   |-> Plain(<<This("getColumns", <<>>)>>),
   writeJSON  |-> Both(<<Own("writeJson", <<Or("dest", "buffers"),
                                            Record([format |-> Or("format", "lines")])>>)>>),
   writeParquet |-> compressing("writeParquet"),
   writeAvro  |-> compressing("writeAvro"),
   writeIPC   |-> compressing("writeIpc"),
   toSeries   |-> Plain(Column1("selectAtIdx", <<Or("index", "0")>>))]

FrameRest ==
  LET inPlaceOf == [add |-> "add", plus |-> "add", sub |-> "sub", minus |-> "sub", div |-> "div",
                    divideBy |-> "div", mul |-> "mul", multiplyBy |-> "mul", rem |-> "rem",
                    modulo |-> "rem"]
  IN
  [m \in DOMAIN inPlaceOf |-> Plain(Wrap(inPlaceOf[m], <<Native("other")>>))]
  @@ [toStruct  |-> Plain(Column1("toStruct", <<Value("name")>>)),
      toString  |-> Plain(<<Own("toString", <<>>)>>),
      transpose |-> OptionsIf({"columnNames"},
                      Wrap("transpose", <<Or("includeHeader", "false"), Value("headerName")>>)
                      \o <<Do("columns", <<List("columnNames")>>)>>)
                    \o Options(Wrap("transpose", <<Or("includeHeader", "false"), Value("headerName")>>)),
      unnest    |-> Plain(Wrap("unnest", <<List("names")>>)),
      var       |-> Plain(Wrap("var", <<>>)),
      map       |-> Plain(<<This("rows", <<>>), Fn("call", [f |-> Value("func")])>>),
      row       |-> Plain(<<Own("toRow", <<Value("index")>>)>>),
      vstack    |-> Plain(Wrap("vstack", <<Native("df")>>)),
      withColumn |-> PlainIf({"series"}, Wrap("withColumn", <<Native("series")>>))
                     \o Plain(<<This("withColumns", [exprs |-> Value("expr")])>>),
      withColumns |-> PlainIf({"series"}, <<This("withColumn", Forward({"series"}))>>)
                      \o Plain(Unoptimized("withColumns", Forward({"exprs"}))),
      withRowCount |-> Plain(Wrap("withRowCount", <<Or("name", "row_nr")>>)),
      where     |-> Plain(<<This("filter", Forward({"predicate"}))>>)]

FrameTable ==
  FrameBasics @@ FrameColumns @@ FrameJoins @@ FrameSelecting @@ FrameWriting @@ FrameRest
=============================================================================
