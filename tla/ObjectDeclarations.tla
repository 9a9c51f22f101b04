-------------------------- MODULE ObjectDeclarations --------------------------
(* The calls that the interfaces of Series, the frames and group-bys declare. *)
LOCAL INSTANCE Methods
LOCAL INSTANCE Declarations

SeriesDeclaredFirst ==
  Bare({"str", "lst", "struct", "date", "inner", "abs", "argMax", "argMin", "argTrue",
        "argUnique", "chunkLengths", "clone"})
  @@ [m \in {"bitand", "bitor", "bitxor", "append", "concat"} |-> Plainly({"other"}, {})]
  @@ [alias   |-> Plainly({"name"}, {}),
      as      |-> Plainly({"name"}, {}),
      argSort |-> Plainly({}, {"reverse"}) \cup ByOptions({"reverse"}, {}),
      cast    |-> Plainly({"dtype"}, {"strict"})]

SeriesDeclaredThen ==
  Bare({"describe", "dropNulls", "explode", "hasValidity"})
  @@ [diff           |-> EitherWay({"n", "nullBehavior"}, {}),
      dot            |-> Plainly({"other"}, {}),
      extend         |-> Plainly({"value", "n"}, {}),
      extendConstant |-> Plainly({"value", "n"}, {}),
      fillNull       |-> EitherWay({"strategy"}, {}),
      filter         |-> EitherWay({"predicate"}, {}),
      get            |-> Plainly({"index"}, {}),
      getIndex       |-> Plainly({"n"}, {})]

SeriesDeclaredNext ==
  Bare({"isBoolean", "isDateTime", "isDuplicated", "isFinite", "isFirst", "isFloat",
        "isInfinite"})
  @@ [hash        |-> EitherWay({}, {"k0", "k1", "k2", "k3"}),
      head        |-> Plainly({}, {"length"}),
      interpolate |-> Plainly({}, {"method"}),
      isIn        |-> Plainly({"other"}, {})]

SeriesDeclaredMore ==
  Bare({"isNotNull", "isNull", "isNumeric", "isUnique", "isUtf8", "len", "max", "mean",
        "median", "min"})
  @@ [kurtosis |-> Plainly({}, {}) \cup Plainly({"fisher"}, {"bias"})
                   \cup ByOptions({}, {"fisher", "bias"}),
      limit    |-> Plainly({}, {"length"})]

SeriesDeclaredRest ==
  Bare({"mode", "nChunks", "nUnique", "nullCount", "peakMax", "peakMin"})
  @@ [quantile    |-> Plainly({"quantile"}, {"interpolation"}),
      rank        |-> Plainly({}, {"method"}),
      rechunk     |-> Plainly({}, {"inPlace"}),
      reinterpret |-> Plainly({}, {"signed"}),
      rename      |-> EitherWay({"name"}, {"inPlace"})]

SeriesDeclaredAfter ==
  Bare({"sum"})
  @@ [seriesEqual  |-> Plainly({"other"}, {"nullEqual", "strict"}),
      set          |-> Plainly({"filter", "value"}, {}),
      setAtIdx     |-> Plainly({"indices", "value"}, {}),
      shift        |-> Plainly({"periods"}, {}),
      shiftAndFill |-> EitherWay({"periods", "fillValue"}, {}),
      shrinkToFit  |-> Plainly({}, {"inPlace"}),
      skew         |-> Plainly({}, {"bias"}),
      slice        |-> Plainly({"offset"}, {"length"}),
      sort         |-> Plainly({}, {"reverse"}) \cup ByOptions({"reverse"}, {})]

SeriesDeclaredLast ==
  Bare({"valueCounts", "toArray", "toTypedArray", "toObject", "toFrame", "values"})
  @@ [tail      |-> Plainly({}, {"length"}),
      toJSON    |-> Plainly({}, {"key"}),      \* the key JSON.stringify passes
      takeEvery |-> Plainly({"n"}, {}),
      take      |-> Plainly({"indices"}, {}),
      unique    |-> Plainly({}, {"maintainOrder"}) \cup ByOptions({"maintainOrder"}, {}),
      zipWith   |-> Plainly({"mask", "other"}, {})]

SeriesDeclared ==
  RollingTrait @@ RollingQuantileTrait @@ ArithmeticTrait @@ ComparisonTrait @@ CumulativeTrait
  @@ SampleTrait @@ SerializeTrait
  @@ SeriesDeclaredFirst @@ SeriesDeclaredThen @@ SeriesDeclaredNext @@ SeriesDeclaredMore
  @@ SeriesDeclaredRest @@ SeriesDeclaredAfter @@ SeriesDeclaredLast
-----------------------------------------------------------------------------
\* A destination is a path or a Writable; without one a Buffer is returned.
WriteMethods ==
  [writeCSV     |-> Plainly({}, {}) \cup ByOptions({}, {"hasHeader", "sep"})
                    \cup Plainly({"dest"}, {"hasHeader", "sep"}),
   writeJSON    |-> ByOptions({}, {"format"}) \cup Plainly({"dest"}, {"format"})]
  @@ [m \in {"writeIPC", "writeParquet", "writeAvro"} |->
        ByOptions({}, {"compression"}) \cup Plainly({"dest"}, {"compression"})]

FrameDeclaredFirst ==
  Bare({"clone", "describe"})
  @@ [distinct  |-> Plainly({}, {"maintainOrder", "subset", "keep"}),
      drop      |-> Plainly({"name"}, {}) \cup Plainly({"names"}, {}),
      dropNulls |-> Plainly({"columns"}, {}),
      explode   |-> Plainly({"columns"}, {})]

FrameDeclaredThen ==
  Bare({"getColumns"})
  @@ [extend        |-> Plainly({"other"}, {}),
      fillNull      |-> Plainly({"strategy"}, {}),
      filter        |-> Plainly({"predicate"}, {}),
      findIdxByName |-> Plainly({"name"}, {}),
      fold          |-> Plainly({"operation"}, {}),
      frameEqual    |-> Plainly({"other"}, {"nullEqual"}),
      getColumn     |-> Plainly({"name"}, {}),
      groupBy       |-> Plainly({"by"}, {}),
      hashRows      |-> EitherWay({}, {"k0", "k1", "k2", "k3"})]

FrameDeclaredNext ==
  Bare({"interpolate", "isDuplicated", "isEmpty", "isUnique"})
  @@ [head        |-> Plainly({}, {"length"}),
      hstack      |-> Plainly({"columns"}, {"inPlace"}),
      insertAtIdx |-> Plainly({"index", "series"}, {}),
      join        |-> Plainly({"other", "on"}, {"how", "suffix"})
                      \cup Plainly({"other", "leftOn", "rightOn"}, {"how", "suffix"})
                      \cup Plainly({"other", "cross"}, {"suffix"})]

AsofOptions == {"leftOn", "rightOn", "on", "byLeft", "byRight", "by", "strategy", "suffix",
                "tolerance", "allowParallel", "forceParallel"}

FrameDeclaredMore ==
  Bare({"lazy", "median"})
  @@ [joinAsof |-> Plainly({"other"}, AsofOptions),
      limit    |-> Plainly({}, {"length"}),
      map      |-> Plainly({"func"}, {}),
      max      |-> Plainly({}, {}) \cup Plainly({"rows"}, {}),
      mean     |-> Plainly({}, {}) \cup Plainly({"rows"}, {"nullStrategy"}),
      melt     |-> Plainly({"idVars", "valueVars"}, {}),
      min      |-> Plainly({}, {}) \cup Plainly({"rows"}, {})]

FrameDeclaredRest ==
  Bare({"nChunks", "nullCount", "rechunk"})
  @@ [partitionBy |-> Plainly({"cols"}, {"stable", "mapFn"}),
      pivot    |-> Plainly({"values", "index", "columns"},
                           {"aggregateFunc", "maintainOrder", "sortColumns"})
                   \cup ByOptions({"values", "index", "columns"},
                                  {"aggregateFunc", "maintainOrder", "sortColumns"}),
      quantile |-> Plainly({"quantile"}, {})]

FrameDeclaredAfter ==
  Bare({"rows"})
  @@ [rename       |-> Plainly({"mapping"}, {}),
      replaceAtIdx |-> Plainly({"index", "newColumn"}, {}),
      row          |-> Plainly({"index"}, {}),
      select       |-> Plainly({"columns"}, {}) \cup Plainly({"exprs"}, {}),
      shift        |-> EitherWay({"periods"}, {})]

FrameDeclaredSorting ==
  Bare({"std"})
  @@ [shiftAndFill |-> EitherWay({"periods", "fillValue"}, {}),
      shrinkToFit  |-> Plainly({}, {"inPlace"}) \cup ByOptions({"inPlace"}, {}),
      slice        |-> EitherWay({"offset", "length"}, {}),
      sort         |-> EitherWay({"by"}, {"reverse"}) \cup EitherWay({"exprs"}, {"reverse"}),
      sum          |-> Plainly({}, {}) \cup Plainly({"rows"}, {"nullStrategy"})]

FrameDeclaredLast ==
  Bare({"toRecords", "toObject", "toString"})
  @@ [tail      |-> Plainly({}, {"length"}),
      toJSON    |-> Plainly({}, {"key"}),
      toSeries  |-> Plainly({}, {"index"}),
      toStruct  |-> Plainly({"name"}, {}),
      transpose |-> ByOptions({}, {"includeHeader", "headerName", "columnNames"})]

FrameDeclaredEnd ==
  Bare({"var"})
  @@ [unique      |-> EitherWay({}, {"maintainOrder", "subset", "keep"}),
      unnest      |-> Plainly({"names"}, {}),
      vstack      |-> Plainly({"df"}, {}),
      withColumn  |-> Plainly({"series"}, {}) \cup Plainly({"expr"}, {}),
      withColumns |-> Plainly({"series"}, {}) \cup Plainly({"exprs"}, {}),
      withColumnRenamed |-> EitherWay({"existing", "replacement"}, {}),
      withRowCount |-> Plainly({}, {"name"}),
      where       |-> Plainly({"predicate"}, {})]

FrameDeclared ==
  ArithmeticTrait @@ SampleTrait @@ SerializeTrait @@ GroupByRollingTrait @@ GroupByDynamicTrait
  @@ WriteMethods @@ FrameDeclaredFirst @@ FrameDeclaredThen @@ FrameDeclaredNext
  @@ FrameDeclaredMore @@ FrameDeclaredRest @@ FrameDeclaredAfter @@ FrameDeclaredSorting
  @@ FrameDeclaredLast @@ FrameDeclaredEnd
-----------------------------------------------------------------------------
Toggles == {"typeCoercion", "predicatePushdown", "projectionPushdown", "simplifyExpression",
            "stringCache", "noOptimization"}

LazyDeclaredFirst ==
  Bare({"columns", "cache", "clone", "describePlan", "first"})
  @@ [m \in {"collect", "collectSync", "describeOptimizedPlan"} |-> Plainly({}, Toggles)]
  @@ [m \in {"fetch", "fetchSync"} |-> Plainly({"numRows"}, Toggles)]
  @@ [drop      |-> Plainly({"names"}, {}),
      distinct  |-> EitherWay({}, {"maintainOrder", "subset", "keep"}),
      dropNulls |-> Plainly({"columns"}, {}),
      explode   |-> Plainly({"columns"}, {}),
      fillNull  |-> Plainly({"fillValue"}, {}),
      filter    |-> Plainly({"predicate"}, {})]

LazyDeclaredThen ==
  [groupBy |-> Plainly({"by"}, {}) \cup Plainly({"by", "maintainOrder"}, {})
               \cup Plainly({"by", "options"}, {}),
   head    |-> Plainly({}, {"length"}),
   join    |-> LET parallel == {"allowParallel", "forceParallel"} IN
               Plainly({"other", "on"}, {"how", "suffix"} \cup parallel)
               \cup Plainly({"other", "leftOn", "rightOn"}, {"how", "suffix"} \cup parallel)
               \cup Plainly({"other", "cross"}, {"suffix"} \cup parallel)]

LazyDeclaredNext ==
  Bare({"last", "max", "mean", "median", "min", "reverse", "std", "sum"})
  @@ [joinAsof     |-> Plainly({"other"}, AsofOptions),
      limit        |-> Plainly({}, {"length"}),
      melt         |-> Plainly({"idVars", "valueVars"}, {}),
      quantile     |-> Plainly({"quantile"}, {}),
      rename       |-> Plainly({"mapping"}, {}),
      select       |-> Plainly({"exprs"}, {}),
      shift        |-> EitherWay({"periods"}, {}),
      shiftAndFill |-> EitherWay({"periods", "fillValue"}, {}),
      slice        |-> EitherWay({"offset", "length"}, {}),
      sort         |-> EitherWay({"by"}, {"reverse"}) \cup EitherWay({"exprs"}, {"reverse"}),
      tail         |-> Plainly({}, {"length"}),
      toJSON       |-> Plainly({}, {"key"})]

LazyDeclaredLast ==
  Bare({"var", "withRowCount"})
  @@ [unique      |-> EitherWay({}, {"maintainOrder", "subset", "keep"}),
      withColumn  |-> Plainly({"expr"}, {}),
      withColumns |-> Plainly({"exprs"}, {}),
      withColumnRenamed |-> Plainly({"existing", "replacement"}, {})]

LazyDeclared ==
  SerializeTrait @@ GroupByRollingTrait @@ GroupByDynamicTrait
  @@ LazyDeclaredFirst @@ LazyDeclaredThen @@ LazyDeclaredNext @@ LazyDeclaredLast

LazyGroupByDeclared ==
  [agg |-> Plainly({"aggs"}, {}), head |-> Plainly({}, {"n"}), tail |-> Plainly({}, {"n"})]
=============================================================================
