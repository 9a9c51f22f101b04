------------------------------- MODULE Natives -------------------------------
(***************************************************************************)
(* The signatures of the native functions that the tables call: the kind   *)
(* of each argument, and the class of what is returned.  "?" marks an      *)
(* argument that may be undefined; what is given beyond them is dropped.   *)
(***************************************************************************)
LOCAL INSTANCE Methods

LOCAL Of(args, returns, names) == [n \in names |-> [args |-> args, returns |-> returns]]

JsExprNatives ==
  Of(<<>>, "JsExpr",
      {"abs", "aggGroups", "all", "argMax", "argMin", "argUnique", "backwardFill",
       "ceil", "count", "day", "dropNulls", "explode", "first", "floor", "forwardFill",
       "hour", "isDuplicated", "isFinite", "isFirst", "isInfinite", "isNan", "isNotNan",
       "isNotNull", "isNull", "isUnique", "keepName", "last", "list", "lowerBound",
       "lstArgMax", "lstArgMin", "lstLengths", "lstMax", "lstMean", "lstMin",
       "lstReverse", "lstSum", "lstUnique", "max", "mean", "median", "min", "minute",
       "mode", "month", "nUnique", "nanosecond", "not", "ordinalDay", "reverse",
       "second", "strBase64Encode", "strHexEncode", "strLengths", "strLstrip",
       "strRstrip", "strStrip", "strToLowercase", "strToUppercase", "sum", "timestamp",
       "unique", "uniqueStable", "upperBound", "week", "weekday", "year"})
  @@ Of(<<>>, "value", {"toJs", "toString"})
  @@ Of(<<"JsRollingOptions">>, "JsExpr",
      {"rollingMax", "rollingMean", "rollingMedian", "rollingMin", "rollingStd",
       "rollingSum", "rollingVar"})
  @@ Of(<<"list">>, "JsExpr", {"exclude", "structRenameFields"})
  @@ Of(<<"native">>, "JsExpr",
      {"add", "and", "div", "dot", "eq", "fillNan", "fillNull", "filter", "gt", "gtEq",
       "isIn", "lstGet", "lt", "ltEq", "mul", "neq", "or", "rem", "repeatBy", "sub",
       "take"})
  @@ Of(<<"natives">>, "JsExpr", {"over"})
  @@ Of(<<"value">>, "JsExpr",
      {"alias", "argSort", "cumcount", "cummax", "cummin", "cumprod", "cumsum",
       "fillNullWithStrategy", "interpolate", "lstJoin", "lstShift", "lstSort", "pow",
       "prefix", "reinterpret", "round", "shift", "skew", "strConcat", "strContains",
       "strJsonPathMatch", "strSplit", "strZFill", "strftime", "structFieldByName",
       "suffix", "takeEvery"})
  @@ Of(<<"value">>, "value", {"serialize"})
  @@ Of(<<"value?">>, "JsExpr",
      {"head", "std", "strBase64Decode", "strHexDecode", "tail", "var"})
  @@ Of(<<"any", "any">>, "JsExpr", {"clip"})
  @@ Of(<<"any", "value">>, "JsExpr", {"extendConstant"})
  @@ Of(<<"native", "native">>, "JsExpr", {"lstSlice", "slice"})
  @@ Of(<<"native", "value">>, "JsExpr", {"lstEval", "quantile"})
  @@ Of(<<"natives", "list">>, "JsExpr", {"sortBy"})
  @@ Of(<<"value", "native">>, "JsExpr", {"shiftAndFill"})
  @@ Of(<<"value", "value">>, "JsExpr",
      {"cast", "diff", "kurtosis", "lstDiff", "rank", "rollingSkew", "sortWith",
       "strExtract", "strPadEnd", "strPadStart", "strReplace", "strReplaceAll",
       "valueCounts"})
  @@ Of(<<"value", "value?">>, "JsExpr", {"strSlice"})
  @@ Of(<<"value", "value", "JsRollingOptions">>, "JsExpr", {"rollingQuantile"})
  @@ Of(<<"value?", "value", "value">>, "JsExpr", {"strParseDate", "strParseDatetime"})
  @@ Of(<<"value", "value", "value", "value">>, "JsExpr", {"hash"})
  @@ Of(<<"value", "value", "value", "value?">>, "JsExpr", {"sampleFrac"})

JsSeriesNatives ==
  Of(<<>>, "JsDataFrame", {"structToFrame"})
  @@ Of(<<>>, "JsSeries",
      {"abs", "argUnique", "ceil", "clone", "day", "dropNulls", "explode", "floor",
       "hour", "isDuplicated", "isFinite", "isFirst", "isInfinite", "isNan", "isNotNan",
       "isNotNull", "isNull", "isUnique", "minute", "mode", "month", "nanosecond",
       "ordinalDay", "peakMax", "peakMin", "second", "strBase64Encode", "strHexEncode",
       "strLengths", "strToLowercase", "strToUppercase", "unique", "uniqueStable",
       "week", "weekday", "year"})
  @@ Of(<<>>, Nothing, {"shrinkToFit"})
  @@ Of(<<>>, "value",
      {"argMax", "argMin", "chunkLengths", "dtype", "hasValidity", "len", "max", "mean",
       "median", "min", "nChunks", "nUnique", "name", "nullCount", "structFields", "sum",
       "toArray", "toJs", "toString", "toTypedArray"})
  @@ Of(<<"list">>, "JsSeries", {"take"})
  @@ Of(<<"native">>, "JsSeries",
      {"add", "bitand", "bitor", "bitxor", "div", "eq", "filter", "gt", "gtEq", "isIn",
       "lt", "ltEq", "mul", "neq", "rem", "sub"})
  @@ Of(<<"native">>, Nothing, {"append", "extend"})
  @@ Of(<<"native">>, "value", {"dot"})
  @@ Of(<<"value">>, "JsDataFrame", {"valueCounts"})
  @@ Of(<<"value">>, "JsSeries",
      {"fillNull", "limit", "rechunk", "reinterpret", "round", "shift", "strContains",
       "strJsonPathMatch", "strZFill", "strftime", "takeEvery"})
  @@ Of(<<"value">>, Nothing, {"rename"})
  @@ Of(<<"value">>, "value", {"getIdx", "serialize", "skew"})
  @@ Of(<<"value?">>, "JsSeries",
      {"cummax", "cummin", "cumprod", "cumsum", "head", "sort", "strBase64Decode",
       "strHexDecode", "tail"})
  @@ Of(<<"any", "value">>, "JsSeries", {"extendConstant"})
  @@ Of(<<"native", "native">>, "JsSeries", {"zipWith"})
  @@ Of(<<"native", "native">>, Nothing, {"setAtIdx"})
  @@ Of(<<"value", "value">>, "JsSeries",
      {"argsort", "diff", "slice", "strExtract", "strPadEnd", "strPadStart",
       "strReplace", "strReplaceAll"})
  @@ Of(<<"value", "value">>, "value", {"kurtosis", "quantile"})
  @@ Of(<<"value", "value?">>, "JsSeries", {"cast", "rank", "strSlice"})
  @@ Of(<<"native", "value", "value">>, "value", {"seriesEqual"})
  @@ Of(<<"value", "any", "value", "value">>, "JsSeries", {"repeat"})
  @@ Of(<<"value", "value", "value", "value">>, "JsSeries", {"hash"})
  @@ Of(<<"value", "value", "value", "value?">>, "JsSeries", {"sampleFrac", "sampleN"})

JsDataFrameNatives ==
  Of(<<>>, "JsDataFrame",
      {"clone", "max", "mean", "median", "min", "nullCount", "rechunk", "sum"})
  @@ Of(<<>>, "JsLazyFrame", {"lazy"})
  @@ Of(<<>>, "JsSeries", {"hmax", "hmin", "isDuplicated", "isUnique"})
  @@ Of(<<>>, Nothing, {"shrinkToFit"})
  @@ Of(<<>>, "value",
      {"dtypes", "getColumns", "height", "nChunks", "schema", "toJs", "toObjects",
       "toRows", "toString"})
  @@ Of(<<"list">>, "JsDataFrame", {"hstack", "select", "take", "unnest"})
  @@ Of(<<"list">>, Nothing, {"columns", "hstackMut"})
  @@ Of(<<"list?">>, "JsDataFrame", {"dropNulls"})
  @@ Of(<<"native">>, "JsDataFrame",
      {"add", "div", "filter", "mul", "rem", "sub", "vstack", "withColumn"})
  @@ Of(<<"native">>, Nothing, {"extend"})
  @@ Of(<<"value">>, "JsDataFrame", {"drop", "fillNull", "shift"})
  @@ Of(<<"value">>, "JsSeries",
      {"column", "dropInPlace", "hmean", "hsum", "selectAtIdx", "toStruct"})
  @@ Of(<<"value">>, "value", {"findIdxByName", "serialize", "toRow"})
  @@ Of(<<"value?">>, "JsDataFrame", {"head", "std", "tail", "var"})
  @@ Of(<<"any", "WriteCsvOptions">>, Nothing, {"writeCsv"})
  @@ Of(<<"any", "WriteJsonOptions">>, Nothing, {"writeJson"})
  @@ Of(<<"any", "value">>, Nothing, {"writeAvro", "writeIpc", "writeParquet"})
  @@ Of(<<"list", "value">>, "value", {"partitionBy"})
  @@ Of(<<"native", "value">>, "value", {"frameEqual"})
  @@ Of(<<"value", "native">>, Nothing, {"insertAtIdx", "replace", "replaceAtIdx"})
  @@ Of(<<"value", "value">>, "JsDataFrame", {"quantile", "slice", "transpose"})
  @@ Of(<<"value", "value">>, Nothing, {"rename"})
  @@ Of(<<"value", "value?">>, "JsDataFrame", {"withRowCount"})
  @@ Of(<<"list", "list?", "value">>, "JsDataFrame", {"groupby"})
  @@ Of(<<"value", "list?", "value">>, "JsDataFrame", {"unique"})
  @@ Of(<<"value", "value", "value">>, "JsDataFrame", {"sort"})
  @@ Of(<<"list", "list", "value?", "value?">>, "JsDataFrame", {"melt"})
  @@ Of(<<"value", "value", "value", "value">>, "JsSeries", {"hashRows"})
  @@ Of(<<"value", "value", "value", "value?">>, "JsDataFrame", {"sampleFrac", "sampleN"})
  @@ Of(<<"native", "list", "list", "value", "value">>, "JsDataFrame", {"join"})
  @@ Of(<<"list", "list", "list", "expr", "value", "value">>, "JsDataFrame", {"pivotExpr"})

JsLazyFrameNatives ==
  Of(<<>>, "JsDataFrame", {"collect", "collectSync"})
  @@ Of(<<>>, "JsLazyFrame",
      {"cache", "clone", "max", "mean", "median", "min", "reverse", "sum"})
  @@ Of(<<>>, "value", {"columns", "describeOptimizedPlan", "describePlan", "toJs"})
  @@ Of(<<"list">>, "JsLazyFrame", {"dropColumns", "unnest"})
  @@ Of(<<"list?">>, "JsLazyFrame", {"dropNulls"})
  @@ Of(<<"native">>, "JsLazyFrame", {"fillNan", "fillNull", "filter", "withColumn"})
  @@ Of(<<"natives">>, "JsLazyFrame", {"explode", "select", "withColumns"})
  @@ Of(<<"value">>, "JsDataFrame", {"fetch", "fetchSync"})
  @@ Of(<<"value">>, "JsLazyFrame", {"shift", "tail"})
  @@ Of(<<"value">>, "value", {"serialize"})
  @@ Of(<<"value?">>, "JsLazyFrame", {"std", "var"})
  @@ Of(<<"list", "list">>, "JsLazyFrame", {"rename"})
  @@ Of(<<"natives", "value">>, "JsLazyGroupBy", {"groupby"})
  @@ Of(<<"value", "native">>, "JsLazyFrame", {"shiftAndFill"})
  @@ Of(<<"value", "value">>, "JsLazyFrame", {"quantile", "slice"})
  @@ Of(<<"value", "value?">>, "JsLazyFrame", {"withRowCount"})
  @@ Of(<<"natives", "list", "value">>, "JsLazyFrame", {"sortByExprs"})
  @@ Of(<<"value", "list?", "value">>, "JsLazyFrame", {"unique"})
  @@ Of(<<"value", "value", "value">>, "JsLazyFrame", {"sort"})
  @@ Of(<<"list", "list", "value?", "value?">>, "JsLazyFrame", {"melt"})
  @@ Of(<<"value", "value", "value", "value", "natives">>, "JsLazyGroupBy", {"groupbyRolling"})
  @@ Of(<<"value?", "value?", "value?", "value?", "value?", "value?">>, "JsLazyFrame",
      {"optimizationToggle"})
  @@ Of(<<"value", "value", "value", "value", "value", "value", "value", "natives">>, "JsLazyGroupBy",
      {"groupbyDynamic"})
  @@ Of(<<"native", "natives", "natives", "value", "value", "value", "value", "list", "list">>, "JsLazyFrame",
      {"join"})
  @@ Of(<<"native", "native", "native", "list?", "list?", "value", "value", "value", "value", "any", "value?">>, "JsLazyFrame",
      {"joinAsof"})

JsLazyGroupByNatives ==
  Of(<<"natives">>, "JsLazyFrame", {"agg"})
  @@ Of(<<"value">>, "JsLazyFrame", {"head", "tail"})

WhenThenNatives ==
  Of(<<"native">>, "JsExpr", {"otherwise"})
  @@ Of(<<"native">>, "WhenThenThen", {"when"})

WhenThenThenNatives ==
  Of(<<"native">>, "JsExpr", {"otherwise"})
  @@ Of(<<"native">>, "WhenThenThen", {"then", "when"})

WhenNatives ==
  Of(<<"native">>, "WhenThen", {"then"})

PliNatives ==
  Of(<<>>, "JsExpr", {"count", "first", "last"})
  @@ Of(<<"any">>, "JsExpr", {"lit"})
  @@ Of(<<"list">>, "JsExpr", {"cols"})
  @@ Of(<<"native">>, "JsExpr", {"argWhere"})
  @@ Of(<<"native">>, "When", {"when"})
  @@ Of(<<"natives">>, "JsDataFrame", {"horizontalConcat"})
  @@ Of(<<"natives">>, "JsExpr", {"asStruct", "concatLst"})
  @@ Of(<<"value">>, "JsExpr", {"col"})
  @@ Of(<<"expr", "expr">>, "JsExpr", {"cov"})
  @@ Of(<<"natives", "list">>, "JsExpr", {"argsortBy"})
  @@ Of(<<"natives", "value">>, "JsExpr", {"concatStr"})
  @@ Of(<<"value", "JsonScanOptions">>, "JsLazyFrame", {"scanJson"})
  @@ Of(<<"value", "ReadAvroOptions">>, "JsDataFrame", {"readAvro"})
  @@ Of(<<"value", "ReadCsvOptions">>, "JsDataFrame", {"readCsv"})
  @@ Of(<<"value", "ReadIpcOptions">>, "JsDataFrame", {"readIpc"})
  @@ Of(<<"value", "ReadJsonOptions">>, "JsDataFrame", {"readJson", "readJsonLines"})
  @@ Of(<<"value", "ScanCsvOptions">>, "JsLazyFrame", {"scanCsv"})
  @@ Of(<<"value", "ScanIPCOptions">>, "JsLazyFrame", {"scanIpc"})
  @@ Of(<<"expr", "expr", "value?">>, "JsExpr", {"arange", "pearsonCorr"})
  @@ Of(<<"list", "value?", "value?">>, "JsDataFrame", {"fromRows"})
  @@ Of(<<"value", "ReadParquetOptions", "value">>, "JsDataFrame", {"readParquet"})
  @@ Of(<<"value", "ScanParquetOptions", "value">>, "JsLazyFrame", {"scanParquet"})
  @@ Of(<<"expr", "expr", "value?", "value">>, "JsExpr", {"spearmanRankCorr"})
  @@ Of(<<"value", "any", "value", "value">>, "JsSeries", {"repeat"})

\* The functions named after an operation and a type, of the series itself, by the
\* dtypes that find them: the dtype of a Datetime or a List is an object, which
\* names no function.
LOCAL Numbers == {"Float32", "Float64", "Int8", "Int16", "Int32", "Int64", "UInt8", "UInt16",
                  "UInt32", "UInt64"}
TypedNatives ==
  [m \in {"seriesAdd", "seriesSub", "seriesMul", "seriesDiv", "seriesRem"} |-> Numbers]
  @@ [m \in {"seriesEq", "seriesNeq", "seriesGt", "seriesGtEq", "seriesLt", "seriesLtEq",
             "seriesSetWithMask"} |-> Numbers \cup {"Utf8"}]
  @@ [seriesGet |-> Numbers \cup {"Utf8", "Date"}]
-----------------------------------------------------------------------------
\* Objects of options: the fields that must be there, and those that are used.

LOCAL Fields(required, used) == [required |-> required, used |-> required \cup used]
LOCAL Unused(names, fields) == [fields EXCEPT !.used = @ \ names]

CsvStructs ==
  [ReadCsvOptions |->
     Unused({"skipRowsAfterHeader"},
            Fields({"chunkSize", "hasHeader", "ignoreErrors", "skipRows", "sep", "rechunk",
                    "encoding", "lowMemory", "parseDates", "skipRowsAfterHeader"},
                   {"inferSchemaLength", "nRows", "columns", "nThreads", "dtypes", "nullValues",
                    "commentChar", "quoteChar", "rowCount"})),
   \* parse_dates stands in for ignore_errors, skip_rows for skip_rows_after_header
   ScanCsvOptions |->
     Unused({"ignoreErrors", "skipRowsAfterHeader"},
            Fields({"ignoreErrors", "sep", "encoding", "skipRowsAfterHeader"},
                   {"inferSchemaLength", "cache", "hasHeader", "nRows", "skipRows", "rechunk",
                    "lowMemory", "commentChar", "quoteChar", "parseDates", "rowCount"})),
   WriteCsvOptions |-> Fields({}, {"hasHeader", "sep", "quote"})]

OtherStructs ==
  [ReadJsonOptions    |-> Fields({}, {"inferSchemaLength", "batchSize", "format"}),
   WriteJsonOptions   |-> Fields({"format"}, {}),
   JsonScanOptions    |-> Fields({"batchSize"}, {"numRows", "lowMemory", "rowCount"}),
   ReadParquetOptions |-> Fields({}, {"columns", "projection", "nRows", "rowCount"}),
   ReadIpcOptions     |-> Fields({}, {"columns", "projection", "nRows", "rowCount"}),
   ReadAvroOptions    |-> Fields({}, {"columns", "projection", "nRows"}),
   ScanParquetOptions |-> Fields({}, {"nRows", "cache", "rechunk", "rowCount", "lowMemory"}),
   ScanIPCOptions     |-> Fields({}, {"nRows", "cache", "rechunk", "rowCount", "memmap"}),
   JsRollingOptions   |-> Fields({"windowSize", "minPeriods", "center"}, {"weights"})]

Structs == CsvStructs @@ OtherStructs

NativesOf ==
  [JsExpr |-> JsExprNatives, JsSeries |-> JsSeriesNatives, JsDataFrame |-> JsDataFrameNatives,
   JsLazyFrame |-> JsLazyFrameNatives, JsLazyGroupBy |-> JsLazyGroupByNatives,
   When |-> WhenNatives, WhenThen |-> WhenThenNatives, WhenThenThen |-> WhenThenThenNatives,
   pli |-> PliNatives]
=============================================================================
