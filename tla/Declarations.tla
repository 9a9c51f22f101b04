----------------------------- MODULE Declarations -----------------------------
(***************************************************************************)
(* The calls that shared_traits.ts and the interface Expr declare.  An     *)
(* argument whose type is a choice (a string or an expression, "hex" or    *)
(* "base64") has a name for each kind.                                     *)
(***************************************************************************)
LOCAL INSTANCE Methods

ArithmeticTrait ==
  [m \in {"add", "sub", "div", "mul", "rem", "plus", "minus", "divideBy", "multiplyBy",
          "modulo"} |-> Plainly({"other"}, {})]

ComparisonTrait ==
  [m \in {"eq", "equals", "gtEq", "greaterThanEquals", "gt", "greaterThan", "ltEq",
          "lessThanEquals", "lt", "lessThan", "neq", "notEquals"} |-> Plainly({"other"}, {})]

CumulativeTrait ==
  [m \in {"cumCount", "cumMax", "cumMin", "cumProd", "cumSum"} |->
     Plainly({}, {"reverse"}) \cup ByOptions({"reverse"}, {})]

RollingTrait ==
  [m \in {"rollingMax", "rollingMean", "rollingMin", "rollingStd", "rollingSum", "rollingVar",
          "rollingMedian"} |-> EitherWay({"windowSize"}, {"weights", "minPeriods", "center"})]

RollingQuantileTrait ==
  [rollingQuantile |->
     Plainly({"quantile"}, {"interpolation", "windowSize", "weights", "minPeriods", "center"})
     \cup ByOptions({"quantile", "windowSize"},
                    {"interpolation", "weights", "minPeriods", "center"}),
   rollingSkew |-> EitherWay({"windowSize"}, {"bias"}),
   round       |-> EitherWay({"decimals"}, {}),
   clip        |-> EitherWay({"min", "max"}, {})]
  @@ Bare({"floor", "ceil"})

SampleTrait ==
  [sample |-> Plainly({}, {"n", "frac", "withReplacement", "seed"})
              \cup ByOptions({"n"}, {"withReplacement", "seed"})
              \cup ByOptions({"frac"}, {"withReplacement", "seed"})]

ListTrait ==
  Bare({"argMin", "argMax", "first"})
  @@ [concat   |-> Plainly({"other"}, {}) \cup Plainly({"others"}, {})
                  \cup Plainly({"values"}, {}),
      contains |-> Plainly({"item"}, {}),
      diff     |-> Plainly({}, {"n", "nullBehavior"}),
      get      |-> Plainly({"index"}, {}),
      eval     |-> Plainly({"expr"}, {"parallel"}),
      head     |-> Plainly({"n"}, {})]

ListRestTrait ==
  Bare({"last", "lengths", "max", "mean", "min", "reverse", "sum", "unique"})
  @@ [tail  |-> Plainly({"n"}, {}),
      join  |-> Plainly({}, {"separator"}),
      shift |-> Plainly({"periods"}, {}),
      slice |-> Plainly({"offset", "length"}, {}),
      sort  |-> Plainly({}, {"reverse"}) \cup ByOptions({"reverse"}, {})]

DateTrait ==
  Bare({"day", "hour", "minute", "month", "nanosecond", "ordinalDay", "second", "timestamp",
        "week", "weekday", "year"})
  @@ [strftime |-> Plainly({"fmt"}, {})]

StringTrait ==
  Bare({"lengths", "lstrip"})
  @@ [concat        |-> Plainly({"delimiter"}, {}),
      contains      |-> Plainly({"pat"}, {}),
      decode        |-> EitherWay({"hex"}, {"strict"}) \cup EitherWay({"base64"}, {"strict"}),
      encode        |-> Plainly({"hex"}, {}) \cup Plainly({"base64"}, {}),
      extract       |-> Plainly({"pat", "groupIndex"}, {}),
      jsonPathMatch |-> Plainly({"pat"}, {}),
      replace       |-> Plainly({"pat", "val"}, {})]

StringRestTrait ==
  Bare({"rstrip", "strip", "toLowerCase", "toUpperCase"})
  @@ [replaceAll |-> Plainly({"pat", "val"}, {}),
      slice      |-> Plainly({"start"}, {"length"}),
      split      |-> Plainly({"by"}, {"inclusive"}),
      strptime   |-> Plainly({"date"}, {"fmt"}) \cup Plainly({"datetime"}, {"fmt"})]

\* Declared by the StringNamespace interfaces of both kinds.
StringPadding ==
  [padStart |-> Plainly({"length", "fillChar"}, {}),
   padEnd   |-> Plainly({"length", "fillChar"}, {}),
   zFill    |-> Plainly({"length"}, {})]

SerializeTrait == [serialize |-> Plainly({"format"}, {})]

GroupByRollingTrait ==
  [groupByRolling |-> ByOptions({"indexColumn", "period"}, {"by", "offset", "closed"})
                      \cup ByOptions({"indexColumn", "period", "byExprs"}, {"offset", "closed"})]

GroupByDynamicTrait ==
  [groupByDynamic |->
     ByOptions({"indexColumn", "every"},
               {"period", "offset", "truncate", "includeBoundaries", "closed", "by"})
     \cup ByOptions({"indexColumn", "every", "byExprs"},
                    {"period", "offset", "truncate", "includeBoundaries", "closed"})]

Strings == StringTrait @@ StringRestTrait @@ StringPadding
Lists   == ListTrait @@ ListRestTrait

ExprStructs == [field |-> Plainly({"name"}, {}), renameFields |-> Plainly({"names"}, {})]
SeriesStructs == ExprStructs @@ Bare({"fields", "toFrame"})
-----------------------------------------------------------------------------
ExprDeclaredFirst ==
  Bare({"date", "str", "lst", "struct", "toString", "abs", "aggGroups", "argMax", "argMin",
        "argUnique", "backwardFill", "count"})
  @@ [toJSON  |-> Plainly({}, {"key"}),      \* the key JSON.stringify passes
      alias   |-> Plainly({"name"}, {}),
      as      |-> Plainly({"name"}, {}),
      and     |-> Plainly({"other"}, {}),
      argSort |-> Plainly({}, {"reverse"}) \cup ByOptions({"reverse"}, {}),
      cast    |-> Plainly({"dtype"}, {"strict"}),
      diff    |-> EitherWay({"n", "nullBehavior"}, {}),
      dot     |-> Plainly({"other"}, {})]

ExprDeclaredThen ==
  Bare({"explode", "first", "flatten", "forwardFill", "inner", "interpolate", "isDuplicated",
        "isFinite", "isFirst", "isInfinite", "isNan", "isNotNan", "isNotNull", "isNull",
        "isUnique"})
  @@ [exclude        |-> Plainly({"columns"}, {}),
      extend         |-> EitherWay({"value", "n"}, {}),
      extendConstant |-> EitherWay({"value", "n"}, {}),
      fillNan        |-> Plainly({"other"}, {}),
      fillNull       |-> Plainly({"other"}, {}) \cup Plainly({"strategy"}, {}),
      filter         |-> Plainly({"predicate"}, {}),
      hash           |-> EitherWay({}, {"k0", "k1", "k2", "k3"}),
      head           |-> Plainly({}, {"length"}) \cup ByOptions({"length"}, {}),
      isIn           |-> Plainly({"other"}, {})]

ExprDeclaredNext ==
  Bare({"keepName", "last", "list", "lowerBound", "max", "mean", "median", "min", "mode",
        "not", "nUnique"})
  @@ [kurtosis |-> Plainly({}, {}) \cup Plainly({"fisher"}, {"bias"})
                   \cup ByOptions({}, {"fisher", "bias"}),
      or       |-> Plainly({"other"}, {}),
      over     |-> Plainly({"by"}, {}),
      pow      |-> EitherWay({"exponent"}, {})]

ExprDeclaredLast ==
  Bare({"reverse", "std", "sum", "upperBound", "var"})
  @@ [prefix       |-> Plainly({"prefix"}, {}),
      quantile     |-> Plainly({"quantile"}, {}),
      rank         |-> Plainly({}, {"method"}) \cup ByOptions({"method"}, {}),
      reinterpret  |-> Plainly({}, {"signed"}) \cup ByOptions({"signed"}, {}),
      repeatBy     |-> Plainly({"by"}, {}),
      shift        |-> Plainly({}, {"periods"}) \cup ByOptions({"periods"}, {}),
      shiftAndFill |-> EitherWay({"periods", "fillValue"}, {}),
      skew         |-> Plainly({}, {"bias"}) \cup ByOptions({"bias"}, {}),
      slice        |-> EitherWay({"offset", "length"}, {})
                       \cup Plainly({"offsetExpr", "lengthExpr"}, {}),
      sort         |-> EitherWay({}, {"reverse", "nullsLast"}),
      sortBy       |-> EitherWay({"by"}, {"reverse"}),
      suffix       |-> Plainly({"suffix"}, {}),
      tail         |-> Plainly({}, {"length"}) \cup ByOptions({"length"}, {}),
      take         |-> EitherWay({"index"}, {}) \cup Plainly({"indices"}, {}),
      takeEvery    |-> Plainly({"n"}, {}),
      unique       |-> Plainly({}, {"maintainOrder"}) \cup ByOptions({"maintainOrder"}, {}),
      where        |-> Plainly({"predicate"}, {})]

ExprDeclared ==
  RollingTrait @@ RollingQuantileTrait @@ ArithmeticTrait @@ ComparisonTrait @@ CumulativeTrait
  @@ SampleTrait @@ SerializeTrait
  @@ ExprDeclaredFirst @@ ExprDeclaredThen @@ ExprDeclaredNext @@ ExprDeclaredLast
=============================================================================
