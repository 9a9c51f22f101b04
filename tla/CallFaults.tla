------------------------------ MODULE CallFaults ------------------------------
(***************************************************************************)
(* What a call of the interfaces keeps, and the calls that do not.  Every  *)
(* exception is listed, and each property also fails when a listed call no *)
(* longer is one.                                                          *)
(***************************************************************************)
EXTENDS Calls

Ended == ~Running
Way   == Head(ways)

Made(classes, names, form) ==
  request.class \in classes /\ Way.name \in names /\ Way.form = form
Calling(classes, names) == request.class \in classes /\ Way.name \in names

Has(names)   == names \subseteq request.given
Lacks(names) == names \cap request.given = {}

Columnar == {"Expr", "Series"}
Sampled  == {"Expr", "Series", "DataFrame"}
Framed   == {"DataFrame", "LazyDataFrame"}
InLists  == {"ExprList", "SeriesList"}

Arithmetic  == {"add", "plus", "sub", "minus", "mul", "multiplyBy", "div", "divideBy", "rem",
                "modulo"}
Comparisons == {"eq", "equals", "neq", "notEquals", "gt", "greaterThan", "gtEq",
                "greaterThanEquals", "lt", "lessThan", "ltEq", "lessThanEquals"}
Windows == {"groupByRolling", "groupByDynamic"}
-----------------------------------------------------------------------------
\* Errors that the methods raise on purpose: no column to join on, no size of a
\* sample, a dtype that the operation is not for.

Demanding ==
  \/ Calling(Framed, {"joinAsof"}) /\ Lacks({"on"}) /\ Has({"leftOn"}) # Has({"rightOn"})
  \/ Calling(Sampled, {"sample"}) /\ Lacks({"n", "frac"}) /\ ~Lacks({"withReplacement", "seed"})
  \/ Calling({"Expr"}, {"sample"}) /\ Lacks({"n", "frac"})

Unsupported ==
  \/ Calling({"Series"}, {"describe"}) /\ dtype = "Datetime"
  \/ Calling({"Series"}, {"isFinite", "isInfinite"}) /\ dtype # "Float64"
  \/ Calling({"Series"}, {"reinterpret"}) /\ dtype # "UInt64"
  \/ Calling({"Series"}, {"round"}) /\ dtype \in {"Utf8", "Bool", "Datetime"}

\* A TypeError of JavaScript's: a field of undefined is read.
Throwing ==
  \/ Made({"Expr", "Series"}, {"hash"}, "options") /\ Lacks({"k0"})
  \/ Made({"DataFrame"}, {"hashRows"}, "options") /\ Lacks({"k0"})
  \/ Made({"Expr"}, {"head"}, "plain") /\ Lacks({"length"})
  \/ Calling({"pl"}, {"head"}) /\ Has({"column"}) /\ Lacks({"n"})
  \/ Made({"Expr"}, {"take"}, "options")

\* "not yet implemented", say the methods themselves.
Unimplemented ==
  \/ Calling({"Expr"}, {"sample"}) /\ Has({"n"})
  \/ Calling(InLists, {"contains"})

\* The native function does not exist, for any dtype or for this one.
Absent ==
  \/ Calling({"Expr"}, {"unique"}) /\ Has({"maintainOrder"})
  \/ Calling(InLists, {"concat"}) /\ Has({"values"})
  \/ Calling({"GroupBy"}, {"pivot"})
  \/ Calling({"SeriesDateTime"}, {"timestamp"})
  \/ Calling({"Series"}, Arithmetic) /\ dtype \in {"Utf8", "Bool", "Datetime"}
  \/ Calling({"Series"}, Comparisons \cup {"get", "set"}) /\ dtype \in {"Bool", "Datetime"}

\* The native function does not take an argument as it is handed on.
Refused ==
  \/ Calling(Framed, {"joinAsof"}) /\ Lacks({"on", "leftOn", "rightOn"})
  \/ Calling(Framed, Windows) /\ Has({"byExprs"})
  \/ Calling({"DataFrame"}, {"transpose"}) /\ Lacks({"headerName"})
  \/ Calling({"LazyDataFrame"}, {"groupBy"}) /\ Has({"options"})
  \/ Made({"LazyDataFrame"}, {"distinct"}, "options")
  \/ Made({"LazyDataFrame"}, {"distinct"}, "plain") /\ ~Has({"keep", "maintainOrder"})
  \/ Made({"LazyDataFrame", "Expr"}, {"shift"}, "options")
  \/ Made({"Expr"}, {"shift"}, "plain") /\ Lacks({"periods"})
  \/ Made({"Expr"}, {"tail"}, "options")
  \/ Made(Columnar, {"rollingQuantile"}, "plain") /\ ~Has({"windowSize", "minPeriods", "center"})
  \/ Calling(InLists, {"head", "slice", "tail"})
  \/ Made({"Series"}, {"cumMax", "cumMin", "cumProd", "cumSum", "filter"}, "options")
  \/ Calling({"Series"}, {"slice"}) /\ Lacks({"length"})

\* What is wrapped is not the native object of the class; or the method calls itself.
Hollow ==
  \/ Calling({"DataFrame"}, {"extend"})
  \/ Calling({"DataFrame"}, {"hstack"}) /\ Has({"inPlace"})
  \/ Calling({"Series"}, {"dot"})

Endless == Calling({"Series"}, {"shrinkToFit"}) /\ Lacks({"inPlace"})

Expected ==
  CASE Demanding -> "demands" [] Unsupported -> "unsupported" [] Throwing -> "throws"
    [] Unimplemented -> "unimplemented"
    [] Absent -> "missing"    [] Refused -> "refused"         [] Hollow -> "hollow"
    [] Endless -> "overflow"  [] OTHER -> "returned"
-----------------------------------------------------------------------------
\* An argument that another argument makes superfluous.
Overridden ==
  LET if(condition, names) == IF condition THEN names ELSE {} IN
  if(Calling(Framed, {"joinAsof"}) /\ Has({"on"}), {"leftOn", "rightOn"})
  \cup if(Calling(Framed, {"joinAsof"}) /\ Has({"by"}), {"byLeft", "byRight"})
  \cup if(Calling(Sampled, {"sample"}) /\ Has({"n"}), {"frac"})
  \cup if(Calling({"LazyDataFrame"}, {"fetch", "fetchSync"}) /\ Has({"noOptimization"}),
          {"predicatePushdown", "projectionPushdown"})

Unheeded ==
  CASE Calling({"DataFrame"}, {"distinct"}) -> {"keep"}
    [] Made(Sampled, {"sample"}, "options") -> {"seed"}
    [] Made({"DataFrame"}, {"shrinkToFit"}, "options") -> {"inPlace"}
    [] Calling({"Expr"}, {"slice"}) -> {"lengthExpr"}
    [] Calling({"ExprString", "SeriesString"}, {"split"}) -> {"inclusive"}
    [] Calling({"LazyDataFrame"}, {"collect", "collectSync", "describeOptimizedPlan"}) ->
         request.given
    [] Calling({"LazyDataFrame"}, {"fetch", "fetchSync"}) -> {"simplifyExpression"}
    [] Calling({"LazyDataFrame"}, {"toJSON"}) -> {"key"}
    [] Calling({"Series"}, {"interpolate"}) -> {"method"}
    [] Made({"Series"}, {"unique"}, "options") -> {"maintainOrder"}
    [] Calling({"pl"}, {"concat"}) /\ Has({"rechunk"}) -> {"horizontal"}
    [] Calling({"pl"}, {"readCSV"}) ->
         {"batchSize", "endRows", "numThreads", "projection", "quotChar", "skipRowsAfterHeader",
          "startRows"}
    [] Calling({"pl"}, {"scanCSV"}) -> {"ignoreErrors", "nullValues", "skipRowsAfterHeader"}
    [] Calling({"pl"}, {"scanJson"}) -> {"inferSchemaLength", "nThreads", "skipRows"}
    [] Calling({"pl"}, {"scanParquet"}) -> {"cache", "columns", "rechunk"}
    [] OTHER -> {}

\* Ways of one call that make different native calls, or end differently.
Divergent ==
  \/ Calling(Sampled, {"sample"}) /\ Has({"seed"}) /\ ~Lacks({"n", "frac"})
     /\ (request.class = "Expr" => Lacks({"n"}))
  \/ Calling(Columnar \cup {"DataFrame"}, {"hash", "hashRows"}) /\ Lacks({"k0"})
  \/ Calling(Columnar, {"rollingQuantile"}) /\ ~Has({"windowSize", "minPeriods", "center"})
  \/ Calling({"Expr"}, {"shift", "tail", "take"})
  \/ Calling({"LazyDataFrame"}, {"shift"})
  \/ Calling({"Series"}, {"cumMax", "cumMin", "cumProd", "cumSum", "filter", "head"})
  \/ Calling({"ExprString", "SeriesString"}, {"decode"}) /\ Lacks({"strict"})
  \/ request.class = "DataFrame" /\ request.method \in {"unique", "distinct"} /\ Has({"subset"})
  \/ request.class = "DataFrame" /\ request.method = "distinct" /\ Has({"keep"})
  \/ request.class = "LazyDataFrame" /\ request.method = "distinct"
-----------------------------------------------------------------------------
TypeOK ==
  /\ dtype \in Dtypes \cup {"Float64"}
  /\ ways # <<>>
  /\ Len(stack) <= MaxDepth
  /\ seen \subseteq request.given
  /\ written \subseteq request.given \cup {"predicatePushdown", "projectionPushdown"}
  /\ \A i \in DOMAIN earlier : earlier[i][1] # "running"
  /\ outcome \in {"running", "returned", "demands", "unsupported", "throws", "unimplemented",
                  "missing", "refused", "hollow", "overflow", "unhandled"}

\* A call that its interface declares returns, or is refused with an error of its
\* own where an argument is missing or the dtype is not one it is for; the calls
\* that end otherwise, the two methods that are not implemented among them, are the
\* ones listed, and they end as listed.
DeclaredCallsReturn == Ended => outcome = Expected

\* An argument that the caller gave reaches a native function, or decides what is
\* called, unless another argument makes it superfluous or it is listed.
ArgumentsCount ==
  outcome = "returned" => request.given \ seen = request.given \cap (Overridden \cup Unheeded)

\* One call made in two ways, with plain arguments or an options object, under one
\* name or the other, ends alike and makes the same native calls.
WaysAgree ==
  (Ended /\ Len(ways) = 1 /\ earlier # <<>>) =>
    ((\A i \in DOMAIN earlier : earlier[i] = <<outcome, natives>>) <=> ~Divergent)

\* An options object belongs to the caller: only the calls listed write into it.
OptionsAreKept ==
  written # {} =>
    \/ /\ Calling({"LazyDataFrame"}, {"fetch", "fetchSync"}) /\ Has({"noOptimization"})
       /\ written = {"predicatePushdown", "projectionPushdown"}
    \/ Made(Framed, {"unique"}, "options") /\ Has({"subset"}) /\ written = {"subset"}
=============================================================================
