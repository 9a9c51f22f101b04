--------------------------- MODULE SeriesFidelity ---------------------------
(***************************************************************************)
(* What a program may rely on when it puts values into a Series and reads  *)
(* them back, and, by name, every case where the code does otherwise.      *)
(***************************************************************************)
EXTENDS SeriesValues

Integers32 == {"Int8", "Int16", "Int32", "UInt8", "UInt16", "UInt32"}
OfDates    == {"Date", "Datetime"}
Items      == given.items
Variant    == series.dtype.variant
IsScalar   == Variant \notin {"List", "Struct"}

\* The elements that a column of a dtype can hold.
RECURSIVE Holds(_, _)
Holds(dtype, element) ==
  \/ element = Null
  \/ CASE dtype.variant \in DOMAIN Width -> element.is = "int" /\ Fits(dtype.variant, element.n)
       [] dtype.variant = "Float64" -> IsNumber(element)
       [] dtype.variant = "Float32" -> IsNumber(element) /\ Rounded(FloatBits, element.n) = element.n
       [] dtype.variant = "Bool"    -> element.is = "boolean"
       [] dtype.variant \in {"Utf8", "Categorical"} -> element.is = "string"
       [] dtype.variant = "List"    ->
            element.is = "list" /\ \A k \in DOMAIN element.items :
              Holds(Inner(dtype), element.items[k])
       [] dtype.variant = "Struct"  ->
            element.is = "struct" /\ Len(element.items) = Len(dtype.fields)
            /\ \A k \in DOMAIN element.items : Holds(dtype.fields[k].dtype, element.items[k])
       [] OTHER -> FALSE

\* Every element of a Series is one that its dtype holds.
TypeOK ==
  /\ series.is \in {"series", "throws", "panics"}
  /\ \A k \in DOMAIN series.elements : Holds(series.dtype, series.elements[k])
  /\ rebuilds \in 0 .. MaxRebuilds

\* A Series has an element for every value.  An object among dates has none, and a
\* null in an array of dates is an element more.
KeepsLength ==
  IsBuilt(series) =>
    LET strays == Len(SelectSeq(Items, LAMBDA v : ~IsNull(v) /\ ~IsDate(v)))
        nulls  == FlattenSeq([k \in DOMAIN Items |-> SelectSeq(Items[k].items, IsNull)])
    IN  Len(series.elements) =
          CASE IsDate(FirstNonNull(Items)) -> Len(Items) - strays
            [] series.dtype = ListOf(Datetime("ms", "")) -> Len(Items) + Len(nulls)
            [] OTHER -> Len(Items)

\* "Returns a new Series from a set of elements" (series/index.ts:1771): a Series of
\* numbers, whichever way it is made, has an element for each.
HasItsElements ==
  (/\ IsBuilt(series) /\ asked = NoType
   /\ \A k \in DOMAIN Items : Items[k].is = "number")
    => Len(series.elements) = Len(Items)

\* The kinds of value that a column is made of.
Kinds ==
  CASE IsDate(FirstNonNull(Items)) -> {"date", "invalid date"}
    [] Variant \in {"Bool"}        -> {"boolean"}
    [] Variant \in {"Utf8", "Categorical"} -> {"string"}
    [] Variant = "UInt64" \/ (Variant = "Int64" /\ IsTypedArray(given)) -> {"bigint"}
    [] OTHER                       -> {"number", "NaN"}

\* The element that stands for a value, before it is known whether it fits.
Exactly(v) ==
  CASE v.is = "date" /\ Variant = "Date" /\ v.n % Day = 0 -> Integer(v.n \div Day)
    [] v.is = "date" /\ Variant = "Datetime" -> Integer(v.n * PerMs[series.dtype.unit])
    [] v.is = "date" /\ Variant \in DOMAIN Width \ {"Date"} -> Integer(v.n)
    [] v.is = "bigint" -> Integer(v.n)
    [] v.is = "number" /\ Variant \in DOMAIN Width /\ v.n % 2 = 0 -> Integer(v.n \div 2)
    [] OTHER -> v

\* A value of the right kind is kept if the dtype can hold it, and null if only the
\* narrow dtype cannot; a value of another kind is null.  Numbers beyond 32 bits, and
\* those with a fraction, wrap around and are cut; a UInt64 loses its sign.
KeepsValues ==
  IsBuilt(series) /\ IsScalar /\ Len(series.elements) = Len(Items) =>
    \A k \in DOMAIN Items :
      LET v == Items[k]
          e == series.elements[k]
      IN  IF v.is \notin Kinds THEN e = Null
          ELSE IF Holds(series.dtype, Exactly(v)) THEN e = Exactly(v)
          ELSE (/\ Variant \in Integers32 /\ Exactly(v).is = "int"
                /\ Fits(ColumnOf[Variant], Exactly(v).n)) => e = Null

\* A Series has the dtype that was asked for.  An array of arrays, and a typed array,
\* has its own; an array of dates is cast to some dtypes only; the zone of a Datetime
\* and the fields of a Struct are not looked at.
DtypeAsAsked ==
  IsBuilt(series) /\ asked # NoType =>
    \/ Equals(asked, series.dtype) = "true"
    \/ IsTypedArray(given) \/ Variant = "List"
    \/ (IsDate(FirstNonNull(Items)) /\ asked.variant \notin CastTo)
    \/ (asked.variant = "Datetime" /\ asked.zone # "")
    \/ (asked.variant = "Struct" /\ Variant = "Struct")

\* get(i) and get(i - length) are what toArray and getIndex have at i, but for a UInt64
\* that is a number, a Date that is its days, and the integers that do not fit the type
\* they are cast to: an Int64 beyond 32 bits, a UInt64 above the largest Int64.
AccessAgrees ==
  IsBuilt(series) /\ Variant \in Getters =>
    \A k \in DOMAIN series.elements :
      LET v   == Shown(series.elements[k], series.dtype)
          got == Get(series, k - 1)
      IN  /\ got = Get(series, k - 1 - Len(series.elements))
          /\ CASE v = Null          -> got = v
               [] v.is = "bigint"   ->
                    (got = Number(Rounded(DoubleBits, 2 * v.n))) <=> Fits("Int64", v.n)
               [] v.is = "date"     -> got = Number(2 * v.n)
               [] Variant = "Int64" -> (got = v) <=> Fits("Int32", series.elements[k].n)
               [] OTHER             -> got = v

\* A Series made of what was read from one is that Series.
Survives ==
  LET e == series.elements IN
  CASE shown.is # "array"  -> TRUE
    [] Variant = "Int64"   -> \A k \in DOMAIN e : Rounded(DoubleBits, 2 * e[k].n) = 2 * e[k].n
    [] Variant = "Date"    -> \A k \in DOMAIN e : e[k].n = 0
    [] Variant = "Datetime" ->
         \A k \in DOMAIN e : e[k].n * (PerMs[series.dtype.unit] - 1) = 0
                             /\ Rounded(DoubleBits, e[k].n) = e[k].n
    [] Variant = "List"    ->
         /\ \E k \in DOMAIN e : e[k] # Null
         /\ Inner(series.dtype) = JsTypeToPolarsType(FirstNonNull(shown.items))
    [] OTHER -> TRUE

SurvivesRebuild ==
  [][(shown # Undefined /\ shown' = Undefined /\ Survives) => series' = series]_vars
=============================================================================
