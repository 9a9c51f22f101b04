---------------------------- MODULE SeriesValues ----------------------------
(***************************************************************************)
(* What becomes of values on their way into a Series and back:             *)
(* arrayToJsSeries of internals/construction.ts, the constructors of       *)
(* src/series.rs and src/list_construction.rs, from_rows, and toArray,     *)
(* toTypedArray, get and getIndex.                                         *)
(*                                                                         *)
(* The program makes a Series of an array, reads it, and makes another of  *)
(* what it has read.  cast, and what a list or a frame does with values of *)
(* its own type, are the polars library's.                                 *)
(***************************************************************************)
EXTENDS DataTypes

CONSTANTS
  Inputs,       (* the arrays that the program starts from, and the dtypes *)
                (* that it asks for, NoType for none                       *)
  Makers,       (* how it makes the first: "Series", or "from" with no name *)
  MaxRebuilds   (* times that a Series is made of what was read            *)

VARIABLES
  given,        (* the array that the Series was made of                   *)
  asked,        (* and the dtype                                           *)
  series,       (* how that ended, and the native Series                   *)
  shown,        (* the array read from the Series, Undefined before        *)
  rebuilds      (* times the Series was made anew                          *)

vars == <<given, asked, series, shown, rebuilds>>

Built(dtype, elements) == [is |-> "series", dtype |-> dtype, elements |-> elements]
Throws == [is |-> "throws", dtype |-> NoType, elements |-> <<>>]
Panics == [is |-> "panics", dtype |-> NoType, elements |-> <<>>]
IsBuilt(s) == s.is = "series"

Day   == 4                                \* milliseconds of a day
PerMs == [ms |-> 1, us |-> 3, ns |-> 9]   \* units of a Datetime in one
-----------------------------------------------------------------------------
(* Arrays of scalars.                                                      *)

\* A typed array is copied as it is.
FromTypedArray(array) ==
  LET type == ArrayTypes[array.is]
      copy(v) == IF v.is = "bigint" THEN Integer(v.n)
                 ELSE IF type \in DOMAIN Width THEN Integer(Truncated(v)) ELSE v
  IN  Built(Type(type), [k \in DOMAIN array.items |-> copy(array.items[k])])

\* POLARS_TYPE_TO_CONSTRUCTOR, but for List: the column that is built, to be cast.
ColumnOf ==
  [Float32 |-> "Float64", Float64 |-> "Float64", Int8 |-> "Int32", Int16 |-> "Int32",
   Int32 |-> "Int32", Int64 |-> "Int64", UInt8 |-> "UInt32", UInt16 |-> "UInt32",
   UInt32 |-> "UInt32", UInt64 |-> "UInt64", Date |-> "Int64", Datetime |-> "Int64",
   Bool |-> "Bool", Utf8 |-> "Utf8", Categorical |-> "Utf8"]

\* Fault: the integers of a column are read with napi_get_value_int32.
ElementNarrow(column, v) ==
  IF column \in {"Int32", "UInt32", "Int64"} /\ IsNumber(v)
  THEN Integer(Wrapped("Int32", Truncated(v)))
  ELSE IF column = "Float64" /\ IsNumber(v) THEN v
  ELSE IF column = "UInt64" /\ v.is = "bigint" THEN Integer(Wrapped("UInt64", Magnitude(v.n)))
  ELSE IF <<column, v.is>> \in {<<"Bool", "boolean">>, <<"Utf8", "string">>} THEN v
  ELSE Null

\* from_napi_value of the columns: a value of another kind is null, and only a
\* bigint, without its sign, makes a UInt64.
Element(column, v) ==
  IF column \in {"Int32", "UInt32", "Int64"} /\ IsNumber(v)
  THEN Integer(Wrapped(column, Truncated(v)))
  ELSE IF column = "Float64" /\ IsNumber(v) THEN v
  ELSE IF column = "UInt64" /\ v.is = "bigint" THEN Integer(Wrapped("UInt64", Magnitude(v.n)))
  ELSE IF <<column, v.is>> \in {<<"Bool", "boolean">>, <<"Utf8", "string">>} THEN v
  ELSE Null

Column(variant, values) ==
  Built(Type(ColumnOf[variant]),
        [k \in DOMAIN values |-> Element(ColumnOf[variant], values[k])])

\* Fault: an element that is null is left out of a column of dates.
NewOptDateDense(values) ==
  IF \E k \in DOMAIN values :
       values[k].is \in {"number", "NaN", "bigint", "string", "boolean"}
  THEN Throws
  ELSE LET dates == SelectSeq(values, IsDate)
       IN  Built(Datetime("ms", ""), [k \in DOMAIN dates |-> Integer(dates[k].n)])

\* newOptDate: an object that is no date is passed over, an invalid date is 0.
NewOptDate(values) ==
  IF \E k \in DOMAIN values :
       values[k].is \in {"number", "NaN", "bigint", "string", "boolean"}
  THEN Throws
  ELSE LET kept == SelectSeq(values, LAMBDA v : IsNull(v) \/ IsDate(v))
       IN  Built(Datetime("ms", ""),
                 [k \in DOMAIN kept |-> IF IsNull(kept[k]) THEN Null ELSE Integer(kept[k].n)])

\* Fault: what does not fit is kept as it is.
CastUnchecked(element, from, to) ==
  CASE element = Null -> Null
    [] to.variant = "Float32" /\ element.is # "int" ->
         [element EXCEPT !.n = Rounded(FloatBits, element.n)]
    [] OTHER -> element

\* The library's cast, not strict: what does not fit is null.
Cast(element, from, to) ==
  CASE element = Null -> Null
    [] to.variant = "Categorical" -> element
    [] to.variant = "Float32" ->
         IF element.is = "int" THEN Number(Rounded(FloatBits, 2 * element.n))
         ELSE [element EXCEPT !.n = Rounded(FloatBits, element.n)]
    [] from.variant = "Datetime" /\ to.variant = "Date" -> Integer(element.n \div Day)
    [] from.variant = "Datetime" /\ to.variant = "Datetime" ->
         Integer(Wrapped("Datetime", element.n * PerMs[to.unit]))
    [] OTHER -> IF Fits(to.variant, element.n) THEN element ELSE Null

\* Fault: a type is missing in the list.
CastToForgetful ==
  {"Datetime", "Date", "Categorical", "Int8", "Int16", "UInt8", "Float32"}

\* The dtypes that a column is cast to after it is built.
CastTo ==
  {"Datetime", "Date", "Categorical", "Int8", "Int16", "UInt8", "UInt16", "Float32"}

Recast(built, dtype) ==
  IF ~IsBuilt(built) \/ dtype.variant \notin CastTo THEN built
  ELSE IF dtype.variant = "Categorical" /\ built.dtype.variant # "Utf8" THEN Throws
  ELSE Built(Native(dtype), [k \in DOMAIN built.elements |->
         Cast(built.elements[k], built.dtype, dtype)])
-----------------------------------------------------------------------------
(* Arrays of arrays: js_arr_to_list.                                       *)

ListItem(type, v) ==
  IF IsNull(v) THEN Null
  ELSE IF type = "Float32" /\ v.is = "number" THEN Number(Rounded(FloatBits, v.n))
  ELSE IF type \in {"Float32", "Float64"} THEN v
  ELSE IF type \in {"Bool", "Utf8"} THEN v
  ELSE IF type = "UInt64" THEN Integer(Wrapped(type, Magnitude(v.n)))
  ELSE IF type = "Datetime" THEN Integer(v.n)
  ELSE Integer(Wrapped(type, Truncated(v)))

\* The kinds that an item may have; null goes with any.
ItemKinds(type) ==
  CASE type = "UInt64"   -> {"bigint"}
    [] type = "Utf8"     -> {"string"}
    [] type = "Bool"     -> {"boolean"}
    [] type = "Datetime" -> {"date", "invalid date"}
    [] OTHER             -> {"number", "NaN"}

RowTaken(type, row) ==
  \/ row = Null
  \/ IsTypedArray(row) /\ type = ArrayTypes[row.is]
  \/ row.is = "array" /\ \A k \in DOMAIN row.items :
       \/ IF type = "Datetime" THEN row.items[k] = Null ELSE IsNull(row.items[k])
       \/ row.items[k].is \in ItemKinds(type)

\* The elements that a row becomes.  In an array of dates the null is appended
\* to the list, and not to the row that is being built.
RowElements(type, row) ==
  IF row = Null THEN <<Null>>
  ELSE IF IsTypedArray(row)
  THEN <<Value("list", 0, FromTypedArray(row).elements)>>
  ELSE LET items == [k \in DOMAIN row.items |-> ListItem(type, row.items[k])]
           nulls == SelectSeq(items, IsNull)
       IN  IF type = "Datetime"
           THEN Append(nulls, Value("list", 0, SelectSeq(items, LAMBDA v : ~IsNull(v))))
           ELSE <<Value("list", 0, items)>>

NewList(rows, inner) ==
  IF inner.variant = "Struct" THEN Panics
  ELSE IF \E k \in DOMAIN rows : ~RowTaken(inner.variant, rows[k]) THEN Throws
  ELSE Built(ListOf(Native(inner)),
             FlattenSeq([k \in DOMAIN rows |-> RowElements(inner.variant, rows[k])]))
-----------------------------------------------------------------------------
(* Arrays of objects: from_rows, with a schema of the first row.           *)

\* obj_to_pairs.  The items of an array are of one kind: coerce_data_type.
FieldType(v) ==
  CASE IsNull(v)       -> Type("Null")
    [] v.is = "object" -> StructOf(<<>>)
    [] v.is = "array"  -> ListOf(JsTypeToPolarsType(Head(v.items)))
    [] OTHER           -> JsTypeToPolarsType(v)

\* What the row's object has under a name; a row that is null has nothing.
Member(row, name) ==
  LET named == IF row.is # "object" THEN <<>>
               ELSE SelectSeq(row.items, LAMBDA field : field.name = name)
  IN  IF named = <<>> THEN Undefined ELSE named[1].value

\* Whether JavaScript takes the value for true, and the number that it makes of it.
Truthy(v) == v.is # "NaN" /\ (v.is \in {"number", "bigint", "boolean"} => v.n # 0)
RECURSIVE AsNumber(_)
AsNumber(v) ==
  CASE v.is = "boolean" -> Number(2 * v.n)
    [] v.is = "date"    -> Number(2 * v.n)
    [] v.is = "number"  -> v
    [] v = Array(<<>>)  -> Number(0)
    [] v.is = "array" /\ Len(v.items) = 1 -> AsNumber(v.items[1])
    [] OTHER            -> NotANumber

\* coerce_js_anyvalue.
Coerced(v, dtype) ==
  LET type == dtype.variant IN
  CASE IsNull(v)         -> Null
    [] type = "Utf8"     -> IF v.is = "string" THEN v ELSE Text(<<v>>)
    [] type = "Bool"     -> Boolean(IF Truthy(v) THEN 1 ELSE 0)
    [] type = "UInt64"   -> Integer(Wrapped(type, IF v.is = "bigint" THEN v.n
                                              ELSE Truncated(AsNumber(v))))
    [] type = "Float64"  -> AsNumber(v)
    [] type = "Datetime" ->
         IF v.is \in {"bigint", "date", "invalid date"} THEN Integer(v.n)
         ELSE IF IsNumber(v) THEN Integer(Truncated(v)) ELSE Null
    [] type = "List" /\ v.is = "array" -> Value("list", 0, v.items)
    [] OTHER             -> Null

FromRows(rows) ==
  LET first  == rows[1]
      fields == [k \in DOMAIN first.items |->
                   Field(first.items[k].name, FieldType(first.items[k].value))]
  IN  IF \/ first.is # "object"
         \/ \E k \in DOMAIN first.items : first.items[k].value = Array(<<>>)
         \/ \E r \in DOMAIN rows, k \in DOMAIN fields :
              fields[k].dtype.variant = "List"
              /\ Member(rows[r], fields[k].name).is \in {"date", "invalid date", "object"}
      THEN Panics
      ELSE IF \E r \in DOMAIN rows, k \in DOMAIN fields :
                fields[k].dtype.variant = "Float64"
                /\ Member(rows[r], fields[k].name).is = "bigint"
      THEN Throws
      ELSE Built(StructOf(fields),
             [r \in DOMAIN rows |-> Value("struct", 0,
               [k \in DOMAIN fields |->
                  Coerced(Member(rows[r], fields[k].name), fields[k].dtype)])])
-----------------------------------------------------------------------------
\* arrayToJsSeries.
ArrayToJsSeries(array, dtype) ==
  LET values == array.items
      first  == FirstNonNull(values)
      type   == IF dtype # NoType THEN dtype
                ELSE IF values = <<>> THEN Type("Float64") ELSE JsTypeToPolarsType(first)
  IN  CASE IsTypedArray(array)    -> FromTypedArray(array)
        [] first.is = "array" \/ IsTypedArray(first) ->
             NewList(values, JsTypeToPolarsType(first))
        [] type.variant = "Struct" -> FromRows(values)
        [] IsDate(first)           -> Recast(NewOptDate(values), type)
        [] type.variant \in DOMAIN ColumnOf ->
             Recast(Column(type.variant, values), type)
        [] type.variant = "List"   -> Panics
        [] OTHER                   -> Throws
-----------------------------------------------------------------------------
(* Reading.                                                                *)

\* Fault: every integer is read as a number.
ShownNumber(element, dtype) ==
  IF element = Null THEN Null
  ELSE IF element.is = "int" THEN Number(Rounded(DoubleBits, 2 * element.n))
  ELSE element

\* Wrap<AnyValue>.to_napi_value.
RECURSIVE Shown(_, _)
Shown(element, dtype) ==
  CASE element = Null -> Null
    [] dtype.variant = "UInt64" -> BigInt(element.n)
    [] dtype.variant \in {"Date", "Datetime"} -> Moment(Rounded(DoubleBits, element.n))
    [] element.is = "int"  -> Number(Rounded(DoubleBits, 2 * element.n))
    [] element.is = "list" ->
         Array([k \in DOMAIN element.items |-> Shown(element.items[k], Inner(dtype))])
    [] element.is = "struct" ->
         Object([k \in DOMAIN element.items |->
           [name |-> dtype.fields[k].name,
            value |-> Shown(element.items[k], dtype.fields[k].dtype)]])
    [] OTHER -> element

\* There is no value for an element of a Categorical.
Readable(s) ==
  IsBuilt(s) /\ (s.dtype.variant = "Categorical" => \A k \in DOMAIN s.elements : s.elements[k] = Null)

ToArray(s) == Array([k \in DOMAIN s.elements |-> Shown(s.elements[k], s.dtype)])

\* The dtypes that DTYPE_TO_FFINAME leads to a native getter for.
Getters ==
  {"Float32", "Float64", "UInt8", "UInt16", "UInt32", "UInt64", "Int8", "Int16", "Int32",
   "Int64", "Utf8", "Date"}

\* Fault: a negative index counts from the last element.
PositionFromLast(s, index) ==
  IF index < 0 THEN Len(s.elements) - 1 + index ELSE index

\* The position that an index stands for.
Position(s, index) == IF index < 0 THEN Len(s.elements) + index ELSE index

\* impl_get: an Int64 is cast to i32 and a UInt64 to i64, a Date is its days.
Get(s, index) ==
  LET at      == Position(s, index) + 1
      element == s.elements[at]
  IN  CASE at \notin DOMAIN s.elements -> Value("out of bounds", 0, <<>>)
        [] element = Null             -> Null
        [] s.dtype.variant = "Int64"  -> Number(2 * Wrapped("Int32", element.n))
        [] s.dtype.variant = "UInt64" ->
             Number(Rounded(DoubleBits, 2 * Wrapped("Int64", element.n)))
        [] s.dtype.variant = "Date"   -> Number(Rounded(DoubleBits, 2 * element.n))
        [] OTHER                      -> Shown(element, s.dtype)
-----------------------------------------------------------------------------
\* Series.from(values), which is also Series.of: an array is taken for the name.
From(array) ==
  ArrayToJsSeries(IF array.is = "array" THEN Array(<<>>) ELSE array, NoType)

Init ==
  /\ \E input \in Inputs, maker \in Makers :
       /\ given = input.array
       /\ asked = IF maker = "Series" THEN input.dtype ELSE NoType
       /\ series = IF maker = "Series" THEN ArrayToJsSeries(given, asked) ELSE From(given)
  /\ shown = Undefined /\ rebuilds = 0

Read ==
  /\ Readable(series) /\ shown = Undefined
  /\ shown' = ToArray(series)
  /\ UNCHANGED <<given, asked, series, rebuilds>>

\* toTypedArray of a Series without nulls.
ReadTyped ==
  /\ IsBuilt(series) /\ shown = Undefined
  /\ \A k \in DOMAIN series.elements : series.elements[k] # Null
  /\ \E name \in DOMAIN ArrayTypes :
       /\ series.dtype = Type(ArrayTypes[name])
       /\ shown' = Value(name, 0, [k \in DOMAIN series.elements |->
            IF series.elements[k].is # "int" THEN series.elements[k]
            ELSE IF name \in {"BigInt64Array", "BigUint64Array"}
                 THEN BigInt(series.elements[k].n) ELSE Number(2 * series.elements[k].n)])
  /\ UNCHANGED <<given, asked, series, rebuilds>>

\* Series(name, s.toArray(), s.dtype)
Rebuild ==
  /\ shown # Undefined /\ rebuilds < MaxRebuilds
  /\ given' = shown /\ asked' = series.dtype
  /\ series' = ArrayToJsSeries(shown, series.dtype)
  /\ shown' = Undefined
  /\ rebuilds' = rebuilds + 1

Next == Read \/ ReadTyped \/ Rebuild

Spec == Init /\ [][Next]_vars
=============================================================================
