----------------------------- MODULE DataTypes -----------------------------
(***************************************************************************)
(* JavaScript values, the DataType of polars/datatypes, and the type that  *)
(* internals/construction.ts infers for a value.                           *)
(*                                                                         *)
(* Numbers are scaled: a double has DoubleBits binary digits instead of 53 *)
(* and an integer type the width that Width gives, so that every boundary  *)
(* of the code lies among a few values.                                    *)
(***************************************************************************)
EXTENDS Integers, Sequences, SequencesExt

\* A value: what typeof or the constructor says, a number, and what is in it.
Value(is, n, items) == [is |-> is, n |-> n, items |-> items]

Null         == Value("null", 0, <<>>)
Undefined    == Value("undefined", 0, <<>>)
Number(twice) == Value("number", twice, <<>>)   \* twice the number: halves exist
NotANumber   == Value("NaN", 0, <<>>)
BigInt(n)    == Value("bigint", n, <<>>)
Boolean(n)   == Value("boolean", n, <<>>)
Text(of)     == Value("string", 0, of)          \* <<>> for a text, or the value it is the text of
Moment(ms)   == Value("date", ms, <<>>)
InvalidDate  == Value("invalid date", 0, <<>>)
Array(items) == Value("array", 0, items)
Object(fields) == Value("object", 0, fields)    \* a sequence of [name, value]
Integer(n)   == Value("int", n, <<>>)           \* an integer of a native column

IsNull(v)   == v.is \in {"null", "undefined"}
IsNumber(v) == v.is \in {"number", "NaN"}
IsDate(v)   == v.is \in {"date", "invalid date"}

\* value.constructor.name of the typed arrays, and what they are an array of.
ArrayTypes ==
  [Int8Array |-> "Int8", Int16Array |-> "Int16", Int32Array |-> "Int32",
   BigInt64Array |-> "Int64", Uint8Array |-> "UInt8", Uint16Array |-> "UInt16",
   Uint32Array |-> "UInt32", BigUint64Array |-> "UInt64",
   Float32Array |-> "Float32", Float64Array |-> "Float64"]
IsTypedArray(v) == v.is \in DOMAIN ArrayTypes
-----------------------------------------------------------------------------
(* Scaled numbers.                                                         *)

DoubleBits == 8
FloatBits  == 4
Width ==
  [Int8 |-> 2, UInt8 |-> 2, Int16 |-> 3, UInt16 |-> 3, Int32 |-> 6, UInt32 |-> 6,
   Date |-> 6, Int64 |-> 10, UInt64 |-> 10, Datetime |-> 10]
Unsigned == {"UInt8", "UInt16", "UInt32", "UInt64"}

Lowest(type)  == IF type \in Unsigned THEN 0 ELSE -(2 ^ (Width[type] - 1))
Highest(type) == Lowest(type) + 2 ^ Width[type] - 1
Fits(type, n) == n \in Lowest(type) .. Highest(type)
Wrapped(type, n) == Lowest(type) + ((n - Lowest(type)) % (2 ^ Width[type]))

Magnitude(n) == IF n < 0 THEN -n ELSE n

\* n to `bits` significant binary digits, ties to even.
Rounded(bits, n) ==
  LET m     == Magnitude(n)
      place == Min({2 ^ k : k \in {j \in 0 .. 14 : m < 2 ^ (bits + j)}})
      digits == m \div place
      rest  == m % place
      up    == 2 * rest > place \/ (2 * rest = place /\ digits % 2 = 1)
      r     == (digits + IF up THEN 1 ELSE 0) * place
  IN  IF n < 0 THEN -r ELSE r

\* A double made an integer: napi_get_value_int32 and its kin.
Truncated(v) == IF v.n < 0 THEN -(Magnitude(v.n) \div 2) ELSE v.n \div 2
-----------------------------------------------------------------------------
(* DataType.                                                               *)

DataType(variant, unit, zone, fields) ==
  [variant |-> variant, unit |-> unit, zone |-> zone, fields |-> fields]
Type(variant)        == DataType(variant, "", "", <<>>)
Datetime(unit, zone) == DataType("Datetime", unit, zone, <<>>)
Field(name, dtype)   == [name |-> name, dtype |-> dtype]
ListOf(inner)        == DataType("List", "", "", <<Field("", inner)>>)
StructOf(fields)     == DataType("Struct", "", "", fields)
Inner(dtype)         == dtype.fields[1].dtype
NoType               == Type("")

\* equals of DataType, _Datetime, _List and _Struct: a _Struct looks at its own
\* fields only, and reads the name of one that the other may not have.
RECURSIVE Equals(_, _)
Equals(this, other) ==
  IF this.variant # other.variant THEN "false"
  ELSE IF this.variant = "Datetime"
       THEN IF this.unit = other.unit /\ this.zone = other.zone THEN "true" ELSE "false"
  ELSE IF this.variant = "List" THEN Equals(Inner(this), Inner(other))
  ELSE LET compare(k) ==
             IF k > Len(other.fields) THEN "throws"
             ELSE IF other.fields[k].name # this.fields[k].name THEN "false"
             ELSE Equals(other.fields[k].dtype, this.fields[k].dtype)
           answers == {compare(k) : k \in DOMAIN this.fields}
       IN  IF "throws" \in answers THEN "throws"
           ELSE IF "false" \in answers THEN "false" ELSE "true"

\* A DataType as the native code reads it: no time zone, no fields of a struct.
RECURSIVE Native(_)
Native(dtype) ==
  IF dtype.variant = "Datetime" THEN Datetime(dtype.unit, "")
  ELSE IF dtype.variant = "List" THEN ListOf(Native(Inner(dtype)))
  ELSE IF dtype.variant = "Struct" THEN StructOf(<<>>)
  ELSE dtype

\* The first item that is not null; of arrays, the first of their items, in an array.
RECURSIVE FirstNonNull(_)
FirstNonNull(items) ==
  LET found == SelectSeq(items, LAMBDA v : ~IsNull(v))
      flat  == FlattenSeq([k \in DOMAIN items |->
                 IF items[k].is = "array" THEN items[k].items ELSE <<items[k]>>])
  IN  IF found = <<>> THEN Undefined
      ELSE IF Head(found).is = "array" THEN Array(<<FirstNonNull(flat)>>)
      ELSE Head(found)

RECURSIVE JsTypeToPolarsType(_)
JsTypeToPolarsType(v) ==
  CASE v.is = "array"    -> JsTypeToPolarsType(FirstNonNull(v.items))
    [] IsTypedArray(v)   -> Type(ArrayTypes[v.is])
    [] IsDate(v)         -> Datetime("ms", "")
    [] v.is = "object"   -> StructOf([k \in DOMAIN v.items |->
                              Field(v.items[k].name, JsTypeToPolarsType(v.items[k].value))])
    [] v.is = "bigint"   -> Type("UInt64")
    [] v.is = "string"   -> Type("Utf8")
    [] v.is = "boolean"  -> Type("Bool")
    [] OTHER             -> Type("Float64")
=============================================================================
