--------------------------- MODULE MCSeriesValues ---------------------------
(* Bounded values for the run Values. *)
EXTENDS SeriesFidelity

Input(array, dtype) == [array |-> array, dtype |-> dtype]
UpTo2(items) == {<<>>} \cup {<<v>> : v \in items} \cup (items \X items)

ScalarValues ==
  {Null, Undefined, NotANumber, BigInt(-1), BigInt(257), Text(<<>>), Boolean(1),
   Moment(4), Moment(5), InvalidDate, Object(<<>>)}
  \cup {Number(twice) : twice \in {-2, 1, 4, 34, 130}}

ScalarTypes ==
  {NoType, Type("Time"), ListOf(Type("Float64")), Type("Bool"), Type("Utf8"),
   Type("Categorical"), Type("Date"), Datetime("ms", ""), Datetime("us", ""), Datetime("ms", "UTC")}
  \cup {Type(ArrayTypes[name]) : name \in DOMAIN ArrayTypes}

ScalarInputs ==
  {Input(Array(items), dtype) : items \in UpTo2(ScalarValues), dtype \in ScalarTypes}
  \ {Input(Array(items), NoType) : items \in {i \in UpTo2(ScalarValues) :
       FirstNonNull(i).is = "object"}}

TypedArrays ==
  {Value("Int8Array", 0, <<Number(-4), Number(2)>>),
   Value("Int32Array", 0, <<Number(-64), Number(62)>>),
   Value("Uint32Array", 0, <<Number(0), Number(126)>>),
   Value("BigInt64Array", 0, <<BigInt(-5), BigInt(257)>>),
   Value("BigUint64Array", 0, <<BigInt(3), BigInt(601)>>),
   Value("Float32Array", 0, <<Number(1), Number(32)>>),
   Value("Float64Array", 0, <<Number(1), NotANumber>>)}

TypedInputs == {Input(a, dtype) : a \in TypedArrays, dtype \in {NoType, Type("Utf8")}}

ListRows ==
  {Null, Undefined, Number(2), Array(<<>>), Array(<<Number(1)>>), Array(<<Null, Number(2)>>),
   Array(<<BigInt(-1)>>), Array(<<Text(<<>>)>>), Array(<<Boolean(1)>>), Array(<<Moment(5)>>),
   Array(<<Null, Moment(4), Null>>), Array(<<Array(<<Number(2)>>)>>),
   Array(<<Object(<<>>)>>), Value("Int8Array", 0, <<Number(-4)>>),
   Array(<<Number(34), NotANumber>>), Value("Float32Array", 0, <<Number(32)>>)}

ListInputs ==
  {Input(Array(<<u, v>>), dtype) : u, v \in ListRows, dtype \in {NoType, ListOf(Type("Int8"))}}

Under(name, v) == [name |-> name, value |-> v]
StructRows ==
  {Null, Object(<<Under("b", Boolean(1))>>), Object(<<Under("a", Number(4)), Under("b", Text(<<>>))>>)}
  \cup {Object(<<Under("a", v)>>) : v \in
         {Number(1), BigInt(-1), Text(<<>>), Boolean(1), Moment(5), Array(<<Number(2)>>)}}
BadRows == {Object(<<Under("a", Array(<<>>))>>)}

StructInputs ==
  {Input(Array(<<u, v>>), dtype) : u \in StructRows \cup BadRows, v \in StructRows,
     dtype \in {NoType, StructOf(<<Field("a", Type("Float64"))>>)}}

MCInputs == ScalarInputs \cup TypedInputs \cup ListInputs \cup StructInputs
=============================================================================
