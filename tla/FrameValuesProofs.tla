-------------------------- MODULE FrameValuesProofs --------------------------
(***************************************************************************)
(* What the operations on columns and frames make of well-formed ones, for *)
(* any names, values and bounds.                                           *)
(***************************************************************************)
EXTENDS FrameValues, SequenceLemmas

ColumnType == [name : ColumnName, vals : {<<>>} \cup Rows]

-----------------------------------------------------------------------------
(* Frames and their references are short sequences.                        *)

\* Frames have room for a column.
LEMMA Bounds == MaxRows \in Nat /\ MaxWidth \in Nat \ {0}
BY ColumnNameAssumption

\* An argument list is a sequence, of at most MaxWidth elements.
LEMMA NonEmptySeq ==
  ASSUME NEW S, NEW q \in NonEmpty(S)
  PROVE  /\ q \in Seq(S) /\ Len(q) \in 1 .. MaxWidth /\ DOMAIN q = 1 .. Len(q)
         /\ q = [k \in DOMAIN q |-> q[k]]
         /\ \A k \in DOMAIN q : q[k] \in S
         /\ 1 \in DOMAIN q /\ DOMAIN q \subseteq 1 .. MaxWidth
<1>1. PICK n \in 1 .. MaxWidth : q \in [1 .. n -> S]
  BY DEF NonEmpty
<1>2. q \in Seq(S) /\ Len(q) = n
  BY <1>1, Bounds
<1> QED
  BY <1>1, <1>2, Bounds

\* And a sequence of that many is an argument list.
LEMMA SeqNonEmpty ==
  ASSUME NEW S, NEW n \in 1 .. MaxWidth, NEW q \in [1 .. n -> S]
  PROVE  q \in NonEmpty(S)
BY DEF NonEmpty
-----------------------------------------------------------------------------
(* Columns as values.                                                      *)

\* A column has a name and at most MaxRows rows.
LEMMA ColumnRows ==
  ASSUME NEW column \in ColumnType
  PROVE  /\ column.name \in ColumnName /\ column.vals \in Seq(Value)
         /\ Len(column.vals) \in 0 .. MaxRows
         /\ column = [name |-> column.name, vals |-> column.vals]
<1>1. column.vals \in {<<>>} \cup Rows /\ column.name \in ColumnName
  BY DEF ColumnType
<1>2. CASE column.vals = <<>>
  BY <1>1, <1>2, Bounds DEF ColumnType
<1>3. CASE column.vals \in Rows
  <2>1. PICK n \in 1 .. MaxRows : column.vals \in [1 .. n -> Value]
    BY <1>3 DEF Rows
  <2> QED
    BY <1>1, <2>1, Bounds DEF ColumnType
<1> QED
  BY <1>1, <1>2, <1>3

\* And a name with that many rows is a column.
LEMMA RowsColumn ==
  ASSUME NEW name \in ColumnName, NEW vals \in Seq(Value), Len(vals) <= MaxRows
  PROVE  [name |-> name, vals |-> vals] \in ColumnType
<1>1. CASE Len(vals) = 0
  BY <1>1 DEF ColumnType
<1>2. CASE Len(vals) # 0
  <2>1. Len(vals) \in 1 .. MaxRows /\ vals \in [1 .. Len(vals) -> Value]
    BY <1>2, Bounds
  <2> QED
    BY <2>1 DEF ColumnType, Rows
<1> QED
  BY <1>1, <1>2

\* Other rows under the same name.
LEMMA WithRowsOf ==
  ASSUME NEW column \in ColumnType, NEW rows
  PROVE  [column EXCEPT !.vals = rows] = [name |-> column.name, vals |-> rows]
BY DEF ColumnType

\* A column stays one under another name,
LEMMA RenamedColumn ==
  ASSUME NEW column \in ColumnType, NEW name \in ColumnName
  PROVE  /\ Renamed(column, name) \in ColumnType
         /\ Renamed(column, name).name = name /\ Renamed(column, name).vals = column.vals
BY DEF Renamed, ColumnType

\* with the rows of another after its own,
LEMMA AppendedColumn ==
  ASSUME NEW column \in ColumnType, NEW other \in ColumnType,
         Len(column.vals) + Len(other.vals) <= MaxRows
  PROVE  /\ Appended(column, other) \in ColumnType
         /\ Appended(column, other).name = column.name
         /\ Len(Appended(column, other).vals) = Len(column.vals) + Len(other.vals)
<1>1. /\ column.vals \in Seq(Value) /\ other.vals \in Seq(Value) /\ column.name \in ColumnName
      /\ column = [name |-> column.name, vals |-> column.vals]
  BY ColumnRows
<1>2. /\ column.vals \o other.vals \in Seq(Value)
      /\ Len(column.vals \o other.vals) = Len(column.vals) + Len(other.vals)
  BY <1>1
<1>3. Appended(column, other) = [name |-> column.name, vals |-> column.vals \o other.vals]
  BY WithRowsOf DEF Appended
<1> DEFINE rows == column.vals \o other.vals
<1> HIDE DEF rows
<1>4. rows \in Seq(Value) /\ Len(rows) = Len(column.vals) + Len(other.vals)
  BY <1>2 DEF rows
<1>5. Appended(column, other) = [name |-> column.name, vals |-> rows]
  BY <1>3 DEF rows
<1>6. [name |-> column.name, vals |-> rows] \in ColumnType
  BY <1>1, <1>4, RowsColumn
<1>7. Appended(column, other).name = column.name /\ Appended(column, other).vals = rows
  BY <1>5
<1> QED
  BY <1>4, <1>5, <1>6, <1>7, Zenon

\* with some of its rows overwritten,
LEMMA OverwrittenColumn ==
  ASSUME NEW column \in ColumnType, NEW indices, NEW value \in Value
  PROVE  Overwritten(column, indices, value) \in ColumnType
<1> DEFINE rows == [k \in DOMAIN column.vals |-> IF k - 1 \in indices THEN value ELSE column.vals[k]]
<1>1. /\ column.vals \in Seq(Value) /\ Len(column.vals) \in 0 .. MaxRows
      /\ column.name \in ColumnName
      /\ column = [name |-> column.name, vals |-> column.vals]
  BY ColumnRows
<1>2. DOMAIN column.vals = 1 .. Len(column.vals)
  BY <1>1
<1>3. rows \in [1 .. Len(column.vals) -> Value]
  BY <1>1, <1>2
<1>4. Overwritten(column, indices, value) = [name |-> column.name, vals |-> rows]
  BY WithRowsOf DEF Overwritten
<1> HIDE DEF rows
<1>5. rows \in Seq(Value) /\ Len(rows) = Len(column.vals)
  BY <1>1, <1>3
<1> QED
  BY <1>1, <1>4, <1>5, Bounds, RowsColumn

\* and without rows.
LEMMA EmptiedColumn == Emptied \in ColumnType
BY ColumnNameAssumption DEF Emptied, ColumnType
-----------------------------------------------------------------------------
(* Frames as values.                                                       *)

\* A frame of n columns that the program may use.
GoodFrame(n, frame) ==
  frame \in [1 .. n -> ColumnType] /\ WellFormed(frame) /\ Height(frame) > 0

\* What it is for a frame to be well formed, column by column.
LEMMA GoodParts ==
  ASSUME NEW n \in 1 .. MaxWidth, NEW frame, GoodFrame(n, frame)
  PROVE  /\ n \in Nat /\ 1 \in 1 .. n /\ frame \in [1 .. n -> ColumnType]
         /\ DOMAIN frame = 1 .. n /\ Len(frame) = n /\ frame # <<>>
         /\ Height(frame) = Len(frame[1].vals) /\ Height(frame) \in 1 .. MaxRows
         /\ \A k \in 1 .. n : frame[k] \in ColumnType /\ Len(frame[k].vals) = Height(frame)
         /\ \A j, k \in 1 .. n : frame[j].name = frame[k].name => j = k
<1>1. /\ n \in Nat /\ 1 \in 1 .. n /\ frame \in [1 .. n -> ColumnType]
      /\ DOMAIN frame = 1 .. n /\ Len(frame) = n /\ frame # <<>>
  BY Bounds DEF GoodFrame
<1>2. Height(frame) = Len(frame[1].vals)
  BY <1>1 DEF Height
<1>3. Height(frame) \in 1 .. MaxRows
  <2>1. Len(frame[1].vals) \in 0 .. MaxRows
    BY <1>1, ColumnRows
  <2> QED
    BY <1>2, <2>1 DEF GoodFrame
<1> QED
  BY <1>1, <1>2, <1>3 DEF GoodFrame, WellFormed, IsInjective, NamesOf

\* And columns of one height under distinct names make such a frame.
LEMMA PartsGood ==
  ASSUME NEW n \in 1 .. MaxWidth, NEW frame \in [1 .. n -> ColumnType],
         NEW height \in Nat \ {0},
         \A k \in 1 .. n : Len(frame[k].vals) = height,
         \A j, k \in 1 .. n : frame[j].name = frame[k].name => j = k
  PROVE  GoodFrame(n, frame) /\ Height(frame) = height
<1>1. 1 \in 1 .. n /\ DOMAIN frame = 1 .. n /\ frame # <<>>
  BY Bounds
<1>2. Height(frame) = height
  BY <1>1 DEF Height
<1> QED
  BY <1>1, <1>2 DEF GoodFrame, WellFormed, IsInjective, NamesOf

\* One column with rows is a frame.
LEMMA SingleGood ==
  ASSUME NEW column \in ColumnType, column.vals # <<>>
  PROVE  1 \in 1 .. MaxWidth /\ GoodFrame(1, <<column>>)
<1>1. 1 \in 1 .. MaxWidth /\ <<column>> \in [1 .. 1 -> ColumnType] /\ <<column>>[1] = column
  BY Bounds
<1>2. Len(column.vals) \in Nat \ {0}
  BY ColumnRows
<1>3. \A k \in 1 .. 1 : k = 1
  OBVIOUS
<1> QED
  BY <1>1, <1>2, <1>3, PartsGood

\* Columns under other names, all of them different.
LEMMA WithNamesGood ==
  ASSUME NEW n \in 1 .. MaxWidth, NEW frame, GoodFrame(n, frame),
         NEW names \in [1 .. n -> ColumnName], IsInjective(names)
  PROVE  /\ GoodFrame(n, WithNames(frame, names))
         /\ NamesOf(WithNames(frame, names)) = names
         /\ Len(WithNames(frame, names)) = Len(frame)
<1> DEFINE renamed == WithNames(frame, names)
<1>1. DOMAIN frame = 1 .. n /\ \A k \in 1 .. n : frame[k] \in ColumnType
  BY GoodParts
<1>2. renamed = [k \in 1 .. n |-> Renamed(frame[k], names[k])]
  BY <1>1 DEF WithNames
<1> HIDE DEF renamed
<1>3. \A k \in 1 .. n :
        /\ renamed[k] \in ColumnType /\ renamed[k].name = names[k]
        /\ renamed[k].vals = frame[k].vals
  BY <1>1, <1>2, RenamedColumn
<1>4. renamed \in [1 .. n -> ColumnType]
  BY <1>2, <1>3
<1>5. Height(frame) \in Nat \ {0} /\ \A k \in 1 .. n : Len(frame[k].vals) = Height(frame)
  BY GoodParts, Bounds
<1>6. /\ \A k \in 1 .. n : Len(renamed[k].vals) = Height(frame)
      /\ \A j, k \in 1 .. n : renamed[j].name = renamed[k].name => j = k
  BY <1>3, <1>5 DEF IsInjective
<1>7. GoodFrame(n, renamed)
  BY <1>4, <1>5, <1>6, PartsGood
<1>8. NamesOf(renamed) = names
  BY <1>3, <1>4 DEF NamesOf
<1>9. Len(renamed) = n /\ Len(frame) = n
  BY <1>7, GoodParts
<1> QED
  BY <1>7, <1>8, <1>9 DEF renamed

\* A frame with the same names in the same order below it.
LEMMA StackedGood ==
  ASSUME NEW n \in 1 .. MaxWidth, NEW frame, GoodFrame(n, frame),
         NEW m \in 1 .. MaxWidth, NEW other, GoodFrame(m, other),
         Stackable(frame, other), Height(Stacked(frame, other)) <= MaxRows
  PROVE  GoodFrame(n, Stacked(frame, other)) /\ m = n
<1> DEFINE stacked == Stacked(frame, other)
<1>1. /\ n \in Nat /\ m \in Nat /\ 1 \in 1 .. n /\ DOMAIN frame = 1 .. n /\ DOMAIN other = 1 .. m
      /\ Len(frame) = n /\ Height(frame) \in 1 .. MaxRows /\ Height(other) \in 1 .. MaxRows
      /\ \A k \in 1 .. n : frame[k] \in ColumnType /\ Len(frame[k].vals) = Height(frame)
      /\ \A k \in 1 .. m : other[k] \in ColumnType /\ Len(other[k].vals) = Height(other)
      /\ \A j, k \in 1 .. n : frame[j].name = frame[k].name => j = k
  BY GoodParts
<1>2. m = n
  <2>1. DOMAIN NamesOf(frame) = DOMAIN NamesOf(other)
    BY DEF Stackable
  <2>2. 1 .. n = 1 .. m
    BY <1>1, <2>1 DEF NamesOf
  <2>3. n \in 1 .. n /\ m \in 1 .. m
    BY <1>1
  <2>4. n <= m /\ m <= n
    BY <1>1, <2>2, <2>3
  <2> QED
    BY <1>1, <2>4
<1>3. stacked = [k \in 1 .. n |-> Appended(frame[k], other[k])]
  BY <1>1 DEF Stacked, ExtendedUpTo
<1> HIDE DEF stacked
<1>4. ASSUME Height(frame) + Height(other) <= MaxRows
      PROVE  \A k \in 1 .. n :
               /\ stacked[k] \in ColumnType /\ stacked[k].name = frame[k].name
               /\ Len(stacked[k].vals) = Height(frame) + Height(other)
  <2> TAKE k \in 1 .. n
  <2>1. frame[k] \in ColumnType /\ other[k] \in ColumnType
    BY <1>1, <1>2
  <2>2. Len(frame[k].vals) + Len(other[k].vals) <= MaxRows
    BY <1>1, <1>2, <1>4
  <2>3. /\ Appended(frame[k], other[k]) \in ColumnType
        /\ Appended(frame[k], other[k]).name = frame[k].name
        /\ Len(Appended(frame[k], other[k]).vals) = Len(frame[k].vals) + Len(other[k].vals)
    BY <2>1, <2>2, AppendedColumn
  <2>4. Len(frame[k].vals) = Height(frame) /\ Len(other[k].vals) = Height(other)
    BY <1>1, <1>2
  <2>5. stacked[k] = Appended(frame[k], other[k])
    BY <1>3
  <2> QED
    BY <2>3, <2>4, <2>5, Zenon
<1>5. Height(frame) + Height(other) <= MaxRows
  <2>1. stacked # <<>> /\ stacked[1] = Appended(frame[1], other[1])
    <3>1. DOMAIN stacked = 1 .. n
      BY <1>3
    <3>2. stacked # <<>>
      BY <1>1, <3>1
    <3>3. stacked[1] = Appended(frame[1], other[1])
      BY <1>1, <1>3
    <3> QED
      BY <3>2, <3>3
  <2>2. Height(stacked) = Len(Appended(frame[1], other[1]).vals)
    BY <2>1 DEF Height
  <2>3. /\ frame[1] \in ColumnType /\ other[1] \in ColumnType
        /\ frame[1].vals \in Seq(Value) /\ other[1].vals \in Seq(Value)
    BY <1>1, <1>2, ColumnRows
  <2>4. Appended(frame[1], other[1]).vals = frame[1].vals \o other[1].vals
    BY <2>3, WithRowsOf DEF Appended
  <2>5. Len(frame[1].vals \o other[1].vals) = Height(frame) + Height(other)
    <3>1. Len(frame[1].vals) = Height(frame) /\ Len(other[1].vals) = Height(other)
      BY <1>1, <1>2
    <3>2. Len(frame[1].vals \o other[1].vals) = Len(frame[1].vals) + Len(other[1].vals)
      BY <2>3
    <3> QED
      BY <3>1, <3>2
  <2> QED
    BY <2>2, <2>4, <2>5 DEF stacked
<1>6. stacked \in [1 .. n -> ColumnType]
  BY <1>3, <1>4, <1>5
<1>7. Height(frame) + Height(other) \in Nat \ {0}
  BY <1>1, Bounds
<1>8. \A j, k \in 1 .. n : stacked[j].name = stacked[k].name => j = k
  BY <1>1, <1>4, <1>5
<1>9. GoodFrame(n, stacked)
  BY <1>4, <1>5, <1>6, <1>7, <1>8, PartsGood
<1> QED
  BY <1>2, <1>9 DEF stacked

\* An extend that stops half-way leaves columns of a type, not of one height.
LEMMA ExtendedColumns ==
  ASSUME NEW n \in 1 .. MaxWidth, NEW frame, GoodFrame(n, frame),
         NEW other, GoodFrame(n, other), NEW upTo \in Nat,
         Height(frame) + Height(other) <= MaxRows
  PROVE  ExtendedUpTo(frame, other, upTo) \in [1 .. n -> ColumnType]
<1>1. /\ DOMAIN frame = 1 .. n
      /\ \A k \in 1 .. n : frame[k] \in ColumnType /\ Len(frame[k].vals) = Height(frame)
      /\ \A k \in 1 .. n : other[k] \in ColumnType /\ Len(other[k].vals) = Height(other)
  BY GoodParts
<1>2. \A k \in 1 .. n : Appended(frame[k], other[k]) \in ColumnType
  <2> TAKE k \in 1 .. n
  <2>1. Len(frame[k].vals) + Len(other[k].vals) <= MaxRows
    BY <1>1
  <2> QED
    BY <1>1, <2>1, AppendedColumn
<1> QED
  BY <1>1, <1>2 DEF ExtendedUpTo

\* One column replaced by another of the same height, under a free name.
LEMMA ReplacedGood ==
  ASSUME NEW n \in 1 .. MaxWidth, NEW frame, GoodFrame(n, frame), NEW at \in 1 .. n,
         NEW column \in ColumnType, Len(column.vals) = Height(frame),
         \A j \in 1 .. n \ {at} : frame[j].name # column.name
  PROVE  GoodFrame(n, [frame EXCEPT ![at] = column])
<1> DEFINE replaced == [frame EXCEPT ![at] = column]
<1>1. /\ frame \in [1 .. n -> ColumnType] /\ Height(frame) \in 1 .. MaxRows
      /\ \A k \in 1 .. n : Len(frame[k].vals) = Height(frame)
      /\ \A j, k \in 1 .. n : frame[j].name = frame[k].name => j = k
  BY GoodParts
<1>2. /\ replaced \in [1 .. n -> ColumnType] /\ replaced[at] = column
      /\ \A k \in 1 .. n : k # at => replaced[k] = frame[k]
  BY <1>1
<1> HIDE DEF replaced
<1>3. Height(frame) \in Nat \ {0}
  BY <1>1, Bounds
<1>4. \A k \in 1 .. n : Len(replaced[k].vals) = Height(frame)
  BY <1>1, <1>2
<1>5. \A j, k \in 1 .. n : replaced[j].name = replaced[k].name => j = k
  BY <1>1, <1>2
<1> QED
  BY <1>2, <1>3, <1>4, <1>5, PartsGood DEF replaced

\* The column found by its name has that name.
LEMMA IndexOfName ==
  ASSUME NEW n \in 1 .. MaxWidth, NEW frame, GoodFrame(n, frame),
         NEW name, Has(frame, name)
  PROVE  IndexOf(frame, name) \in 1 .. n /\ frame[IndexOf(frame, name)].name = name
<1>1. DOMAIN frame = 1 .. n
  BY GoodParts
<1> DEFINE T == {k \in 1 .. n : frame[k].name = name}
<1>2. T # {} /\ T \subseteq Nat
  BY <1>1 DEF Has
<1>3. PICK k \in T : \A j \in T : k <= j
  BY <1>2, LeastElement
<1>4. /\ k \in DOMAIN frame
      /\ frame[k].name = name /\ \A j \in 1 .. k - 1 : frame[j].name # name
  BY <1>1, <1>3
<1> QED
  BY <1>1, <1>4 DEF IndexOf

\* A column that fits, at the end.
LEMMA AppendedGood ==
  ASSUME NEW n \in 1 .. MaxWidth, NEW frame, GoodFrame(n, frame), n + 1 \in 1 .. MaxWidth,
         NEW column \in ColumnType, Fits(frame, column)
  PROVE  /\ GoodFrame(n + 1, Append(frame, column))
         /\ Append(frame, column) = [k \in 1 .. n + 1 |-> IF k = n + 1 THEN column ELSE frame[k]]
<1> DEFINE wider == Append(frame, column)
<1>1. /\ frame \in [1 .. n -> ColumnType] /\ Height(frame) \in 1 .. MaxRows /\ n \in Nat
      /\ DOMAIN frame = 1 .. n /\ Len(frame) = n
      /\ \A k \in 1 .. n : Len(frame[k].vals) = Height(frame)
      /\ \A j, k \in 1 .. n : frame[j].name = frame[k].name => j = k
  BY GoodParts
<1>2. frame \in Seq(ColumnType)
  BY <1>1
<1>3. /\ wider \in Seq(ColumnType) /\ Len(wider) = n + 1 /\ wider[n + 1] = column
      /\ \A k \in 1 .. n : wider[k] = frame[k]
  BY <1>1, <1>2
<1> HIDE DEF wider
<1>4. wider \in [1 .. n + 1 -> ColumnType]
  BY <1>1, <1>3
<1>5. \A k \in 1 .. n + 1 : k \in 1 .. n \/ k = n + 1
  BY <1>1
<1>6. /\ Len(column.vals) = Height(frame) /\ \A k \in 1 .. n : frame[k].name # column.name
  BY <1>1 DEF Fits, Has
<1>7. \A k \in 1 .. n + 1 : Len(wider[k].vals) = Height(frame)
  BY <1>1, <1>3, <1>5, <1>6
<1>8. \A j, k \in 1 .. n + 1 : wider[j].name = wider[k].name => j = k
  BY <1>1, <1>3, <1>5, <1>6
<1>9. Height(frame) \in Nat \ {0}
  BY <1>1, Bounds
<1>10. GoodFrame(n + 1, wider)
  BY <1>4, <1>7, <1>8, <1>9, PartsGood
<1>11. wider = [k \in 1 .. n + 1 |-> IF k = n + 1 THEN column ELSE frame[k]]
  BY <1>3, <1>4, <1>5
<1> QED
  BY <1>10, <1>11 DEF wider

\* A single row repeated to the height of the frame.
LEMMA BroadcastColumn ==
  ASSUME NEW n \in 1 .. MaxWidth, NEW frame, GoodFrame(n, frame),
         NEW column \in ColumnType, CanTake(frame, column)
  PROVE  /\ Broadcast(frame, column) \in ColumnType
         /\ Broadcast(frame, column).name = column.name
         /\ Len(Broadcast(frame, column).vals) = Height(frame)
<1>1. Height(frame) \in 1 .. MaxRows
  BY GoodParts
<1>2. CASE Len(column.vals) = Height(frame)
  BY <1>2 DEF Broadcast
<1>3. CASE Len(column.vals) # Height(frame)
  <2> DEFINE rows == [k \in 1 .. Height(frame) |-> column.vals[1]]
  <2>1. column.name \in ColumnName /\ column.vals \in Seq(Value) /\ Len(column.vals) = 1
    BY <1>3, ColumnRows DEF CanTake
  <2>2. rows \in Seq(Value) /\ Len(rows) = Height(frame)
    <3>1. column.vals[1] \in Value
      BY <2>1
    <3>2. rows \in [1 .. Height(frame) -> Value]
      BY <3>1
    <3> HIDE DEF rows
    <3> QED
      BY <1>1, <3>2, Bounds
  <2>3. Broadcast(frame, column) = [name |-> column.name, vals |-> rows]
    BY <1>3, WithRowsOf DEF Broadcast
  <2> HIDE DEF rows
  <2>4. [name |-> column.name, vals |-> rows] \in ColumnType
    BY <1>1, <2>1, <2>2, Bounds, RowsColumn
  <2> QED
    BY <2>2, <2>3, <2>4
<1> QED
  BY <1>2, <1>3

\* A frame that takes a column stays well formed, wider or not.
LEMMA WithColumnGood ==
  ASSUME NEW n \in 1 .. MaxWidth, NEW frame, GoodFrame(n, frame),
         NEW column \in ColumnType, CanTake(frame, column),
         Len(WithColumnValue(frame, column)) <= MaxWidth
  PROVE  IF Has(frame, column.name)
         THEN GoodFrame(n, WithColumnValue(frame, column))
         ELSE /\ n + 1 \in 1 .. MaxWidth
              /\ GoodFrame(n + 1, WithColumnValue(frame, column))
              /\ \A k \in 1 .. n : WithColumnValue(frame, column)[k] = frame[k]
<1> DEFINE taken == Broadcast(frame, column)
<1>1. /\ taken \in ColumnType /\ taken.name = column.name /\ Len(taken.vals) = Height(frame)
  BY BroadcastColumn
<1>2. /\ frame \in [1 .. n -> ColumnType] /\ n \in Nat /\ DOMAIN frame = 1 .. n /\ Len(frame) = n
      /\ \A j, k \in 1 .. n : frame[j].name = frame[k].name => j = k
  BY GoodParts
<1> HIDE DEF taken
<1>3. CASE Has(frame, column.name)
  <2> DEFINE at == IndexOf(frame, column.name)
  <2>1. at \in 1 .. n /\ frame[at].name = column.name
    BY <1>3, IndexOfName
  <2>2. WithColumnValue(frame, column) = [frame EXCEPT ![at] = taken]
    BY <1>3 DEF WithColumnValue, taken
  <2> HIDE DEF at
  <2>3. \A j \in 1 .. n \ {at} : frame[j].name # taken.name
    BY <1>1, <1>2, <2>1
  <2>4. GoodFrame(n, [frame EXCEPT ![at] = taken])
    BY <1>1, <2>1, <2>3, ReplacedGood
  <2> QED
    BY <1>3, <2>2, <2>4
<1>4. CASE ~Has(frame, column.name)
  <2>1. WithColumnValue(frame, column) = Append(frame, taken)
    BY <1>4 DEF WithColumnValue, taken
  <2>2. frame \in Seq(ColumnType)
    BY <1>2
  <2>3. Len(Append(frame, taken)) = n + 1
    BY <1>1, <1>2, <2>2
  <2>4. n + 1 \in 1 .. MaxWidth
    BY <1>2, <2>1, <2>3, Bounds
  <2>5. Fits(frame, taken)
    BY <1>1, <1>4 DEF Fits
  <2>6. /\ GoodFrame(n + 1, Append(frame, taken))
        /\ Append(frame, taken) = [k \in 1 .. n + 1 |-> IF k = n + 1 THEN taken ELSE frame[k]]
    BY <1>1, <2>4, <2>5, AppendedGood
  <2>7. \A k \in 1 .. n : Append(frame, taken)[k] = frame[k]
    BY <1>2, <2>6
  <2> QED
    BY <1>4, <2>1, <2>4, <2>6, <2>7
<1> QED
  BY <1>3, <1>4

\* A column that fits, anywhere.
LEMMA InsertGood ==
  ASSUME NEW n \in 1 .. MaxWidth, NEW frame, GoodFrame(n, frame), n + 1 \in 1 .. MaxWidth,
         NEW at \in 1 .. n + 1, NEW column \in ColumnType, Fits(frame, column)
  PROVE  GoodFrame(n + 1, InsertAt(frame, at, column))
<1> DEFINE wider == InsertAt(frame, at, column)
<1>1. /\ frame \in [1 .. n -> ColumnType] /\ Height(frame) \in 1 .. MaxRows /\ n \in Nat
      /\ DOMAIN frame = 1 .. n
      /\ \A k \in 1 .. n : Len(frame[k].vals) = Height(frame)
      /\ \A j, k \in 1 .. n : frame[j].name = frame[k].name => j = k
  BY GoodParts
<1>2. /\ wider \in [1 .. n + 1 -> ColumnType]
      /\ \A k \in 1 .. n + 1 :
           wider[k] = IF k < at THEN frame[k] ELSE IF k = at THEN column ELSE frame[k - 1]
  <2>1. frame \in [1 .. n -> ColumnType] /\ n \in Nat
    BY <1>1
  <2>2. Inserts(ColumnType, n, frame, at, column, wider)
    BY <2>1, Inserting, Zenon
  <2> HIDE DEF wider
  <2> QED
    BY <2>2 DEF Inserts
<1> HIDE DEF wider
<1>3. /\ Len(column.vals) = Height(frame) /\ \A k \in 1 .. n : frame[k].name # column.name
  BY <1>1 DEF Fits, Has
<1>4. /\ wider[at] = column
      /\ \A k \in 1 .. n + 1 : k < at => k \in 1 .. n /\ wider[k] = frame[k]
      /\ \A k \in 1 .. n + 1 : k > at => k - 1 \in 1 .. n /\ wider[k] = frame[k - 1]
      /\ \A k \in 1 .. n + 1 : k < at \/ k = at \/ k > at
  BY <1>1, <1>2
<1>5. \A k \in 1 .. n + 1 : Len(wider[k].vals) = Height(frame)
  BY <1>1, <1>3, <1>4
<1>6. ASSUME NEW j \in 1 .. n + 1, NEW k \in 1 .. n + 1, wider[j].name = wider[k].name, j < k
      PROVE  FALSE
  <2>1. CASE j = at \/ k = at
    BY <1>3, <1>4, <1>6, <2>1
  <2>2. CASE k < at \/ j > at
    <3>1. (j < at /\ k < at) \/ (j > at /\ k > at)
      BY <1>6, <2>2
    <3> QED
      BY <1>1, <1>4, <1>6, <3>1
  <2>3. CASE j < at /\ k > at
    <3>1. j = k - 1
      BY <1>1, <1>4, <1>6, <2>3
    <3> QED
      BY <2>3, <3>1
  <2> QED
    BY <1>6, <2>1, <2>2, <2>3
<1>7. \A j, k \in 1 .. n + 1 : wider[j].name = wider[k].name => j = k
  BY <1>6
<1>8. Height(frame) \in Nat \ {0}
  BY <1>1, Bounds
<1> QED
  BY <1>2, <1>5, <1>7, <1>8, PartsGood DEF wider

-----------------------------------------------------------------------------
(* rename and drop, entry by entry.                                        *)

\* The states between two entries of a mapping: names are typed and, as long as
\* nothing threw, different.
RenameState(n) ==
  {state \in [ok : BOOLEAN, names : [1 .. n -> ColumnName]] :
     state.ok => IsInjective(state.names)}

\* Renaming one column leaves names, distinct unless it throws.
LEMMA RenameOneState ==
  ASSUME NEW n \in Nat, NEW state \in RenameState(n),
         NEW entry \in [from : GivenName, to : GivenName]
  PROVE  RenameOne(state, entry) \in RenameState(n)
<1>1. /\ state \in [ok : BOOLEAN, names : [1 .. n -> ColumnName]]
      /\ entry.to \in ColumnName
  BY DEF RenameState, GivenName
<1>2. CASE ~state.ok \/ entry.from \notin ToSet(state.names)
  <2>1. RenameOne(state, entry) = [state EXCEPT !.ok = FALSE]
    BY <1>2 DEF RenameOne
  <2> QED
    BY <1>1, <2>1 DEF RenameState
<1>3. CASE ~(~state.ok \/ entry.from \notin ToSet(state.names))
  <2> DEFINE at    == CHOOSE k \in DOMAIN state.names : state.names[k] = entry.from
             names == [state.names EXCEPT ![at] = entry.to]
  <2>1. names \in [1 .. n -> ColumnName]
    BY <1>1
  <2>2. RenameOne(state, entry) = [ok |-> IsInjective(names), names |-> names]
    BY <1>3 DEF RenameOne
  <2> HIDE DEF names
  <2>3. IsInjective(names) \in BOOLEAN
    BY DEF IsInjective
  <2>4. DEFINE now == [ok |-> IsInjective(names), names |-> names]
  <2>5. now \in [ok : BOOLEAN, names : [1 .. n -> ColumnName]]
    BY <2>1, <2>3
  <2>6. now.ok => IsInjective(now.names)
    OBVIOUS
  <2> QED
    BY <2>2, <2>5, <2>6 DEF RenameState
<1> QED
  BY <1>2, <1>3

\* A rename that throws nothing leaves different names.
LEMMA RenamedNames ==
  ASSUME NEW n \in 1 .. MaxWidth, NEW frame, GoodFrame(n, frame), NEW mapping \in Mappings
  PROVE  RenameEach(frame, mapping) \in RenameState(n)
<1> DEFINE m == Len(mapping)
           first == [ok |-> TRUE, names |-> NamesOf(frame)]
           Next(f) == [k \in 0 .. Len(mapping) |->
                         IF k = 0 THEN first ELSE RenameOne(f[k - 1], mapping[k])]
           step == [k \in 1 .. m |-> [state \in RenameState(n) |-> RenameOne(state, mapping[k])]]
<1>1. n \in Nat /\ first \in RenameState(n)
  <2>1. /\ DOMAIN frame = 1 .. n /\ n \in Nat
        /\ \A k \in 1 .. n : frame[k] \in ColumnType
        /\ \A j, k \in 1 .. n : frame[j].name = frame[k].name => j = k
    BY GoodParts
  <2>2. NamesOf(frame) \in [1 .. n -> ColumnName] /\ IsInjective(NamesOf(frame))
    BY <2>1, ColumnRows DEF NamesOf, IsInjective
  <2> QED
    BY <2>1, <2>2 DEF RenameState
<1>2. /\ m \in Nat /\ \A k \in 1 .. m : mapping[k] \in [from : GivenName, to : GivenName]
  <2>1. mapping \in NonEmpty([from : GivenName, to : GivenName])
    BY DEF Mappings
  <2>2. m \in 1 .. MaxWidth /\ DOMAIN mapping = 1 .. m
        /\ \A k \in DOMAIN mapping : mapping[k] \in [from : GivenName, to : GivenName]
    BY <2>1, NonEmptySeq
  <2> QED
    BY <2>2, Bounds
<1> HIDE DEF m, first
<1>3. step \in [1 .. m -> [RenameState(n) -> RenameState(n)]]
  BY <1>1, <1>2, RenameOneState
<1>4. PICK g \in [0 .. m -> RenameState(n)] :
        g[0] = first /\ \A k \in 1 .. m : g[k] = step[k][g[k - 1]]
  <2> HIDE DEF step
  <2>1. m \in Nat /\ first \in RenameState(n)
    BY <1>1, <1>2
  <2>2. Iterable(m, RenameState(n), first, step)
    BY <1>3, <2>1, Iterates, Zenon
  <2> QED
    BY <2>2 DEF Iterable
<1>5. g = Next(g)
  <2>1. \A k \in 0 .. m : k = 0 \/ (k \in 1 .. m /\ k # 0 /\ k - 1 \in 0 .. m)
    BY <1>2
  <2>2. \A k \in 1 .. m : g[k - 1] \in RenameState(n) => g[k] = RenameOne(g[k - 1], mapping[k])
    BY <1>4
  <2> QED
    BY <1>4, <2>1, <2>2, Zenon DEF m
<1> HIDE DEF step
<1> DEFINE chosen == CHOOSE f : f = Next(f)
<1>6. chosen = Next(chosen)
  <2> HIDE DEF Next
  <2> QED
    BY <1>5, Zenon
<1>7. RenameEach(frame, mapping) = chosen[m]
  BY DEF RenameEach, m, first
<1> HIDE DEF chosen
<1>8. /\ chosen[0] = first
      /\ \A k \in 1 .. m : chosen[k] = RenameOne(chosen[k - 1], mapping[k])
  <2>1. 0 \in 0 .. Len(mapping) /\ \A k \in 1 .. m : k \in 0 .. Len(mapping) /\ k # 0
    BY <1>2 DEF m
  <2> QED
    BY <1>6, <2>1, Zenon
<1> DEFINE Reached == {k \in 0 .. m : chosen[k] \in RenameState(n)}
<1>9. 0 \in Reached
  BY <1>1, <1>2, <1>8
<1>10. ASSUME NEW k \in 1 .. m, k - 1 \in Reached PROVE k \in Reached
  <2>1. chosen[k - 1] \in RenameState(n) /\ k \in 0 .. m
    BY <1>2, <1>10
  <2>2. RenameOne(chosen[k - 1], mapping[k]) \in RenameState(n)
    BY <1>1, <1>2, <2>1, RenameOneState
  <2> QED
    BY <1>8, <2>1, <2>2
<1> HIDE DEF Reached
<1>11. \A k \in 0 .. m : k \in Reached
  BY <1>2, <1>9, <1>10, FromZero
<1>12. m \in 0 .. m
  BY <1>2
<1> QED
  BY <1>7, <1>11, <1>12 DEF Reached

\* A frame renamed with a mapping stays well formed, under the names reached.
LEMMA RenamedGood ==
  ASSUME NEW n \in 1 .. MaxWidth, NEW frame, GoodFrame(n, frame), NEW mapping \in Mappings,
         RenameEach(frame, mapping).ok
  PROVE  /\ GoodFrame(n, WithNames(frame, RenameEach(frame, mapping).names))
         /\ NamesOf(WithNames(frame, RenameEach(frame, mapping).names))
              = RenameEach(frame, mapping).names
         /\ Len(WithNames(frame, RenameEach(frame, mapping).names)) = Len(frame)
         /\ RenameEach(frame, mapping) = [ok |-> TRUE, names |-> RenameEach(frame, mapping).names]
<1> DEFINE renamed == RenameEach(frame, mapping)
<1>1. renamed \in RenameState(n) /\ renamed.ok
  BY RenamedNames
<1> HIDE DEF renamed
<1>2. /\ renamed.names \in [1 .. n -> ColumnName] /\ IsInjective(renamed.names)
      /\ renamed = [ok |-> TRUE, names |-> renamed.names]
  BY <1>1 DEF RenameState
<1> QED
  BY <1>2, WithNamesGood DEF renamed

\* The positions that a drop leaves are different ones of the frame.
LEMMA KeptPositions ==
  ASSUME NEW n \in 1 .. MaxWidth, NEW frame, DOMAIN frame = 1 .. n, Len(frame) = n, NEW names
  PROVE  \E m \in 0 .. n :
           /\ Kept(frame, names) \in [1 .. m -> 1 .. n]
           /\ \A j, k \in 1 .. m : Kept(frame, names)[j] = Kept(frame, names)[k] => j = k
<1> DEFINE Dropped(k) == frame[k].name \in ToSet(names)
           Next(f) == [k \in 0 .. Len(frame) |->
                         IF k = 0 THEN <<>>
                         ELSE IF Dropped(k) THEN f[k - 1] ELSE Append(f[k - 1], k)]
           step == [k \in 1 .. n |-> [q \in Seq(1 .. n) |->
                                        IF Dropped(k) THEN q ELSE Append(q, k)]]
           \* Different positions among the first k.
           Positions(k, q) ==
             \E m \in 0 .. k :
               /\ q \in [1 .. m -> 1 .. k]
               /\ \A i, j \in 1 .. m : q[i] = q[j] => i = j
<1>1. n \in Nat
  BY Bounds
<1>2. step \in [1 .. n -> [Seq(1 .. n) -> Seq(1 .. n)]]
  <2>1. ASSUME NEW k \in 1 .. n, NEW q \in Seq(1 .. n)
        PROVE  (IF Dropped(k) THEN q ELSE Append(q, k)) \in Seq(1 .. n)
    <3>1. q \in Seq(1 .. n) /\ k \in 1 .. n
      OBVIOUS
    <3>2. Append(q, k) \in Seq(1 .. n)
      BY <3>1, AppendProperties, Zenon
    <3> QED
      BY <3>1, <3>2, Zenon
  <2> HIDE DEF Dropped
  <2> QED
    BY <2>1
<1> HIDE DEF Dropped
<1>3. PICK g \in [0 .. n -> Seq(1 .. n)] :
        g[0] = <<>> /\ \A k \in 1 .. n : g[k] = step[k][g[k - 1]]
  <2>1. <<>> \in Seq(1 .. n)
    OBVIOUS
  <2> HIDE DEF step
  <2>2. Iterable(n, Seq(1 .. n), <<>>, step)
    BY <1>1, <1>2, <2>1, Iterates, Zenon
  <2> QED
    BY <2>2 DEF Iterable
<1>4. g = Next(g)
  <2>1. \A k \in 0 .. n : k = 0 \/ (k \in 1 .. n /\ k # 0 /\ k - 1 \in 0 .. n)
    BY <1>1
  <2>2. \A k \in 1 .. n : g[k - 1] \in Seq(1 .. n) =>
          g[k] = IF Dropped(k) THEN g[k - 1] ELSE Append(g[k - 1], k)
    BY <1>3, Zenon
  <2> QED
    BY <1>3, <2>1, <2>2, Zenon
<1> HIDE DEF step
<1> DEFINE chosen == CHOOSE f : f = Next(f)
<1>5. chosen = Next(chosen)
  <2> HIDE DEF Next
  <2> QED
    BY <1>4, Zenon
<1>6. Kept(frame, names) = chosen[n]
  BY DEF Kept, Dropped
<1> HIDE DEF chosen
<1>7. /\ chosen[0] = <<>>
      /\ \A k \in 1 .. n :
           chosen[k] = IF Dropped(k) THEN chosen[k - 1] ELSE Append(chosen[k - 1], k)
  <2>1. 0 \in 0 .. Len(frame) /\ \A k \in 1 .. n : k \in 0 .. Len(frame) /\ k # 0
    BY <1>1
  <2> QED
    BY <1>5, <2>1, Zenon
<1> DEFINE Reached == {k \in 0 .. n : Positions(k, chosen[k])}
<1>8. 0 \in Reached
  <2>1. <<>> \in [1 .. 0 -> 1 .. 0] /\ 0 \in 0 .. 0 /\ 0 \in 0 .. n /\ \A i \in 1 .. 0 : FALSE
    BY <1>1
  <2> QED
    BY <1>7, <2>1
<1>9. ASSUME NEW k \in 1 .. n, k - 1 \in Reached PROVE k \in Reached
  <2>1. PICK m \in 0 .. k - 1 :
          /\ chosen[k - 1] \in [1 .. m -> 1 .. k - 1]
          /\ \A i, j \in 1 .. m : chosen[k - 1][i] = chosen[k - 1][j] => i = j
    BY <1>9
  <2> DEFINE q == chosen[k - 1]
  <2>2. /\ q \in [1 .. m -> 1 .. k - 1]
        /\ \A i, j \in 1 .. m : q[i] = q[j] => i = j
    BY <2>1
  <2> HIDE DEF q
  <2>3. k \in Nat /\ k \in 0 .. n /\ m \in Nat /\ m \in 0 .. k /\ m + 1 \in 0 .. k
    BY <1>1
  <2>4. CASE Dropped(k)
    <3>1. chosen[k] = q
      BY <1>7, <2>4 DEF q
    <3>2. q \in [1 .. m -> 1 .. k]
      BY <2>2, <2>3
    <3>3. Positions(k, chosen[k])
      BY <2>2, <2>3, <3>1, <3>2
    <3> QED
      BY <2>3, <3>3
  <2>5. CASE ~Dropped(k)
    <3>1. chosen[k] = Append(q, k)
      BY <1>7, <2>5 DEF q
    <3> DEFINE longer == Append(q, k)
    <3>2. q \in Seq(1 .. k) /\ Len(q) = m
      BY <2>2, <2>3
    <3>3. /\ longer \in Seq(1 .. k) /\ Len(longer) = m + 1 /\ longer[m + 1] = k
          /\ \A i \in 1 .. m : longer[i] = q[i]
      <4>1. k \in 1 .. k
        BY <2>3
      <4> QED
        BY <3>2, <4>1, AppendProperties
    <3> HIDE DEF longer
    <3>4. longer \in [1 .. m + 1 -> 1 .. k]
      <4>1. longer \in [1 .. Len(longer) -> 1 .. k]
        BY <3>3, LenProperties, Zenon
      <4> QED
        BY <3>3, <4>1, Zenon
    <3>5. \A i \in 1 .. m : longer[i] # k
      BY <2>2, <2>3, <3>3
    <3>6. \A i \in 1 .. m + 1 : i \in 1 .. m \/ i = m + 1
      BY <2>3
    <3>7. \A i, j \in 1 .. m + 1 : longer[i] = longer[j] => i = j
      BY <2>2, <3>3, <3>5, <3>6
    <3>8. Positions(k, longer)
      BY <2>3, <3>4, <3>7
    <3>9. chosen[k] = longer
      BY <3>1 DEF longer
    <3> QED
      BY <2>3, <3>8, <3>9
  <2> QED
    BY <2>4, <2>5
<1> HIDE DEF Reached
<1>10. \A k \in 0 .. n : k \in Reached
  BY <1>1, <1>8, <1>9, FromZero
<1>11. n \in Reached
  BY <1>1, <1>10
<1> QED
  BY <1>6, <1>11 DEF Reached

\* A frame that is left some columns stays well formed.
LEMMA WithoutGood ==
  ASSUME NEW n \in 1 .. MaxWidth, NEW frame, GoodFrame(n, frame), NEW names,
         Kept(frame, names) # <<>>
  PROVE  \E m \in 1 .. MaxWidth :
           /\ Kept(frame, names) \in [1 .. m -> 1 .. n]
           /\ GoodFrame(m, Without(frame, names))
<1> DEFINE kept == Kept(frame, names)
           left == [j \in DOMAIN kept |-> frame[kept[j]]]
<1>1. /\ n \in Nat /\ frame \in [1 .. n -> ColumnType] /\ DOMAIN frame = 1 .. n /\ Len(frame) = n
      /\ Height(frame) \in 1 .. MaxRows
      /\ \A k \in 1 .. n : frame[k] \in ColumnType /\ Len(frame[k].vals) = Height(frame)
      /\ \A j, k \in 1 .. n : frame[j].name = frame[k].name => j = k
  BY GoodParts
<1>2. PICK m \in 0 .. n : kept \in [1 .. m -> 1 .. n] /\ \A j, k \in 1 .. m : kept[j] = kept[k] => j = k
  BY <1>1, KeptPositions
<1>3. Without(frame, names) = left /\ kept # <<>>
  BY DEF Without
<1> HIDE DEF kept
<1>4. m # 0
  BY <1>2, <1>3
<1>5. m \in 1 .. MaxWidth
  BY <1>1, <1>2, <1>4, Bounds
<1>6. left \in [1 .. m -> ColumnType] /\ \A j \in 1 .. m : left[j] = frame[kept[j]] /\ kept[j] \in 1 .. n
  BY <1>1, <1>2
<1> HIDE DEF left
<1>7. /\ \A k \in 1 .. m : Len(left[k].vals) = Height(frame)
      /\ \A j, k \in 1 .. m : left[j].name = left[k].name => j = k
  BY <1>1, <1>2, <1>6
<1>8. Height(frame) \in Nat \ {0}
  BY <1>1, Bounds
<1>9. GoodFrame(m, left)
  BY <1>5, <1>6, <1>7, <1>8, PartsGood
<1> QED
  BY <1>2, <1>3, <1>5, <1>9 DEF kept

\* The names that a constructor leaves are typed, and the rows stay.
LEMMA NamesLeftTyped ==
  ASSUME NEW S, NEW array \in NonEmpty(S), NEW columns \in {<<>>} \cup NonEmpty(GivenName),
         NEW valueOf, \A s \in Range(array) : valueOf[s] \in ColumnType
  PROVE  /\ DOMAIN NamesLeft(array, columns, valueOf) = Range(array)
         /\ \A s \in Range(array) :
              /\ NamesLeft(array, columns, valueOf)[s] \in ColumnType
              /\ NamesLeft(array, columns, valueOf)[s].vals = valueOf[s].vals
<1> DEFINE n == Len(array)
           Given(s) == NameGiven(array, columns, s, valueOf[s].name)
<1>1. n \in 1 .. MaxWidth /\ n \in Nat /\ DOMAIN array = 1 .. n
  BY NonEmptySeq, Bounds
<1> HIDE DEF n
<1>2. ASSUME NEW s \in Range(array) PROVE Given(s) \in ColumnName
  <2> DEFINE positions == PositionsOf(array, s)
             first == CHOOSE k \in positions : \A j \in positions : k <= j
             last  == CHOOSE k \in positions : \A j \in positions : j <= k
  <2>1. positions \subseteq 1 .. n /\ positions \subseteq Nat /\ positions # {}
    BY <1>1 DEF PositionsOf, Range
  <2> HIDE DEF positions
  <2>2. first \in 1 .. n
    <3>1. \E k \in positions : \A j \in positions : k <= j
      BY <2>1, LeastElement
    <3> QED
      BY <2>1, <3>1
  <2>3. last \in 1 .. n
    <3>1. \E k \in positions : \A j \in positions : j <= k
      BY <1>1, <2>1, GreatestElement
    <3> QED
      BY <2>1, <3>1
  <2> HIDE DEF first, last
  <2>4. Given(s) = IF Len(columns) = Len(array) THEN columns[last]
                   ELSE IF valueOf[s].name = Unnamed THEN AutoName(first)
                   ELSE valueOf[s].name
    BY DEF NameGiven, positions, first, last
  <2>5. CASE Len(columns) = Len(array)
    <3>1. columns \in NonEmpty(GivenName)
      BY <1>1, <2>5 DEF n
    <3>2. DOMAIN columns = 1 .. n /\ \A k \in DOMAIN columns : columns[k] \in GivenName
      BY <2>5, <3>1, NonEmptySeq DEF n
    <3> QED
      BY <2>3, <2>4, <2>5, <3>2 DEF GivenName
  <2>6. CASE Len(columns) # Len(array) /\ valueOf[s].name = Unnamed
    <3>1. first \in 1 .. MaxWidth
      BY <1>1, <2>2, Bounds
    <3>2. AutoName(first) \in ColumnName
      BY <3>1, ColumnNameAssumption
    <3> QED
      BY <2>4, <2>6, <3>2
  <2>7. CASE Len(columns) # Len(array) /\ valueOf[s].name # Unnamed
    BY <2>4, <2>7, ColumnRows
  <2> QED
    BY <2>5, <2>6, <2>7
<1> HIDE DEF Given
<1>3. NamesLeft(array, columns, valueOf) = [s \in Range(array) |-> Renamed(valueOf[s], Given(s))]
  BY DEF NamesLeft, Given
<1> QED
  BY <1>2, <1>3, RenamedColumn
=============================================================================
