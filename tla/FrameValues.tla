----------------------------- MODULE FrameValues -----------------------------
(***************************************************************************)
(* Columns and frames as values: what the operations of polars/dataframe.ts*)
(* and polars/series/index.ts compute, through src/dataframe.rs and        *)
(* src/series.rs, from the values they are given.  A column is its name and*)
(* its rows; a frame is the sequence of its columns.  Data types are left  *)
(* out: every column has the same one.                                     *)
(***************************************************************************)
EXTENDS Integers, SequencesExt

CONSTANTS
  ColumnName,   \* names a column may be given; "" is an unnamed series
  Value,        \* what a row of a column holds
  MaxRows,      \* bound: longest column built
  MaxWidth      \* bound: widest frame built

Unnamed == ""

Column  == [name : ColumnName, vals : Seq(Value)]
Emptied == [name |-> Unnamed, vals |-> <<>>]    \* Series::default()

\* The entries of `new`, and those of `old` under other keys.
Override(new, old) ==
  [x \in DOMAIN new \cup DOMAIN old |-> IF x \in DOMAIN new THEN new[x] ELSE old[x]]

NamesOf(frame) == [k \in DOMAIN frame |-> frame[k].name]
Height(frame)  == IF frame = <<>> THEN 0 ELSE Len(frame[1].vals)

\* What DataFrame::new and the operations below check: columns of one height
\* under distinct names.
WellFormed(frame) ==
  /\ \A k \in DOMAIN frame : Len(frame[k].vals) = Height(frame)
  /\ IsInjective(NamesOf(frame))

Has(frame, name) == \E k \in DOMAIN frame : frame[k].name = name

\* find_idx_by_name: the first column of that name.
IndexOf(frame, name) ==
  CHOOSE k \in DOMAIN frame :
    /\ frame[k].name = name
    /\ \A j \in 1 .. k - 1 : frame[j].name # name

Renamed(column, name) == [column EXCEPT !.name = name]

\* Both sequences have the same length.
WithNames(frame, names) == [k \in DOMAIN frame |-> Renamed(frame[k], names[k])]

Appended(column, other) == [column EXCEPT !.vals = @ \o other.vals]

----------------------------------------------------------------------------

\* set_at_idx writes `value` at offsets from 0 on; one out of bounds is an error.
IndicesFit(column, indices) == indices \subseteq 0 .. Len(column.vals) - 1

Overwritten(column, indices, value) ==
  [column EXCEPT !.vals =
     [k \in DOMAIN @ |-> IF k - 1 \in indices THEN value ELSE @[k]]]

\* The column fits a frame that must gain it.
Fits(frame, column) == ~Has(frame, column.name) /\ Len(column.vals) = Height(frame)

\* with_column: replace the column of that name or add one; a single row is
\* repeated to the height of the frame.
CanTake(frame, column) == Len(column.vals) \in {1, Height(frame)}

Broadcast(frame, column) ==
  IF Len(column.vals) = Height(frame) THEN column
  ELSE [column EXCEPT !.vals = [k \in 1 .. Height(frame) |-> column.vals[1]]]

WithColumnValue(frame, column) ==
  IF Has(frame, column.name)
  THEN [frame EXCEPT ![IndexOf(frame, column.name)] = Broadcast(frame, column)]
  ELSE Append(frame, Broadcast(frame, column))

\* vstack and extend need the same names in the same order.
Stackable(frame, other) == NamesOf(frame) = NamesOf(other)

\* The first `upTo` columns grown by the rows of `other`.
ExtendedUpTo(frame, other, upTo) ==
  [k \in DOMAIN frame |->
     IF k <= upTo THEN Appended(frame[k], other[k]) ELSE frame[k]]

Stacked(frame, other) == ExtendedUpTo(frame, other, Len(frame))

\* The columns before the first whose names differ.
AgreeingColumns(frame, other) ==
  {k \in 0 .. Len(frame) : \A j \in 1 .. k : frame[j].name = other[j].name}

----------------------------------------------------------------------------
(* DataFrame.rename and DataFrame.drop: one native call per entry.         *)

\* One native rename: the column must exist and the new name be free.
RenameOne(state, entry) ==
  IF ~state.ok \/ entry.from \notin ToSet(state.names)
  THEN [state EXCEPT !.ok = FALSE]
  ELSE LET at    == CHOOSE k \in DOMAIN state.names : state.names[k] = entry.from
           names == [state.names EXCEPT ![at] = entry.to]
       IN  [ok |-> IsInjective(names), names |-> names]

\* The entries of the mapping one after the other; `ok` is false once one threw.
RenameEach(frame, mapping) ==
  LET after[k \in 0 .. Len(mapping)] ==
        IF k = 0 THEN [ok |-> TRUE, names |-> NamesOf(frame)]
        ELSE RenameOne(after[k - 1], mapping[k])
  IN  after[Len(mapping)]

CanDrop(frame, names) ==
  /\ IsInjective(names)
  /\ \A k \in DOMAIN names : Has(frame, names[k])

\* The positions of the columns that a drop leaves, in order.
Kept(frame, names) ==
  LET upTo[k \in 0 .. Len(frame)] ==
        IF k = 0 THEN <<>>
        ELSE IF frame[k].name \in ToSet(names) THEN upTo[k - 1]
        ELSE Append(upTo[k - 1], k)
  IN  upTo[Len(frame)]

Without(frame, names) ==
  [j \in DOMAIN Kept(frame, names) |-> frame[Kept(frame, names)[j]]]

----------------------------------------------------------------------------
(* arrayToJsDataFrame on an array of Series: the names it leaves on them.  *)

AutoName(position) == "column_" \o ToString(position - 1)

\* Positions at which the array holds the series s.
PositionsOf(array, s) == {k \in DOMAIN array : array[k] = s}

\* Unnamed series are named after their position; a columns argument of the
\* right length then renames every position in turn.
NameGiven(array, columns, s, name) ==
  LET positions == PositionsOf(array, s)
      first     == CHOOSE k \in positions : \A j \in positions : k <= j
      last      == CHOOSE k \in positions : \A j \in positions : j <= k
  IN  IF Len(columns) = Len(array) THEN columns[last]
      ELSE IF name = Unnamed THEN AutoName(first)
      ELSE name

\* The series a DataFrame constructor names, and what it leaves on them.
NamesLeft(array, columns, valueOf) ==
  [s \in Range(array) |->
     Renamed(valueOf[s], NameGiven(array, columns, s, valueOf[s].name))]

Constructs(array, columns, values) ==
  columns \in {<<>>} \cup [DOMAIN array -> ColumnName] /\ WellFormed(values)

----------------------------------------------------------------------------
(* Arguments of calls.                                                     *)

ASSUME ColumnNameAssumption ==
  /\ MaxRows \in Nat /\ MaxWidth \in Nat \ {0}
  /\ Unnamed \in ColumnName
  /\ \A k \in 1 .. MaxWidth : AutoName(k) \in ColumnName

NonEmpty(S) == UNION {[1 .. n -> S] : n \in 1 .. MaxWidth}
Rows        == UNION {[1 .. n -> Value] : n \in 1 .. MaxRows}
GivenName   == ColumnName \ {Unnamed}
Mappings    == {m \in NonEmpty([from : GivenName, to : GivenName]) :
                  \A j, k \in DOMAIN m : m[j].from = m[k].from => j = k}
Indices     == SUBSET (0 .. MaxRows) \ {{}}
=============================================================================
