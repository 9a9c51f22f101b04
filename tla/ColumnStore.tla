----------------------------- MODULE ColumnStore -----------------------------
(***************************************************************************)
(* The Series and DataFrame objects of a JavaScript program and the native *)
(* columns behind them.                                                    *)
(*                                                                         *)
(* A JsSeries owns a reference-counted column (a Rust Series is an Arc), a *)
(* JsDataFrame a sequence of them, and cloning either shares the columns:  *)
(* `s.series.clone()`, `df.clone()`.  An operation in place first makes    *)
(* sure that it is the only owner (_get_inner_mut), and copies the column  *)
(* when it is not.  `heap` holds the live columns by address; a column is  *)
(* freed with its last reference.                                          *)
(*                                                                         *)
(* The program's variables hold nothing until they are assigned.  Inputs   *)
(* are kept to frames with at least one column and one row, and to calls   *)
(* whose receiver and argument are different objects.                      *)
(***************************************************************************)
EXTENDS FrameValues, FiniteSets

CONSTANTS
  SeriesVar,   \* variables that may hold a Series
  FrameVar,    \* variables that may hold a DataFrame
  Holder,      \* other native objects that own the columns of a frame
  Address      \* addresses of native columns

ASSUME HolderAssumption == FrameVar \cap Holder = {}

VARIABLES
  heap,      \* the live native columns
  series,    \* the column each Series variable owns
  frames,    \* the columns each DataFrame variable or other holder owns
  hollow,    \* DataFrame variables that wrap no native frame
  unchecked  \* frames the native library was not able to keep well-formed

vars == <<heap, series, frames, hollow, unchecked>>

SeriesValue(s) == heap[series[s]]
FrameValue(f)  == [k \in DOMAIN frames[f] |-> heap[frames[f][k]]]
Usable         == (DOMAIN frames \cap FrameVar) \ unchecked

Owners(address) ==
  Cardinality({s \in DOMAIN series : series[s] = address})
  + Cardinality({slot \in (DOMAIN frames) \X (1 .. MaxWidth) :
       slot[2] \in DOMAIN frames[slot[1]] /\ frames[slot[1]][slot[2]] = address})

References(someSeries, someFrames) ==
  Range(someSeries) \cup UNION {Range(someFrames[f]) : f \in DOMAIN someFrames}

\* Unused addresses, one for each column that a call may have to copy.
Unused == {new \in [1 .. MaxWidth -> Address \ DOMAIN heap] : IsInjective(new)}
New(k) == (CHOOSE new \in Unused : TRUE)[k]

\* Fault: columns that lost their last reference are kept.
StoreLeaks(written, someSeries, someFrames) ==
  /\ series' = someSeries
  /\ frames' = someFrames
  /\ heap' = Override(written, heap)

\* The state after a call that wrote `written` (columns by address) and left the
\* variables holding these references; columns no longer referenced are freed.
Store(written, someSeries, someFrames) ==
  /\ series' = someSeries
  /\ frames' = someFrames
  /\ heap' = Restrict(Override(written, heap), References(someSeries, someFrames))

Hold(holder, variable, reference) == Override([v \in {variable} |-> reference], holder)

\* Fault: the column is written where it is, shared or not.
WritableNoCopy(address, k) == address

\* _get_inner_mut: where an owner of this column may write it.
Writable(address, k) == IF Owners(address) = 1 THEN address ELSE New(k)

\* A new frame over these columns, some of them changed to `values`: the frame
\* is a clone, so that a changed column always has another owner.
CloneOf(addresses, values) ==
  [k \in DOMAIN values |->
     IF k \in DOMAIN addresses /\ heap[addresses[k]] = values[k]
     THEN addresses[k] ELSE New(k)]

\* The frame held by f, some of its columns changed to `values` in place.
InPlace(f, values) ==
  [k \in DOMAIN values |->
     IF FrameValue(f)[k] = values[k]
     THEN frames[f][k] ELSE Writable(frames[f][k], k)]

\* The columns at these addresses.
Contents(addresses, values) ==
  [a \in Range(addresses) |-> values[CHOOSE k \in DOMAIN addresses : addresses[k] = a]]

----------------------------------------------------------------------------

Init ==
  /\ heap = <<>>
  /\ series = <<>>
  /\ frames = <<>>
  /\ hollow = {}
  /\ unchecked = {}

\* Assigning a frame to x; what x held before is gone.
AssignFrame(x, addresses, values) ==
  /\ Store(Contents(addresses, values), series, Hold(frames, x, addresses))
  /\ hollow' = hollow \ {x}
  /\ unchecked' = unchecked \ {x}

AssignSeries(t, address, value) ==
  /\ Store([a \in {address} |-> value], Hold(series, t, address), frames)
  /\ UNCHANGED <<hollow, unchecked>>

\* x = Series(name, values)
NewSeries(t, column) == AssignSeries(t, New(1), column)

\* t = s.alias(name), s.as(name), s.rename(name): clone, then rename the clone.
Alias(s, t, name) ==
  IF SeriesValue(s).name = name
  THEN AssignSeries(t, series[s], SeriesValue(s))
  ELSE AssignSeries(t, New(1), Renamed(SeriesValue(s), name))

\* s.rename(name, true)
RenameInPlace(s, name) ==
  AssignSeries(s, Writable(series[s], 1), Renamed(SeriesValue(s), name))

\* s.append(other)
AppendInPlace(s, other) ==
  /\ s # other
  /\ Len(SeriesValue(s).vals) + Len(SeriesValue(other).vals) <= MaxRows
  /\ AssignSeries(s, Writable(series[s], 1),
                  Appended(SeriesValue(s), SeriesValue(other)))

\* t = s.concat(other): clone, then append to the clone.
Concat(s, other, t) ==
  /\ Len(SeriesValue(s).vals) + Len(SeriesValue(other).vals) <= MaxRows
  /\ AssignSeries(t, New(1), Appended(SeriesValue(s), SeriesValue(other)))

\* s.setAtIdx(indices, value), s[index] = value: the native series is taken out
\* of its owner and, on an error, never put back.
SetAtIdx(s, indices, value) ==
  IF IndicesFit(SeriesValue(s), indices)
  THEN AssignSeries(s, Writable(series[s], 1),
                    Overwritten(SeriesValue(s), indices, value))
  ELSE AssignSeries(s, New(1), Emptied)

----------------------------------------------------------------------------

\* x = DataFrame(array, {columns}) renames the very Series it is given, before
\* anything is checked.
ConstructFrame(x, array, columns) ==
  LET named   == NamesLeft(array, columns, [s \in Range(array) |-> SeriesValue(s)])
      Slot(s) == CHOOSE k \in DOMAIN array : array[k] = s
      owned   == [s \in DOMAIN named |->
                    IF named[s] = SeriesValue(s)
                    THEN series[s] ELSE Writable(series[s], Slot(s))]
      written == [a \in Range(owned) |->
                    named[CHOOSE s \in DOMAIN named : owned[s] = a]]
      addresses == [k \in DOMAIN array |-> owned[array[k]]]
  IN  /\ \A k \in DOMAIN array : SeriesValue(array[k]).vals # <<>>
      /\ IF Constructs(array, columns, [k \in DOMAIN array |-> named[array[k]]])
         THEN /\ Store(written, Override(owned, series), Hold(frames, x, addresses))
              /\ hollow' = hollow \ {x}
              /\ unchecked' = unchecked \ {x}
         ELSE /\ Store(written, Override(owned, series), frames)
              /\ UNCHANGED <<hollow, unchecked>>

\* x = s.toFrame()
ToFrame(s, x) ==
  /\ SeriesValue(s).vals # <<>>
  /\ AssignFrame(x, <<series[s]>>, <<SeriesValue(s)>>)

\* t = f.getColumn(name), f.name, f.toSeries(index), f.getColumns()[index]
GetColumn(f, k, t) == AssignSeries(t, frames[f][k], FrameValue(f)[k])

\* x = f.clone()
Clone(f, x) == AssignFrame(x, frames[f], FrameValue(f))

----------------------------------------------------------------------------

\* f.insertAtIdx(index, s): the frame shares the column of s.
InsertAtIdx(f, k, s) ==
  /\ Len(frames[f]) < MaxWidth
  /\ Fits(FrameValue(f), SeriesValue(s))
  /\ Store(<<>>, series, [frames EXCEPT ![f] = InsertAt(@, k, series[s])])
  /\ UNCHANGED <<hollow, unchecked>>

\* f.replaceAtIdx(index, s): only the height is checked.
ReplaceAtIdx(f, k, s) ==
  /\ Len(SeriesValue(s).vals) = Height(FrameValue(f))
  /\ Store(<<>>, series, [frames EXCEPT ![f][k] = series[s]])
  /\ LET others == {FrameValue(f)[j].name : j \in DOMAIN frames[f] \ {k}}
     IN  unchecked' = IF SeriesValue(s).name \in others
                      THEN unchecked \cup {f} ELSE unchecked
  /\ UNCHANGED hollow

\* Fault: the series is assigned without alias(prop), under its own name.
AssignColumnUnnamed(f, k, s) ==
  /\ Len(SeriesValue(s).vals) = Height(FrameValue(f))
  /\ Store(<<>>, series, [frames EXCEPT ![f][k] = series[s]])
  /\ UNCHANGED <<hollow, unchecked>>

\* f.name = s, for a column f has: replaceAtIdx with s.alias(name).
AssignColumn(f, k, s) ==
  LET value == Renamed(SeriesValue(s), FrameValue(f)[k].name)
      address == CloneOf(<<series[s]>>, <<value>>)[1]
  IN  /\ Len(value.vals) = Height(FrameValue(f))
      /\ Store([a \in {address} |-> value], series, [frames EXCEPT ![f][k] = address])
      /\ UNCHANGED <<hollow, unchecked>>

\* f.columns = names
SetColumns(f, names) ==
  LET values == WithNames(FrameValue(f), names)
  IN  /\ IsInjective(names)
      /\ Store(Contents(InPlace(f, values), values), series,
               [frames EXCEPT ![f] = InPlace(f, values)])
      /\ UNCHANGED <<hollow, unchecked>>

\* x = f.rename(mapping): rename a clone; nothing happens if an entry throws.
Rename(f, x, mapping) ==
  LET renamed == RenameEach(FrameValue(f), mapping)
      values  == WithNames(FrameValue(f), renamed.names)
  IN  renamed.ok /\ AssignFrame(x, CloneOf(frames[f], values), values)

\* Fault: drop(names) works on the receiver and not on a clone.
DropFromReceiver(f, x, names) ==
  /\ CanDrop(FrameValue(f), names)
  /\ LET kept == Kept(FrameValue(f), names)
         left == [j \in DOMAIN kept |-> frames[f][kept[j]]]
     IN  kept # <<>> /\ Store(<<>>, series, Hold(Hold(frames, f, left), x, left))
  /\ hollow' = hollow \ {x}
  /\ unchecked' = unchecked \ {x}

\* x = f.drop(name), f.drop(names)
Drop(f, x, names) ==
  /\ CanDrop(FrameValue(f), names)
  /\ LET kept == Kept(FrameValue(f), names)
     IN  /\ kept # <<>>
         /\ AssignFrame(x, [j \in DOMAIN kept |-> frames[f][kept[j]]],
                        Without(FrameValue(f), names))

\* x = f.hstack(array), and f.hstack(array, true) with x = f.
Hstack(f, x, array) ==
  LET grown == frames[f] \o [k \in DOMAIN array |-> series[array[k]]]
      values == [k \in DOMAIN grown |-> heap[grown[k]]]
  IN  /\ Len(grown) <= MaxWidth
      /\ WellFormed(values)
      /\ AssignFrame(x, grown, values)

\* x = f.withColumn(s)
WithColumn(f, x, s) ==
  LET value  == SeriesValue(s)
      values == WithColumnValue(FrameValue(f), value)
      at     == IF Has(FrameValue(f), value.name)
                THEN IndexOf(FrameValue(f), value.name) ELSE Len(values)
      origin == [k \in DOMAIN values |-> IF k = at THEN series[s] ELSE frames[f][k]]
  IN  /\ CanTake(FrameValue(f), value)
      /\ Len(values) <= MaxWidth
      /\ AssignFrame(x, CloneOf(origin, values), values)

\* Fault: vstack(other) grows the receiver and not a clone.
VstackReceiver(f, other, x) ==
  LET values == Stacked(FrameValue(f), FrameValue(other))
      grown  == InPlace(f, values)
  IN  /\ Stackable(FrameValue(f), FrameValue(other))
      /\ Height(values) <= MaxRows
      /\ Store(Contents(grown, values), series, Hold(Hold(frames, f, grown), x, grown))
      /\ hollow' = hollow \ {x}
      /\ unchecked' = unchecked \ {x}

\* x = f.vstack(other)
Vstack(f, other, x) ==
  LET values == Stacked(FrameValue(f), FrameValue(other))
  IN  /\ Stackable(FrameValue(f), FrameValue(other))
      /\ Height(values) <= MaxRows
      /\ AssignFrame(x, CloneOf(frames[f], values), values)

\* x = f.extend(other): the receiver grows in place and x wraps nothing, the
\* native call returning nothing.
Extend(f, other, x) ==
  LET values == Stacked(FrameValue(f), FrameValue(other))
  IN  /\ f # other
      /\ Stackable(FrameValue(f), FrameValue(other))
      /\ Height(values) <= MaxRows
      /\ Store(Contents(InPlace(f, values), values), series,
               Restrict([frames EXCEPT ![f] = InPlace(f, values)], DOMAIN frames \ {x}))
      /\ hollow' = hollow \cup {x}
      /\ unchecked' = unchecked \ {x}

\* An extend that throws at a column has grown some of those before it.
ExtendThrows(f, other) ==
  /\ f # other
  /\ Len(frames[f]) = Len(frames[other])
  /\ ~Stackable(FrameValue(f), FrameValue(other))
  /\ Height(FrameValue(f)) + Height(FrameValue(other)) <= MaxRows
  /\ \E upTo \in AgreeingColumns(FrameValue(f), FrameValue(other)) \ {0} :
       LET values == ExtendedUpTo(FrameValue(f), FrameValue(other), upTo)
       IN  Store(Contents(InPlace(f, values), values), series,
                 [frames EXCEPT ![f] = InPlace(f, values)])
  /\ unchecked' = unchecked \cup {f}
  /\ UNCHANGED hollow

----------------------------------------------------------------------------

SeriesCalls ==
  \E t \in SeriesVar :
    \/ \E column \in [name : ColumnName, vals : Rows] : NewSeries(t, column)
    \/ \E s \in DOMAIN series :
         \/ \E name \in GivenName : Alias(s, t, name)
         \/ \E other \in DOMAIN series : Concat(s, other, t)
    \/ \E f \in Usable : \E k \in DOMAIN frames[f] : GetColumn(f, k, t)

SeriesCallsInPlace ==
  \E s \in DOMAIN series :
    \/ \E name \in GivenName : RenameInPlace(s, name)
    \/ \E other \in DOMAIN series : AppendInPlace(s, other)
    \/ \E indices \in Indices, value \in Value : SetAtIdx(s, indices, value)

FrameCalls ==
  \E x \in FrameVar :
    \/ \E array \in NonEmpty(DOMAIN series), columns \in {<<>>} \cup NonEmpty(GivenName) :
         ConstructFrame(x, array, columns)
    \/ \E s \in DOMAIN series : ToFrame(s, x)
    \/ \E f \in Usable :
         \/ Clone(f, x)
         \/ \E mapping \in Mappings : Rename(f, x, mapping)
         \/ \E names \in NonEmpty(GivenName) : Drop(f, x, names)
         \/ \E array \in NonEmpty(DOMAIN series) : Hstack(f, x, array)
         \/ \E s \in DOMAIN series : WithColumn(f, x, s)
         \/ \E other \in Usable : Vstack(f, other, x) \/ Extend(f, other, x)

FrameCallsInPlace ==
  \E f \in Usable :
    \/ \E s \in DOMAIN series :
         \/ \E k \in 1 .. Len(frames[f]) + 1 : InsertAtIdx(f, k, s)
         \/ \E k \in DOMAIN frames[f] : ReplaceAtIdx(f, k, s) \/ AssignColumn(f, k, s)
    \/ \E names \in [DOMAIN frames[f] -> GivenName] : SetColumns(f, names)
    \/ \E other \in Usable : ExtendThrows(f, other)

Next ==
  /\ Unused # {}
  /\ SeriesCalls \/ SeriesCallsInPlace \/ FrameCalls \/ FrameCallsInPlace

Spec == Init /\ [][Next]_vars

----------------------------------------------------------------------------

\* Every reference leads to a live column, and every live column is referenced.
TypeOK ==
  /\ DOMAIN heap \subseteq Address
  /\ \A a \in DOMAIN heap : heap[a] \in [name : ColumnName, vals : {<<>>} \cup Rows]
  /\ DOMAIN series \subseteq SeriesVar
  /\ DOMAIN frames \subseteq FrameVar \cup Holder
  /\ \A f \in DOMAIN frames : frames[f] \in NonEmpty(DOMAIN heap)
  /\ DOMAIN heap = References(series, frames)
  /\ unchecked \subseteq DOMAIN frames
  /\ hollow \subseteq FrameVar \ DOMAIN frames

\* Whatever sequence of calls and failures a program goes through, a frame has
\* columns of one height under distinct names, unless replaceAtIdx was given a
\* name that was taken or an extend threw half-way.
FramesWellFormed ==
  \A f \in Usable : WellFormed(FrameValue(f)) /\ Height(FrameValue(f)) > 0

\* The step changes the rows of at most one object, a frame or a Series.
OneWritten ==
  LET changedSeries == {s \in DOMAIN series \cap DOMAIN series' :
                          SeriesValue(s)' # SeriesValue(s)}
      changedFrames == {f \in DOMAIN frames \cap DOMAIN frames' :
                          FrameValue(f)' # FrameValue(f)}
  IN  /\ Cardinality(changedFrames) <= 1
      /\ changedFrames # {} => \A s \in changedSeries :
           SeriesValue(s)'.vals = SeriesValue(s).vals
      /\ Cardinality({s \in changedSeries :
           SeriesValue(s)'.vals # SeriesValue(s).vals}) <= 1

\* A call changes the rows of at most one object: no other Series or DataFrame,
\* though it may share the native column, sees the write.
NoSharedWrites == [][OneWritten]_vars

\* However native columns are shared, the program sees values: the store
\* implements ValueStore.
Values == INSTANCE ValueStore WITH
  seriesOf <- [s \in DOMAIN series |-> SeriesValue(s)],
  frameOf  <- [f \in DOMAIN frames \cap FrameVar |-> FrameValue(f)]

KeepsValues == Values!Spec
=============================================================================
