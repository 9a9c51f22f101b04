----------------------------- MODULE ValueStore -----------------------------
(***************************************************************************)
(* What Series and DataFrame promise a JavaScript program: every variable  *)
(* holds a value of its own.  A call computes its result from the values of*)
(* its receiver and arguments, and gives it to one variable: the receiver  *)
(* of a call in place, the variable assigned to otherwise.  Only the       *)
(* DataFrame constructor also renames the Series it is given.              *)
(***************************************************************************)
EXTENDS FrameValues

CONSTANTS
  SeriesVar,   \* variables that may hold a Series
  FrameVar     \* variables that may hold a DataFrame

VARIABLES
  seriesOf,   \* the column each Series variable holds
  frameOf     \* the frame each DataFrame variable holds

values == <<seriesOf, frameOf>>

Init ==
  /\ seriesOf = <<>>
  /\ frameOf = <<>>

Holding(holder, variable, value) == Override([v \in {variable} |-> value], holder)
Forgetting(holder, variable)     == Restrict(holder, DOMAIN holder \ {variable})

\* A call gives the series t a value among these; nothing else changes.
SeriesGiven(t, results) ==
  /\ UNCHANGED frameOf
  /\ t \in DOMAIN seriesOf'
  /\ seriesOf' = Holding(seriesOf, t, seriesOf'[t])
  /\ seriesOf'[t] \in results

\* A call gives the frame x a value that satisfies Results; nothing else changes.
FrameGiven(x, Results(_)) ==
  /\ UNCHANGED seriesOf
  /\ x \in DOMAIN frameOf'
  /\ frameOf' = Holding(frameOf, x, frameOf'[x])
  /\ Results(frameOf'[x])

NewSeriesResults == [name : ColumnName, vals : Rows]
AliasResults     == {Renamed(seriesOf[s], name) : s \in DOMAIN seriesOf, name \in GivenName}
ConcatResults    == {Appended(seriesOf[s], seriesOf[other]) :
                       s \in DOMAIN seriesOf, other \in DOMAIN seriesOf}
ColumnResults    == UNION {ToSet(frameOf[f]) : f \in DOMAIN frameOf}

SeriesCall ==
  \E t \in SeriesVar :
    SeriesGiven(t, NewSeriesResults \cup AliasResults \cup ConcatResults \cup ColumnResults)

\* setAtIdx writes the values or, when it throws, leaves the Series empty.
SetAtIdx ==
  \E s \in DOMAIN seriesOf, indices \in Indices, value \in Value :
    SeriesGiven(s, {IF IndicesFit(seriesOf[s], indices)
                    THEN Overwritten(seriesOf[s], indices, value) ELSE Emptied})

\* The constructor names its arguments, also when it throws.
ConstructFrame ==
  \E x \in FrameVar, array \in NonEmpty(DOMAIN seriesOf),
     columns \in {<<>>} \cup NonEmpty(GivenName) :
    LET named == NamesLeft(array, columns, seriesOf)
        frame == [k \in DOMAIN array |-> named[array[k]]]
    IN  /\ seriesOf' = Override(named, seriesOf)
        /\ frameOf' = IF Constructs(array, columns, frame)
                      THEN Holding(frameOf, x, frame) ELSE frameOf

\* f.clone(), f.rename(mapping), f.drop(names), s.toFrame()
IsCopy(frame)        == frame \in Range(frameOf)
IsSeriesFrame(frame) == \E s \in DOMAIN seriesOf : frame = <<seriesOf[s]>>
IsRenamed(frame) ==
  \E f \in DOMAIN frameOf, mapping \in Mappings :
    /\ Len(frame) = Len(frameOf[f])
    /\ RenameEach(frameOf[f], mapping) = [ok |-> TRUE, names |-> NamesOf(frame)]
    /\ frame = WithNames(frameOf[f], NamesOf(frame))
IsDropped(frame) ==
  \E f \in DOMAIN frameOf, names \in NonEmpty(GivenName) :
    CanDrop(frameOf[f], names) /\ frame = Without(frameOf[f], names)

\* f.hstack(array), f.withColumn(s), f.vstack(other)
IsWider(frame) ==
  /\ WellFormed(frame)
  /\ \E f \in DOMAIN frameOf, array \in NonEmpty(DOMAIN seriesOf) :
       frame = frameOf[f] \o [k \in DOMAIN array |-> seriesOf[array[k]]]
IsWithColumn(frame) ==
  \E f \in DOMAIN frameOf, s \in DOMAIN seriesOf :
    /\ CanTake(frameOf[f], seriesOf[s])
    /\ frame = WithColumnValue(frameOf[f], seriesOf[s])
IsStacked(frame) ==
  \E f, other \in DOMAIN frameOf :
    /\ Stackable(frameOf[f], frameOf[other])
    /\ frame = Stacked(frameOf[f], frameOf[other])

FrameCall ==
  \E x \in FrameVar :
    FrameGiven(x, LAMBDA frame :
      \/ IsCopy(frame) \/ IsSeriesFrame(frame) \/ IsRenamed(frame) \/ IsDropped(frame)
      \/ IsWider(frame) \/ IsWithColumn(frame) \/ IsStacked(frame))

\* f.insertAtIdx(index, s), f.replaceAtIdx(index, s), f.name = s, f.columns = names
FrameCallInPlace ==
  \E f \in DOMAIN frameOf :
    FrameGiven(f, LAMBDA frame :
      \/ \E s \in DOMAIN seriesOf, k \in 1 .. Len(frameOf[f]) + 1 :
           Fits(frameOf[f], seriesOf[s]) /\ frame = InsertAt(frameOf[f], k, seriesOf[s])
      \/ \E s \in DOMAIN seriesOf, k \in DOMAIN frameOf[f] :
           /\ Len(seriesOf[s].vals) = Height(frameOf[f])
           /\ frame[k] \in {seriesOf[s], Renamed(seriesOf[s], frameOf[f][k].name)}
           /\ frame = [frameOf[f] EXCEPT ![k] = frame[k]]
      \/ /\ WellFormed(frame)
         /\ Len(frame) = Len(frameOf[f])
         /\ frame = WithNames(frameOf[f], NamesOf(frame)))

\* extend grows its receiver, in the columns before the first mismatch when it
\* throws; the variable its result is assigned to holds no frame.
Extend ==
  \E f, other \in DOMAIN frameOf :
    /\ f # other
    /\ UNCHANGED seriesOf
    /\ \/ \E x \in FrameVar :
            /\ Stackable(frameOf[f], frameOf[other])
            /\ frameOf' = Forgetting(Holding(frameOf, f, Stacked(frameOf[f], frameOf[other])), x)
       \/ /\ Len(frameOf[f]) = Len(frameOf[other])
          /\ ~Stackable(frameOf[f], frameOf[other])
          /\ \E upTo \in AgreeingColumns(frameOf[f], frameOf[other]) \ {0} :
               frameOf' = Holding(frameOf, f, ExtendedUpTo(frameOf[f], frameOf[other], upTo))

Next == SeriesCall \/ SetAtIdx \/ ConstructFrame \/ FrameCall \/ FrameCallInPlace \/ Extend

Spec == Init /\ [][Next]_values
=============================================================================
