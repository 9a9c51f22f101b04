------------------------- MODULE ColumnStoreProofs -------------------------
(***************************************************************************)
(* The column store, for any variables, addresses and bounds: references   *)
(* and frames stay well-formed, and a program sees values.                 *)
(***************************************************************************)
EXTENDS ColumnStore, FrameValuesProofs, FiniteSetTheorems

\* Only finitely many variables are assigned at any time, so that owners can be
\* counted.
FinitelyMany == IsFiniteSet(DOMAIN series) /\ IsFiniteSet(DOMAIN frames)

StoreInv == TypeOK /\ FramesWellFormed /\ FinitelyMany

\* The column at this address has no owner but, possibly, the series t.
OnlySeries(t, address) ==
  /\ \A s \in DOMAIN series \ {t} : series[s] # address
  /\ \A f \in DOMAIN frames : address \notin Range(frames[f])

\* Nor has it one but, possibly, the frame f.
OnlyFrame(f, address) ==
  /\ \A s \in DOMAIN series : series[s] # address
  /\ \A g \in DOMAIN frames \ {f} : address \notin Range(frames[g])
-----------------------------------------------------------------------------
(* Counting owners.                                                        *)

\* The owners of an address are finitely many.
LEMMA OwnerSets ==
  ASSUME FinitelyMany, NEW a
  PROVE  /\ IsFiniteSet({s \in DOMAIN series : series[s] = a})
         /\ IsFiniteSet({slot \in (DOMAIN frames) \X (1 .. MaxWidth) :
              slot[2] \in DOMAIN frames[slot[1]] /\ frames[slot[1]][slot[2]] = a})
<1>1. IsFiniteSet(1 .. MaxWidth)
  BY Bounds, FS_Interval
<1>2. IsFiniteSet((DOMAIN frames) \X (1 .. MaxWidth))
  BY <1>1, FS_Product DEF FinitelyMany
<1>3. {s \in DOMAIN series : series[s] = a} \in SUBSET DOMAIN series
  OBVIOUS
<1>4. {slot \in (DOMAIN frames) \X (1 .. MaxWidth) :
         slot[2] \in DOMAIN frames[slot[1]] /\ frames[slot[1]][slot[2]] = a}
       \in SUBSET ((DOMAIN frames) \X (1 .. MaxWidth))
  OBVIOUS
<1>5. IsFiniteSet({s \in DOMAIN series : series[s] = a})
  BY <1>3, FS_Subset DEF FinitelyMany
<1> QED
  BY <1>2, <1>4, <1>5, FS_Subset

\* The only owner, when it is a series.
LEMMA SeriesAlone ==
  ASSUME TypeOK, FinitelyMany, NEW t \in DOMAIN series, Owners(series[t]) = 1
  PROVE  OnlySeries(t, series[t])
<1> DEFINE a == series[t]
           A == {s \in DOMAIN series : series[s] = a}
           B == {slot \in (DOMAIN frames) \X (1 .. MaxWidth) :
                   slot[2] \in DOMAIN frames[slot[1]] /\ frames[slot[1]][slot[2]] = a}
<1>1. IsFiniteSet(A) /\ IsFiniteSet(B)
  BY OwnerSets
<1>2. t \in A
  OBVIOUS
<1>3. Cardinality(A) + Cardinality(B) = 1
  BY DEF Owners
<1>4. \A f \in DOMAIN frames : \A k \in DOMAIN frames[f] :
        frames[f][k] = a => <<f, k>> \in B
  <2> TAKE f \in DOMAIN frames
  <2> TAKE k \in DOMAIN frames[f]
  <2>1. k \in 1 .. MaxWidth
    BY NonEmptySeq DEF TypeOK
  <2> QED
    BY <2>1
<1>5. \A s \in DOMAIN series : series[s] = a => s \in A
  OBVIOUS
<1> HIDE DEF A, B
<1>6. Cardinality(A) \in Nat /\ Cardinality(B) \in Nat /\ Cardinality(A) # 0
  BY <1>1, <1>2, FS_CardinalityType, FS_EmptySet
<1>7. Cardinality(A) = 1 /\ Cardinality(B) = 0
  BY <1>3, <1>6
<1>8. B = {} /\ \E x : A = {x}
  BY <1>1, <1>7, FS_EmptySet, FS_Singleton
<1> QED
  BY <1>2, <1>4, <1>5, <1>8 DEF OnlySeries, Range

\* The only owner, when it is a column of a frame.
LEMMA FrameAlone ==
  ASSUME TypeOK, FinitelyMany, NEW f \in DOMAIN frames, NEW k \in DOMAIN frames[f],
         Owners(frames[f][k]) = 1
  PROVE  OnlyFrame(f, frames[f][k])
<1> DEFINE a == frames[f][k]
           A == {s \in DOMAIN series : series[s] = a}
           B == {slot \in (DOMAIN frames) \X (1 .. MaxWidth) :
                   slot[2] \in DOMAIN frames[slot[1]] /\ frames[slot[1]][slot[2]] = a}
<1>1. IsFiniteSet(A) /\ IsFiniteSet(B)
  BY OwnerSets
<1>2. \A g \in DOMAIN frames : \A j \in DOMAIN frames[g] :
        frames[g][j] = a => <<g, j>> \in B
  <2> TAKE g \in DOMAIN frames
  <2> TAKE j \in DOMAIN frames[g]
  <2>1. j \in 1 .. MaxWidth
    BY NonEmptySeq DEF TypeOK
  <2> QED
    BY <2>1
<1>3. <<f, k>> \in B
  BY <1>2
<1>4. Cardinality(A) + Cardinality(B) = 1
  BY DEF Owners
<1>5. \A s \in DOMAIN series : series[s] = a => s \in A
  OBVIOUS
<1> HIDE DEF A, B
<1>6. Cardinality(A) \in Nat /\ Cardinality(B) \in Nat /\ Cardinality(B) # 0
  BY <1>1, <1>3, FS_CardinalityType, FS_EmptySet
<1>7. Cardinality(B) = 1 /\ Cardinality(A) = 0
  BY <1>4, <1>6
<1>8. A = {} /\ \E x : B = {x}
  BY <1>1, <1>7, FS_EmptySet, FS_Singleton
<1>9. \A g \in DOMAIN frames : \A j \in DOMAIN frames[g] : frames[g][j] = a => g = f
  BY <1>2, <1>3, <1>8
<1> QED
  BY <1>5, <1>8, <1>9 DEF OnlyFrame, Range

\* The addresses that a call copies columns to are new, and different.
LEMMA Fresh ==
  ASSUME Unused # {}
  PROVE  /\ \A k \in 1 .. MaxWidth : New(k) \in Address \ DOMAIN heap
         /\ \A j, k \in 1 .. MaxWidth : New(j) = New(k) => j = k
<1>1. (CHOOSE new \in Unused : TRUE) \in Unused
  OBVIOUS
<1> QED
  BY <1>1 DEF New, Unused, IsInjective
-----------------------------------------------------------------------------
(* What Store leaves.                                                      *)

\* The column found at an address after a call that wrote `written`.
Found(written, a) == IF a \in DOMAIN written THEN written[a] ELSE heap[a]

\* TypeOK of the references and the columns alone.
ReferencesOK ==
  /\ DOMAIN heap \subseteq Address
  /\ \A a \in DOMAIN heap : heap[a] \in ColumnType
  /\ DOMAIN series \subseteq SeriesVar
  /\ DOMAIN frames \subseteq FrameVar \cup Holder
  /\ \A f \in DOMAIN frames : frames[f] \in NonEmpty(DOMAIN heap)
  /\ DOMAIN heap = References(series, frames)

\* What a variable refers to is live.
LEMMA OwnedIsLive ==
  ASSUME ReferencesOK
  PROVE  /\ \A s \in DOMAIN series : series[s] \in DOMAIN heap
         /\ \A f \in DOMAIN frames : \A k \in DOMAIN frames[f] : frames[f][k] \in DOMAIN heap
BY DEF ReferencesOK, References, Range

\* A call that wrote these columns and left the variables with these references,
\* those of all but the series S and the frames F being as before, and a column that
\* was live is only changed when those alone see it.
Assigns(written, ss, ff, S, F) ==
  /\ DOMAIN written \subseteq Address
  /\ \A a \in DOMAIN written : written[a] \in ColumnType
  /\ DOMAIN ss \subseteq SeriesVar /\ DOMAIN ff \subseteq FrameVar \cup Holder
  /\ \A s \in DOMAIN ss : ss[s] \in DOMAIN written \cup DOMAIN heap
  /\ \A f \in DOMAIN ff : ff[f] \in NonEmpty(DOMAIN written \cup DOMAIN heap)
  /\ \A s \in DOMAIN ss \ S : s \in DOMAIN series /\ ss[s] = series[s]
  /\ \A f \in DOMAIN ff \ F : f \in DOMAIN frames /\ ff[f] = frames[f]
  /\ \A a \in DOMAIN written \cap DOMAIN heap :
       \/ written[a] = heap[a]
       \/ /\ \A s \in DOMAIN ss \ S : ss[s] # a
          /\ \A f \in DOMAIN ff \ F : a \notin Range(ff[f])

\* No other variable sees the write.
LEMMA Stored ==
  ASSUME ReferencesOK, NEW written, NEW ss, NEW ff, NEW S, NEW F,
         Assigns(written, ss, ff, S, F), Store(written, ss, ff)
  PROVE  /\ series' = ss /\ frames' = ff
         /\ ReferencesOK'
         /\ \A s \in DOMAIN ss : SeriesValue(s)' = Found(written, ss[s])
         /\ \A f \in DOMAIN ff :
              FrameValue(f)' = [k \in DOMAIN ff[f] |-> Found(written, ff[f][k])]
         /\ \A s \in DOMAIN ss \ S : SeriesValue(s)' = SeriesValue(s)
         /\ \A f \in DOMAIN ff \ F : FrameValue(f)' = FrameValue(f)
<1>1. /\ series' = ss /\ frames' = ff
      /\ DOMAIN heap' = References(ss, ff)
      /\ heap' = Restrict(Override(written, heap), References(ss, ff))
  BY DEF Store, Restrict
<1>2. \A f \in DOMAIN ff : \A k \in DOMAIN ff[f] :
        ff[f][k] \in DOMAIN written \cup DOMAIN heap
  BY NonEmptySeq DEF Assigns
<1>3. \A a \in References(ss, ff) : a \in DOMAIN written \cup DOMAIN heap
  BY <1>2 DEF References, Range, Assigns
<1>4. \A a \in References(ss, ff) : heap'[a] = Found(written, a)
  BY <1>1, <1>3 DEF Restrict, Override, Found
<1>5. /\ \A s \in DOMAIN ss : ss[s] \in References(ss, ff)
      /\ \A f \in DOMAIN ff : \A k \in DOMAIN ff[f] : ff[f][k] \in References(ss, ff)
  BY DEF References, Range
<1>6. /\ \A s \in DOMAIN ss : SeriesValue(s)' = Found(written, ss[s])
      /\ \A f \in DOMAIN ff :
           FrameValue(f)' = [k \in DOMAIN ff[f] |-> Found(written, ff[f][k])]
  BY <1>1, <1>4, <1>5 DEF SeriesValue, FrameValue
<1>7. ReferencesOK'
  <2>1. DOMAIN heap' \subseteq Address
    BY <1>1, <1>3 DEF ReferencesOK, Assigns
  <2>2. \A a \in DOMAIN heap' : heap'[a] \in ColumnType
    BY <1>1, <1>3, <1>4 DEF ReferencesOK, Found, Assigns
  <2>3. ASSUME NEW f \in DOMAIN ff PROVE ff[f] \in NonEmpty(References(ss, ff))
    <3>1. PICK n \in 1 .. MaxWidth : ff[f] \in [1 .. n -> DOMAIN written \cup DOMAIN heap]
      BY DEF NonEmpty, Assigns
    <3>2. ff[f] \in [1 .. n -> References(ss, ff)]
      BY <1>5, <3>1
    <3> QED
      BY <3>2, SeqNonEmpty
  <2> QED
    BY <1>1, <2>1, <2>2, <2>3 DEF ReferencesOK, Assigns
<1>8. ASSUME NEW s \in DOMAIN ss \ S PROVE SeriesValue(s)' = SeriesValue(s)
  <2>1. ss[s] \in DOMAIN heap
    BY OwnedIsLive DEF Assigns
  <2> QED
    BY <1>6, <2>1 DEF SeriesValue, Found, Assigns
<1>9. ASSUME NEW f \in DOMAIN ff \ F PROVE FrameValue(f)' = FrameValue(f)
  <2>1. \A k \in DOMAIN ff[f] : ff[f][k] \in DOMAIN heap
    BY OwnedIsLive DEF Assigns
  <2>2. \A k \in DOMAIN ff[f] : Found(written, ff[f][k]) = heap[ff[f][k]]
    BY <2>1 DEF Found, Range, Assigns
  <2> QED
    BY <1>6, <2>2 DEF FrameValue, Assigns
<1> QED
  BY <1>1, <1>6, <1>7, <1>8, <1>9
-----------------------------------------------------------------------------
(* What a call gives to one variable.                                      *)

\* The series t holds `value`, every other variable what it held.
SeriesTakes(t, value) ==
  /\ DOMAIN series' = DOMAIN series \cup {t} /\ DOMAIN frames' = DOMAIN frames
  /\ SeriesValue(t)' = value
  /\ \A s \in DOMAIN series \ {t} : SeriesValue(s)' = SeriesValue(s)
  /\ \A f \in DOMAIN frames : FrameValue(f)' = FrameValue(f)

\* The frame x holds `value`, every other variable what it held.
FrameTakes(x, value) ==
  /\ DOMAIN series' = DOMAIN series /\ DOMAIN frames' = DOMAIN frames \cup {x}
  /\ FrameValue(x)' = value
  /\ \A s \in DOMAIN series : SeriesValue(s)' = SeriesValue(s)
  /\ \A f \in DOMAIN frames \ {x} : FrameValue(f)' = FrameValue(f)

\* The parts of TypeOK, in the order the calls use them.
LEMMA TypeParts ==
  TypeOK <=> /\ ReferencesOK
             /\ unchecked \subseteq DOMAIN frames
             /\ hollow \subseteq FrameVar \ DOMAIN frames
BY DEF TypeOK, ReferencesOK, ColumnType

\* The same after a step.
LEMMA TypePartsAfter ==
  TypeOK' <=> /\ ReferencesOK'
              /\ unchecked' \subseteq DOMAIN frames'
              /\ hollow' \subseteq FrameVar \ DOMAIN frames'
BY DEF TypeOK, ReferencesOK, ColumnType

\* The column written is new, or unchanged, or was t's alone.
LEMMA SeriesAssigned ==
  ASSUME StoreInv, NEW t \in SeriesVar, NEW address \in Address, NEW value \in ColumnType,
         AssignSeries(t, address, value),
         \/ address \notin DOMAIN heap
         \/ address \in DOMAIN heap /\ heap[address] = value
         \/ OnlySeries(t, address)
  PROVE  StoreInv' /\ SeriesTakes(t, value)
<1> DEFINE ss == Hold(series, t, address)
           written == [a \in {address} |-> value]
<1>1. ReferencesOK /\ unchecked \subseteq DOMAIN frames /\ hollow \subseteq FrameVar \ DOMAIN frames
  BY TypeParts DEF StoreInv
<1>2. /\ DOMAIN ss = DOMAIN series \cup {t} /\ ss[t] = address
      /\ \A s \in DOMAIN series \ {t} : ss[s] = series[s]
      /\ DOMAIN written = {address} /\ written[address] = value
  BY DEF Hold, Override
<1>3. Store(written, ss, frames) /\ UNCHANGED <<hollow, unchecked>>
  BY DEF AssignSeries
<1> HIDE DEF ss, written
<1>4. DOMAIN ss \subseteq SeriesVar /\ DOMAIN frames \subseteq FrameVar \cup Holder
  BY <1>1, <1>2 DEF ReferencesOK
<1>5. \A s \in DOMAIN ss : ss[s] \in DOMAIN written \cup DOMAIN heap
  BY <1>1, <1>2, OwnedIsLive
<1>6. \A f \in DOMAIN frames : frames[f] \in NonEmpty(DOMAIN written \cup DOMAIN heap)
  <2> TAKE f \in DOMAIN frames
  <2>1. PICK n \in 1 .. MaxWidth : frames[f] \in [1 .. n -> DOMAIN heap]
    BY <1>1 DEF ReferencesOK, NonEmpty
  <2> QED
    BY <2>1, SeqNonEmpty
<1>7. \A s \in DOMAIN ss \ {t} : s \in DOMAIN series /\ ss[s] = series[s]
  BY <1>2
<1>8. \A a \in DOMAIN written \cap DOMAIN heap :
           \/ written[a] = heap[a]
           \/ /\ \A s \in DOMAIN ss \ {t} : ss[s] # a
              /\ \A f \in DOMAIN frames \ {} : a \notin Range(frames[f])
  BY <1>2 DEF OnlySeries
<1>9. /\ series' = ss /\ frames' = frames
      /\ ReferencesOK'
      /\ \A s \in DOMAIN ss : SeriesValue(s)' = Found(written, ss[s])
      /\ \A s \in DOMAIN ss \ {t} : SeriesValue(s)' = SeriesValue(s)
      /\ \A f \in DOMAIN frames \ {} : FrameValue(f)' = FrameValue(f)
  <2>1. /\ DOMAIN written \subseteq Address
        /\ \A a \in DOMAIN written : written[a] \in ColumnType
        /\ \A f \in DOMAIN frames \ {} : f \in DOMAIN frames /\ frames[f] = frames[f]
    BY <1>2
  <2>2. Assigns(written, ss, frames, {t}, {})
    BY <1>4, <1>5, <1>6, <1>7, <1>8, <2>1 DEF Assigns
  <2> QED
    BY <1>1, <1>3, <2>2, Stored
<1>10. SeriesTakes(t, value)
  BY <1>2, <1>9 DEF SeriesTakes, Found
<1>11. TypeOK'
  BY <1>1, <1>3, <1>9, TypePartsAfter
<1>12. FramesWellFormed'
  <2>1. Usable' = Usable
    BY <1>3, <1>9 DEF Usable
  <2>2. \A f \in Usable : FrameValue(f)' = FrameValue(f)
    BY <1>9 DEF Usable
  <2> QED
    BY <2>1, <2>2 DEF FramesWellFormed, StoreInv
<1>13. FinitelyMany'
  BY <1>2, <1>9, FS_AddElement DEF FinitelyMany, StoreInv
<1> QED
  BY <1>10, <1>11, <1>12, <1>13 DEF StoreInv

\* The same of a frame, when it has these columns at these addresses.
LEMMA FrameWritten ==
  ASSUME ReferencesOK, NEW x \in FrameVar \cup Holder, NEW n \in 1 .. MaxWidth,
         NEW addresses \in [1 .. n -> Address], NEW values \in [1 .. n -> ColumnType],
         NEW written, DOMAIN written \subseteq Address,
         \A a \in DOMAIN written : written[a] \in ColumnType,
         \A k \in 1 .. n :
           /\ addresses[k] \in DOMAIN written \cup DOMAIN heap
           /\ Found(written, addresses[k]) = values[k],
         \A a \in DOMAIN written \cap DOMAIN heap : written[a] = heap[a] \/ OnlyFrame(x, a),
         Store(written, series, Hold(frames, x, addresses))
  PROVE  /\ series' = series /\ frames' = Hold(frames, x, addresses)
         /\ ReferencesOK'
         /\ FrameTakes(x, values)
<1> DEFINE ff == Hold(frames, x, addresses)
<1>1. /\ DOMAIN ff = DOMAIN frames \cup {x} /\ ff[x] = addresses
      /\ \A f \in DOMAIN frames \ {x} : ff[f] = frames[f]
  BY DEF Hold, Override
<1>2. Store(written, series, ff)
  OBVIOUS
<1> HIDE DEF ff
<1>3. DOMAIN series \subseteq SeriesVar /\ DOMAIN ff \subseteq FrameVar \cup Holder
  BY <1>1 DEF ReferencesOK
<1>4. \A s \in DOMAIN series : series[s] \in DOMAIN written \cup DOMAIN heap
  BY OwnedIsLive
<1>5. ASSUME NEW f \in DOMAIN ff PROVE ff[f] \in NonEmpty(DOMAIN written \cup DOMAIN heap)
  <2>1. CASE f = x
    <3>1. addresses \in [1 .. n -> DOMAIN written \cup DOMAIN heap]
      OBVIOUS
    <3> QED
      BY <1>1, <2>1, <3>1, SeqNonEmpty
  <2>2. CASE f # x
    <3>1. PICK m \in 1 .. MaxWidth : frames[f] \in [1 .. m -> DOMAIN heap]
      BY <1>1, <2>2 DEF ReferencesOK, NonEmpty
    <3> QED
      BY <1>1, <2>2, <3>1, SeqNonEmpty
  <2> QED
    BY <2>1, <2>2
<1>6. /\ \A s \in DOMAIN series \ {} : s \in DOMAIN series /\ series[s] = series[s]
      /\ \A f \in DOMAIN ff \ {x} : f \in DOMAIN frames /\ ff[f] = frames[f]
  BY <1>1
<1>7. \A a \in DOMAIN written \cap DOMAIN heap :
           \/ written[a] = heap[a]
           \/ /\ \A s \in DOMAIN series \ {} : series[s] # a
              /\ \A f \in DOMAIN ff \ {x} : a \notin Range(ff[f])
  BY <1>1 DEF OnlyFrame
<1>8. /\ series' = series /\ frames' = ff
      /\ ReferencesOK'
      /\ \A f \in DOMAIN ff :
           FrameValue(f)' = [k \in DOMAIN ff[f] |-> Found(written, ff[f][k])]
      /\ \A s \in DOMAIN series \ {} : SeriesValue(s)' = SeriesValue(s)
      /\ \A f \in DOMAIN ff \ {x} : FrameValue(f)' = FrameValue(f)
  <2>1. Assigns(written, series, ff, {}, {x})
    BY <1>3, <1>4, <1>5, <1>6, <1>7 DEF Assigns
  <2> QED
    BY <1>2, <2>1, Stored
<1>9. FrameValue(x)' = values
  BY <1>1, <1>8
<1> QED
  BY <1>1, <1>8, <1>9 DEF FrameTakes, ff

\* Where a frame may keep its columns: a column at an address is new, or
\* unchanged, or was this frame's alone, and there is one of it.
Placed(x, n, addresses, columns) ==
  /\ addresses \in [1 .. n -> Address] /\ columns \in [1 .. n -> ColumnType]
  /\ \A j, k \in 1 .. n : addresses[j] = addresses[k] => columns[j] = columns[k]
  /\ \A k \in 1 .. n :
       \/ addresses[k] \notin DOMAIN heap
       \/ addresses[k] \in DOMAIN heap /\ heap[addresses[k]] = columns[k]
       \/ OnlyFrame(x, addresses[k])

\* What is written at the places of some columns.
LEMMA ContentsFound ==
  ASSUME NEW x, NEW n \in 1 .. MaxWidth, NEW addresses, NEW columns,
         Placed(x, n, addresses, columns)
  PROVE  /\ DOMAIN Contents(addresses, columns) = Range(addresses)
         /\ \A k \in 1 .. n :
              /\ addresses[k] \in DOMAIN Contents(addresses, columns)
              /\ Contents(addresses, columns)[addresses[k]] = columns[k]
<1>1. DOMAIN addresses = 1 .. n
  BY DEF Placed
<1>2. ASSUME NEW k \in 1 .. n PROVE Contents(addresses, columns)[addresses[k]] = columns[k]
  <2> DEFINE j == CHOOSE j \in DOMAIN addresses : addresses[j] = addresses[k]
  <2>1. j \in DOMAIN addresses /\ addresses[j] = addresses[k]
    BY <1>1
  <2>2. columns[j] = columns[k]
    BY <1>1, <2>1 DEF Placed
  <2>3. Contents(addresses, columns)[addresses[k]] = columns[j]
    BY <1>1 DEF Contents, Range
  <2> QED
    BY <2>2, <2>3
<1> QED
  BY <1>1, <1>2 DEF Contents, Range

\* A frame put at its places takes the value of its columns.
LEMMA FrameStored ==
  ASSUME ReferencesOK, NEW x \in FrameVar \cup Holder, NEW n \in 1 .. MaxWidth,
         NEW addresses, NEW columns, Placed(x, n, addresses, columns),
         Store(Contents(addresses, columns), series, Hold(frames, x, addresses))
  PROVE  /\ series' = series /\ frames' = Hold(frames, x, addresses)
         /\ ReferencesOK'
         /\ FrameTakes(x, columns)
<1> DEFINE written == Contents(addresses, columns)
<1>1. /\ DOMAIN written = Range(addresses)
      /\ \A k \in 1 .. n : addresses[k] \in DOMAIN written /\ written[addresses[k]] = columns[k]
  BY ContentsFound
<1>2. Store(written, series, Hold(frames, x, addresses))
  OBVIOUS
<1> HIDE DEF written
<1>3. addresses \in [1 .. n -> Address] /\ columns \in [1 .. n -> ColumnType]
  BY DEF Placed
<1>4. \A a \in DOMAIN written : \E k \in 1 .. n : a = addresses[k]
  BY <1>1, <1>3 DEF Range
<1>5. /\ DOMAIN written \subseteq Address
      /\ \A a \in DOMAIN written : written[a] \in ColumnType
  BY <1>1, <1>3, <1>4
<1>6. \A k \in 1 .. n :
        /\ addresses[k] \in DOMAIN written \cup DOMAIN heap
        /\ Found(written, addresses[k]) = columns[k]
  BY <1>1 DEF Found
<1>7. \A a \in DOMAIN written \cap DOMAIN heap : written[a] = heap[a] \/ OnlyFrame(x, a)
  BY <1>1, <1>4 DEF Placed
<1> QED
  BY <1>2, <1>3, <1>5, <1>6, <1>7, FrameWritten

\* A frame that was given its columns is well-formed, or said not to be.
LEMMA FrameSettled ==
  ASSUME StoreInv, ReferencesOK', NEW x, NEW columns, FrameTakes(x, columns),
         unchecked' \subseteq DOMAIN frames', hollow' \subseteq FrameVar \ DOMAIN frames',
         unchecked \ {x} \subseteq unchecked',
         x \in FrameVar \ unchecked' => WellFormed(columns) /\ Height(columns) > 0
  PROVE  StoreInv'
<1>1. TypeOK'
  BY TypePartsAfter
<1>2. FinitelyMany'
  BY FS_AddElement DEF FinitelyMany, FrameTakes, StoreInv
<1>3. ASSUME NEW f \in Usable'
      PROVE  WellFormed(FrameValue(f)') /\ Height(FrameValue(f)') > 0
  <2>1. CASE f = x
    BY <1>3, <2>1 DEF Usable, FrameTakes
  <2>2. CASE f # x
    <3>1. f \in Usable
      BY <1>3, <2>2 DEF Usable, FrameTakes
    <3>2. FrameValue(f)' = FrameValue(f)
      BY <2>2, <3>1 DEF Usable, FrameTakes
    <3> QED
      BY <3>1, <3>2 DEF StoreInv, FramesWellFormed
  <2> QED
    BY <2>1, <2>2
<1>4. FramesWellFormed'
  BY <1>3 DEF FramesWellFormed, WellFormed, Height
<1> QED
  BY <1>1, <1>2, <1>4 DEF StoreInv

\* x = a new frame.
LEMMA FrameAssigned ==
  ASSUME StoreInv, NEW x \in FrameVar \cup Holder, NEW n \in 1 .. MaxWidth,
         NEW addresses, NEW columns, Placed(x, n, addresses, columns),
         x \in FrameVar => WellFormed(columns) /\ Height(columns) > 0,
         AssignFrame(x, addresses, columns)
  PROVE  StoreInv' /\ FrameTakes(x, columns)
<1>1. /\ ReferencesOK /\ unchecked \subseteq DOMAIN frames
      /\ hollow \subseteq FrameVar \ DOMAIN frames
  BY TypeParts DEF StoreInv
<1>2. ReferencesOK' /\ FrameTakes(x, columns)
  BY <1>1, FrameStored DEF AssignFrame
<1>3. hollow' = hollow \ {x} /\ unchecked' = unchecked \ {x}
  BY DEF AssignFrame
<1>4. /\ unchecked' \subseteq DOMAIN frames' /\ hollow' \subseteq FrameVar \ DOMAIN frames'
      /\ unchecked \ {x} \subseteq unchecked'
  BY <1>1, <1>2, <1>3 DEF FrameTakes
<1> QED
  BY <1>2, <1>4, FrameSettled
-----------------------------------------------------------------------------
(* What variables hold.                                                    *)

\* A Series refers to a live column.
LEMMA SeriesColumn ==
  ASSUME StoreInv, NEW s \in DOMAIN series
  PROVE  /\ s \in SeriesVar /\ series[s] \in Address /\ series[s] \in DOMAIN heap
         /\ SeriesValue(s) = heap[series[s]] /\ SeriesValue(s) \in ColumnType
<1>1. ReferencesOK
  BY TypeParts DEF StoreInv
<1>2. series[s] \in DOMAIN heap
  BY <1>1, OwnedIsLive
<1> QED
  BY <1>1, <1>2 DEF SeriesValue, ReferencesOK

\* A frame refers to as many live columns as it is wide.
LEMMA FrameColumns ==
  ASSUME StoreInv, NEW f \in DOMAIN frames
  PROVE  /\ Len(frames[f]) \in 1 .. MaxWidth
         /\ DOMAIN frames[f] = 1 .. Len(frames[f])
         /\ frames[f] \in [1 .. Len(frames[f]) -> Address]
         /\ FrameValue(f) \in [1 .. Len(frames[f]) -> ColumnType]
         /\ Len(FrameValue(f)) = Len(frames[f])
         /\ \A k \in 1 .. Len(frames[f]) :
              frames[f][k] \in DOMAIN heap /\ FrameValue(f)[k] = heap[frames[f][k]]
<1>1. ReferencesOK
  BY TypeParts DEF StoreInv
<1>2. /\ Len(frames[f]) \in 1 .. MaxWidth /\ DOMAIN frames[f] = 1 .. Len(frames[f])
      /\ frames[f] = [k \in DOMAIN frames[f] |-> frames[f][k]]
      /\ \A k \in DOMAIN frames[f] : frames[f][k] \in DOMAIN heap
  BY <1>1, NonEmptySeq DEF ReferencesOK
<1>3. FrameValue(f) \in [1 .. Len(frames[f]) -> ColumnType]
  BY <1>1, <1>2 DEF ReferencesOK, FrameValue
<1>4. Len(FrameValue(f)) = Len(frames[f])
  BY <1>2, <1>3, Bounds
<1>5. frames[f] \in [1 .. Len(frames[f]) -> Address]
  BY <1>1, <1>2 DEF ReferencesOK
<1> QED
  BY <1>2, <1>3, <1>4, <1>5 DEF FrameValue

\* Where a series may be written.
LEMMA WritableSeries ==
  ASSUME StoreInv, Unused # {}, NEW t \in DOMAIN series, NEW k \in 1 .. MaxWidth
  PROVE  /\ Writable(series[t], k) \in Address
         /\ Writable(series[t], k) \notin DOMAIN heap \/ OnlySeries(t, Writable(series[t], k))
<1>1. series[t] \in Address
  BY SeriesColumn
<1>2. CASE Owners(series[t]) = 1
  BY <1>1, <1>2, SeriesAlone DEF Writable, StoreInv
<1>3. CASE Owners(series[t]) # 1
  BY <1>3, Fresh DEF Writable
<1> QED
  BY <1>2, <1>3
-----------------------------------------------------------------------------
(* The calls on Series, as the program sees them.                          *)

\* A call gives a Series a value that ValueStore allows.
LEMMA TakesIsGiven ==
  ASSUME NEW t, NEW value, NEW results, SeriesTakes(t, value), value \in results
  PROVE  Values!SeriesGiven(t, results)
<1> DEFINE now   == [s \in DOMAIN series |-> SeriesValue(s)]
           later == [s \in DOMAIN series' |-> SeriesValue(s)']
<1>1. /\ DOMAIN series' = DOMAIN series \cup {t} /\ DOMAIN frames' = DOMAIN frames
      /\ SeriesValue(t)' = value
      /\ \A s \in DOMAIN series \ {t} : SeriesValue(s)' = SeriesValue(s)
      /\ \A f \in DOMAIN frames : FrameValue(f)' = FrameValue(f)
  BY DEF SeriesTakes
<1>2. [f \in DOMAIN frames' \cap FrameVar |-> FrameValue(f)']
        = [f \in DOMAIN frames \cap FrameVar |-> FrameValue(f)]
  BY <1>1
<1>3. t \in DOMAIN later /\ later[t] \in results
  BY <1>1
<1>4. later = Override([v \in {t} |-> later[t]], now)
  BY <1>1 DEF Override
<1> QED
  BY <1>2, <1>3, <1>4 DEF Values!SeriesGiven, Values!Holding, Values!Override, Override

\* The address of a column made by a call is not in use.
LEMMA NewColumn ==
  ASSUME Unused # {}
  PROVE  1 \in 1 .. MaxWidth /\ New(1) \in Address /\ New(1) \notin DOMAIN heap
BY Bounds, Fresh

\* The constructor of Series: a column of its own.
LEMMA NewSeriesStep ==
  ASSUME StoreInv, Unused # {}, NEW t \in SeriesVar,
         NEW column \in [name : ColumnName, vals : Rows], NewSeries(t, column)
  PROVE  StoreInv' /\ SeriesTakes(t, column)
<1>1. column \in ColumnType
  BY DEF ColumnType
<1> QED
  BY <1>1, NewColumn, SeriesAssigned DEF NewSeries

\* Series.alias, as and rename: the rows of the series under another name.
LEMMA AliasStep ==
  ASSUME StoreInv, Unused # {}, NEW s \in DOMAIN series, NEW t \in SeriesVar,
         NEW name \in GivenName, Alias(s, t, name)
  PROVE  StoreInv' /\ SeriesTakes(t, Renamed(SeriesValue(s), name))
<1>1. /\ series[s] \in Address /\ series[s] \in DOMAIN heap
      /\ SeriesValue(s) = heap[series[s]] /\ SeriesValue(s) \in ColumnType
  BY SeriesColumn
<1>2. name \in ColumnName
  BY DEF GivenName
<1>3. CASE SeriesValue(s).name = name
  <2>1. Renamed(SeriesValue(s), name) = SeriesValue(s)
    BY <1>1, <1>3 DEF Renamed, ColumnType
  <2>2. AssignSeries(t, series[s], SeriesValue(s))
    BY <1>3 DEF Alias
  <2> QED
    BY <1>1, <2>1, <2>2, SeriesAssigned
<1>4. CASE SeriesValue(s).name # name
  <2>1. Renamed(SeriesValue(s), name) \in ColumnType
    BY <1>1, <1>2, RenamedColumn
  <2>2. AssignSeries(t, New(1), Renamed(SeriesValue(s), name))
    BY <1>4 DEF Alias
  <2> QED
    BY <2>1, <2>2, NewColumn, SeriesAssigned
<1> QED
  BY <1>3, <1>4

\* Series.concat: the rows of both in a new column.
LEMMA ConcatStep ==
  ASSUME StoreInv, Unused # {}, NEW s \in DOMAIN series, NEW other \in DOMAIN series,
         NEW t \in SeriesVar, Concat(s, other, t)
  PROVE  StoreInv' /\ SeriesTakes(t, Appended(SeriesValue(s), SeriesValue(other)))
<1>1. SeriesValue(s) \in ColumnType /\ SeriesValue(other) \in ColumnType
  BY SeriesColumn
<1>2. Appended(SeriesValue(s), SeriesValue(other)) \in ColumnType
  BY <1>1, AppendedColumn DEF Concat
<1> QED
  BY <1>2, NewColumn, SeriesAssigned DEF Concat

\* A column of a frame as a Series, shared.
LEMMA GetColumnStep ==
  ASSUME StoreInv, Unused # {}, NEW f \in Usable, NEW k \in DOMAIN frames[f],
         NEW t \in SeriesVar, GetColumn(f, k, t)
  PROVE  StoreInv' /\ SeriesTakes(t, FrameValue(f)[k]) /\ k \in DOMAIN FrameValue(f)
<1>1. f \in DOMAIN frames
  BY DEF Usable
<1>2. /\ k \in 1 .. Len(frames[f]) /\ frames[f][k] \in Address
      /\ FrameValue(f)[k] \in ColumnType /\ k \in DOMAIN FrameValue(f)
      /\ frames[f][k] \in DOMAIN heap /\ FrameValue(f)[k] = heap[frames[f][k]]
  BY <1>1, FrameColumns
<1>3. AssignSeries(t, frames[f][k], FrameValue(f)[k])
  BY DEF GetColumn
<1> QED
  BY <1>2, <1>3, SeriesAssigned

\* Series.rename in place: the rows stay, under the new name.
LEMMA RenameInPlaceStep ==
  ASSUME StoreInv, Unused # {}, NEW s \in DOMAIN series, NEW name \in GivenName,
         RenameInPlace(s, name)
  PROVE  StoreInv' /\ SeriesTakes(s, Renamed(SeriesValue(s), name))
<1>1. s \in SeriesVar /\ SeriesValue(s) \in ColumnType /\ name \in ColumnName
  BY SeriesColumn DEF GivenName
<1>2. Renamed(SeriesValue(s), name) \in ColumnType
  BY <1>1, RenamedColumn
<1> QED
  BY <1>1, <1>2, NewColumn, WritableSeries, SeriesAssigned DEF RenameInPlace

\* Series.append: the rows of the other after its own.
LEMMA AppendInPlaceStep ==
  ASSUME StoreInv, Unused # {}, NEW s \in DOMAIN series, NEW other \in DOMAIN series,
         AppendInPlace(s, other)
  PROVE  StoreInv' /\ SeriesTakes(s, Appended(SeriesValue(s), SeriesValue(other)))
<1>1. /\ s \in SeriesVar /\ SeriesValue(s) \in ColumnType
      /\ SeriesValue(other) \in ColumnType
  BY SeriesColumn
<1>2. Appended(SeriesValue(s), SeriesValue(other)) \in ColumnType
  BY <1>1, AppendedColumn DEF AppendInPlace
<1> QED
  BY <1>1, <1>2, NewColumn, WritableSeries, SeriesAssigned DEF AppendInPlace

\* Series.setAtIdx: rows overwritten, or all of them lost when it throws.
LEMMA SetAtIdxStep ==
  ASSUME StoreInv, Unused # {}, NEW s \in DOMAIN series, NEW indices, NEW value \in Value,
         SetAtIdx(s, indices, value)
  PROVE  /\ StoreInv'
         /\ SeriesTakes(s, IF IndicesFit(SeriesValue(s), indices)
                           THEN Overwritten(SeriesValue(s), indices, value) ELSE Emptied)
<1>1. s \in SeriesVar /\ SeriesValue(s) \in ColumnType
  BY SeriesColumn
<1>2. CASE IndicesFit(SeriesValue(s), indices)
  <2>1. Overwritten(SeriesValue(s), indices, value) \in ColumnType
    BY <1>1, OverwrittenColumn
  <2>2. AssignSeries(s, Writable(series[s], 1), Overwritten(SeriesValue(s), indices, value))
    BY <1>2 DEF SetAtIdx
  <2> QED
    BY <1>1, <1>2, <2>1, <2>2, NewColumn, WritableSeries, SeriesAssigned
<1>3. CASE ~IndicesFit(SeriesValue(s), indices)
  <2>1. AssignSeries(s, New(1), Emptied)
    BY <1>3 DEF SetAtIdx
  <2> QED
    BY <1>1, <1>3, <2>1, NewColumn, EmptiedColumn, SeriesAssigned
<1> QED
  BY <1>2, <1>3

\* ValueStore's operators on values are those of the store.
LEMMA SameColumns ==
  /\ Values!GivenName = GivenName /\ Values!Rows = Rows /\ Values!Indices = Indices
  /\ Values!Emptied = Emptied
  /\ \A c, n : Values!Renamed(c, n) = Renamed(c, n)
  /\ \A c, d : Values!Appended(c, d) = Appended(c, d)
  /\ \A c, i : Values!IndicesFit(c, i) = IndicesFit(c, i)
  /\ \A c, i, v : Values!Overwritten(c, i, v) = Overwritten(c, i, v)
BY DEF Values!GivenName, GivenName, Values!Unnamed, Unnamed, Values!Rows, Rows, Values!Indices,
       Indices, Values!Emptied, Emptied, Values!Renamed, Renamed, Values!Appended, Appended,
       Values!IndicesFit, IndicesFit, Values!Overwritten, Overwritten

\* A call on series keeps the invariant and is one that ValueStore allows.
LEMMA SeriesCallsStep ==
  ASSUME StoreInv, Unused # {}, SeriesCalls \/ SeriesCallsInPlace
  PROVE  /\ StoreInv' /\ Values!Next
         /\ \E t, value : SeriesTakes(t, value)
<1>1. ASSUME NEW t \in SeriesVar, NEW value, SeriesTakes(t, value),
             \/ value \in [name : ColumnName, vals : Rows]
             \/ \E s \in DOMAIN series, name \in GivenName : value = Renamed(SeriesValue(s), name)
             \/ \E s, other \in DOMAIN series : value = Appended(SeriesValue(s), SeriesValue(other))
             \/ \E f \in DOMAIN frames \cap FrameVar : \E k \in DOMAIN FrameValue(f) :
                  value = FrameValue(f)[k]
      PROVE  Values!SeriesCall
  <2> DEFINE results == Values!NewSeriesResults \cup Values!AliasResults
                        \cup Values!ConcatResults \cup Values!ColumnResults
  <2>1. value \in results
    <3>1. CASE value \in [name : ColumnName, vals : Rows]
      BY <3>1, SameColumns DEF Values!NewSeriesResults
    <3>2. CASE \E s \in DOMAIN series, name \in GivenName : value = Renamed(SeriesValue(s), name)
      BY <3>2, SameColumns DEF Values!AliasResults
    <3>3. CASE \E s, other \in DOMAIN series : value = Appended(SeriesValue(s), SeriesValue(other))
      BY <3>3, SameColumns DEF Values!ConcatResults
    <3>4. CASE \E f \in DOMAIN frames \cap FrameVar : \E k \in DOMAIN FrameValue(f) :
                  value = FrameValue(f)[k]
      BY <3>4 DEF Values!ColumnResults, Values!ToSet
    <3> QED
      BY <1>1, <3>1, <3>2, <3>3, <3>4
  <2> HIDE DEF results
  <2>2. Values!SeriesGiven(t, results)
    BY <1>1, <2>1, TakesIsGiven
  <2> QED
    BY <2>2 DEF Values!SeriesCall, results
<1>2. CASE SeriesCalls
  <2>1. PICK t \in SeriesVar :
          \/ \E column \in [name : ColumnName, vals : Rows] : NewSeries(t, column)
          \/ \E s \in DOMAIN series :
               \/ \E name \in GivenName : Alias(s, t, name)
               \/ \E other \in DOMAIN series : Concat(s, other, t)
          \/ \E f \in Usable : \E k \in DOMAIN frames[f] : GetColumn(f, k, t)
    BY <1>2 DEF SeriesCalls
  <2>2. CASE \E column \in [name : ColumnName, vals : Rows] : NewSeries(t, column)
    <3>1. PICK column \in [name : ColumnName, vals : Rows] : NewSeries(t, column)
      BY <2>2
    <3>2. StoreInv' /\ SeriesTakes(t, column)
      BY <3>1, NewSeriesStep
    <3> QED
      BY <3>2, <1>1 DEF Values!Next
  <2>3. CASE \E s \in DOMAIN series, name \in GivenName : Alias(s, t, name)
    <3>1. PICK s \in DOMAIN series, name \in GivenName : Alias(s, t, name)
      BY <2>3
    <3>2. StoreInv' /\ SeriesTakes(t, Renamed(SeriesValue(s), name))
      BY <3>1, AliasStep
    <3> QED
      BY <3>2, <1>1 DEF Values!Next
  <2>4. CASE \E s, other \in DOMAIN series : Concat(s, other, t)
    <3>1. PICK s \in DOMAIN series, other \in DOMAIN series : Concat(s, other, t)
      BY <2>4
    <3>2. StoreInv' /\ SeriesTakes(t, Appended(SeriesValue(s), SeriesValue(other)))
      BY <3>1, ConcatStep
    <3> QED
      BY <3>2, <1>1 DEF Values!Next
  <2>5. CASE \E f \in Usable : \E k \in DOMAIN frames[f] : GetColumn(f, k, t)
    <3>1. PICK f \in Usable : \E k \in DOMAIN frames[f] : GetColumn(f, k, t)
      BY <2>5
    <3>2. PICK k \in DOMAIN frames[f] : GetColumn(f, k, t)
      BY <3>1
    <3>3. StoreInv' /\ SeriesTakes(t, FrameValue(f)[k]) /\ k \in DOMAIN FrameValue(f)
      BY <3>2, GetColumnStep
    <3>4. f \in DOMAIN frames \cap FrameVar
      BY DEF Usable
    <3> QED
      BY <3>3, <3>4, <1>1 DEF Values!Next
  <2> QED
    BY <2>1, <2>2, <2>3, <2>4, <2>5
<1>3. CASE SeriesCallsInPlace
  <2>1. PICK s \in DOMAIN series :
          \/ \E name \in GivenName : RenameInPlace(s, name)
          \/ \E other \in DOMAIN series : AppendInPlace(s, other)
          \/ \E indices \in Indices, value \in Value : SetAtIdx(s, indices, value)
    BY <1>3 DEF SeriesCallsInPlace
  <2>2. s \in SeriesVar
    BY SeriesColumn
  <2>3. CASE \E name \in GivenName : RenameInPlace(s, name)
    <3>1. PICK name \in GivenName : RenameInPlace(s, name)
      BY <2>3
    <3>2. StoreInv' /\ SeriesTakes(s, Renamed(SeriesValue(s), name))
      BY <3>1, RenameInPlaceStep
    <3> QED
      BY <2>2, <3>2, <1>1 DEF Values!Next
  <2>4. CASE \E other \in DOMAIN series : AppendInPlace(s, other)
    <3>1. PICK other \in DOMAIN series : AppendInPlace(s, other)
      BY <2>4
    <3>2. StoreInv' /\ SeriesTakes(s, Appended(SeriesValue(s), SeriesValue(other)))
      BY <3>1, AppendInPlaceStep
    <3> QED
      BY <2>2, <3>2, <1>1 DEF Values!Next
  <2>5. CASE \E indices \in Indices, value \in Value : SetAtIdx(s, indices, value)
    <3>1. PICK indices \in Indices, value \in Value : SetAtIdx(s, indices, value)
      BY <2>5
    <3> DEFINE written == IF IndicesFit(SeriesValue(s), indices)
                          THEN Overwritten(SeriesValue(s), indices, value) ELSE Emptied
    <3>2. StoreInv' /\ SeriesTakes(s, written)
      BY <3>1, SetAtIdxStep
    <3> HIDE DEF written
    <3>3. Values!SeriesGiven(s, {written})
      BY <3>2, TakesIsGiven
    <3>4. written = IF Values!IndicesFit([v \in DOMAIN series |-> SeriesValue(v)][s], indices)
                    THEN Values!Overwritten([v \in DOMAIN series |-> SeriesValue(v)][s],
                                            indices, value)
                    ELSE Values!Emptied
      BY SameColumns DEF written
    <3>5. Values!SetAtIdx
      BY <3>3, <3>4, SameColumns DEF Values!SetAtIdx
    <3> QED
      BY <3>2, <3>5 DEF Values!Next
  <2> QED
    BY <2>1, <2>3, <2>4, <2>5
<1> QED
  BY <1>2, <1>3
-----------------------------------------------------------------------------
(* Where the columns of a new or a changed frame are.                      *)

\* A frame that can be called is in a variable of the program and is well
\* formed.
LEMMA UsableFrame ==
  ASSUME StoreInv, NEW f \in Usable
  PROVE  /\ f \in DOMAIN frames /\ f \in FrameVar
         /\ GoodFrame(Len(frames[f]), FrameValue(f))
<1>1. f \in DOMAIN frames /\ f \in FrameVar
  BY DEF Usable
<1>2. FrameValue(f) \in [1 .. Len(frames[f]) -> ColumnType]
  BY <1>1, FrameColumns
<1>3. WellFormed(FrameValue(f)) /\ Height(FrameValue(f)) > 0
  BY DEF StoreInv, FramesWellFormed
<1> QED
  BY <1>1, <1>2, <1>3 DEF GoodFrame

\* A well-formed frame has no column twice.
LEMMA DistinctAddresses ==
  ASSUME StoreInv, NEW f \in Usable,
         NEW j \in 1 .. Len(frames[f]), NEW k \in 1 .. Len(frames[f]),
         frames[f][j] = frames[f][k]
  PROVE  j = k
<1>1. f \in DOMAIN frames /\ GoodFrame(Len(frames[f]), FrameValue(f))
  BY UsableFrame
<1>2. Len(frames[f]) \in 1 .. MaxWidth
  BY <1>1, FrameColumns
<1>3. FrameValue(f)[j] = heap[frames[f][j]] /\ FrameValue(f)[k] = heap[frames[f][k]]
  BY <1>1, FrameColumns
<1>4. FrameValue(f)[j].name = FrameValue(f)[k].name
  BY <1>3
<1> QED
  BY <1>1, <1>2, <1>4, GoodParts

\* Columns that are there already.
LEMMA SharedPlaced ==
  ASSUME StoreInv, NEW x, NEW n \in 1 .. MaxWidth, NEW addresses \in [1 .. n -> DOMAIN heap],
         NEW columns, columns = [k \in 1 .. n |-> heap[addresses[k]]]
  PROVE  Placed(x, n, addresses, columns)
<1>1. DOMAIN heap \subseteq Address /\ \A a \in DOMAIN heap : heap[a] \in ColumnType
  BY TypeParts DEF StoreInv, ReferencesOK
<1> QED
  BY <1>1 DEF Placed

\* A clone with some columns changed.
LEMMA ClonePlaced ==
  ASSUME StoreInv, Unused # {}, NEW x, NEW n \in 1 .. MaxWidth,
         NEW addresses \in [1 .. n -> DOMAIN heap], NEW columns \in [1 .. n -> ColumnType]
  PROVE  Placed(x, n, CloneOf(addresses, columns), columns)
<1> DEFINE places == CloneOf(addresses, columns)
<1>1. DOMAIN heap \subseteq Address
  BY TypeParts DEF StoreInv, ReferencesOK
<1>2. n \in Nat /\ \A k \in 1 .. n : k \in 1 .. MaxWidth
  BY Bounds
<1>3. /\ \A k \in 1 .. n : New(k) \in Address \ DOMAIN heap
      /\ \A j, k \in 1 .. n : New(j) = New(k) => j = k
  BY <1>2, Fresh
<1>4. places = [k \in 1 .. n |-> IF heap[addresses[k]] = columns[k] THEN addresses[k] ELSE New(k)]
  BY DEF CloneOf
<1> HIDE DEF places
<1>5. \A k \in 1 .. n :
        \/ places[k] = addresses[k] /\ heap[addresses[k]] = columns[k]
        \/ places[k] = New(k)
  BY <1>4
<1>6. places \in [1 .. n -> Address]
  BY <1>1, <1>3, <1>4
<1>7. ASSUME NEW j \in 1 .. n, NEW k \in 1 .. n, places[j] = places[k]
      PROVE  columns[j] = columns[k]
  BY <1>3, <1>5, <1>7
<1>8. \A k \in 1 .. n :
        \/ places[k] \notin DOMAIN heap
        \/ places[k] \in DOMAIN heap /\ heap[places[k]] = columns[k]
  BY <1>3, <1>5
<1> QED
  BY <1>6, <1>7, <1>8 DEF Placed, places

\* A frame some of whose columns are changed in place.
LEMMA InPlacePlaced ==
  ASSUME StoreInv, Unused # {}, NEW f \in Usable, NEW n, n = Len(frames[f]),
         NEW columns \in [1 .. n -> ColumnType]
  PROVE  n \in 1 .. MaxWidth /\ Placed(f, n, InPlace(f, columns), columns)
<1> DEFINE places == InPlace(f, columns)
<1>1. /\ f \in DOMAIN frames /\ n \in 1 .. MaxWidth /\ DOMAIN frames[f] = 1 .. n
      /\ \A k \in 1 .. n :
           /\ frames[f][k] \in DOMAIN heap /\ FrameValue(f)[k] = heap[frames[f][k]]
           /\ frames[f][k] \in Address
  BY UsableFrame, FrameColumns
<1>2. n \in Nat /\ \A k \in 1 .. n : k \in 1 .. MaxWidth
  BY <1>1, Bounds
<1>3. /\ \A k \in 1 .. n : New(k) \in Address \ DOMAIN heap
      /\ \A j, k \in 1 .. n : New(j) = New(k) => j = k
  BY <1>2, Fresh
<1>4. places = [k \in 1 .. n |-> IF FrameValue(f)[k] = columns[k] THEN frames[f][k]
                                 ELSE Writable(frames[f][k], k)]
  BY DEF InPlace
<1> HIDE DEF places
<1>5. ASSUME NEW k \in 1 .. n
      PROVE  \/ /\ places[k] = frames[f][k]
                /\ heap[places[k]] = columns[k] \/ OnlyFrame(f, places[k])
             \/ places[k] = New(k)
  <2>1. CASE FrameValue(f)[k] = columns[k]
    BY <1>1, <1>4, <2>1
  <2>2. CASE FrameValue(f)[k] # columns[k]
    <3>1. places[k] = Writable(frames[f][k], k)
      BY <1>4, <2>2
    <3>2. CASE Owners(frames[f][k]) = 1
      <4>1. OnlyFrame(f, frames[f][k])
        BY <1>1, <3>2, FrameAlone DEF StoreInv
      <4> QED
        BY <3>1, <3>2, <4>1 DEF Writable
    <3>3. CASE Owners(frames[f][k]) # 1
      BY <3>1, <3>3 DEF Writable
    <3> QED
      BY <3>2, <3>3
  <2> QED
    BY <2>1, <2>2
<1>6. places \in [1 .. n -> Address]
  <2>1. \A k \in 1 .. n : places[k] \in Address
    BY <1>1, <1>3, <1>5
  <2> QED
    BY <1>4, <2>1
<1>7. ASSUME NEW j \in 1 .. n, NEW k \in 1 .. n, places[j] = places[k]
      PROVE  columns[j] = columns[k]
  <2>1. \/ places[j] = frames[f][j] /\ places[k] = frames[f][k]
        \/ places[j] = New(j) /\ places[k] = New(k)
    BY <1>1, <1>3, <1>5, <1>7
  <2>2. j = k
    BY <1>3, <1>7, <2>1, DistinctAddresses
  <2> QED
    BY <2>2
<1>8. \A k \in 1 .. n :
        \/ places[k] \notin DOMAIN heap
        \/ places[k] \in DOMAIN heap /\ heap[places[k]] = columns[k]
        \/ OnlyFrame(f, places[k])
  BY <1>1, <1>3, <1>5
<1>9. Placed(f, n, places, columns)
  BY <1>6, <1>7, <1>8 DEF Placed
<1> QED
  BY <1>1, <1>9 DEF places
-----------------------------------------------------------------------------
(* The calls on frames, one by one.                                        *)

\* Series.toFrame: a frame of the one column, shared with the series.
LEMMA ToFrameStep ==
  ASSUME StoreInv, NEW s \in DOMAIN series, NEW x \in FrameVar, ToFrame(s, x)
  PROVE  StoreInv' /\ FrameTakes(x, <<SeriesValue(s)>>)
<1>1. /\ series[s] \in DOMAIN heap /\ SeriesValue(s) = heap[series[s]]
      /\ SeriesValue(s) \in ColumnType
  BY SeriesColumn
<1>2. 1 \in 1 .. MaxWidth /\ GoodFrame(1, <<SeriesValue(s)>>)
  BY <1>1, SingleGood DEF ToFrame
<1>3. /\ <<series[s]>> \in [1 .. 1 -> DOMAIN heap]
      /\ <<SeriesValue(s)>> = [k \in 1 .. 1 |-> heap[<<series[s]>>[k]]]
  BY <1>1
<1>4. Placed(x, 1, <<series[s]>>, <<SeriesValue(s)>>)
  BY <1>2, <1>3, SharedPlaced
<1>5. AssignFrame(x, <<series[s]>>, <<SeriesValue(s)>>)
  BY DEF ToFrame
<1> QED
  BY <1>2, <1>4, <1>5, FrameAssigned DEF GoodFrame

\* DataFrame.clone: a frame of the same columns, shared.
LEMMA CloneStep ==
  ASSUME StoreInv, NEW f \in Usable, NEW x \in FrameVar, Clone(f, x)
  PROVE  StoreInv' /\ FrameTakes(x, FrameValue(f))
<1> DEFINE n == Len(frames[f])
<1>1. f \in DOMAIN frames /\ GoodFrame(n, FrameValue(f))
  BY UsableFrame
<1>2. /\ n \in 1 .. MaxWidth /\ frames[f] \in [1 .. n -> DOMAIN heap]
      /\ FrameValue(f) = [k \in 1 .. n |-> heap[frames[f][k]]]
  BY <1>1, FrameColumns DEF FrameValue
<1>3. Placed(x, n, frames[f], FrameValue(f))
  BY <1>2, SharedPlaced
<1>4. AssignFrame(x, frames[f], FrameValue(f))
  BY DEF Clone
<1> QED
  BY <1>1, <1>2, <1>3, <1>4, FrameAssigned DEF GoodFrame

\* DataFrame.rename: a frame of the columns with other names.
LEMMA RenameStep ==
  ASSUME StoreInv, Unused # {}, NEW f \in Usable, NEW x \in FrameVar,
         NEW mapping \in Mappings, Rename(f, x, mapping)
  PROVE  /\ StoreInv' /\ RenameEach(FrameValue(f), mapping).ok
         /\ FrameTakes(x, WithNames(FrameValue(f), RenameEach(FrameValue(f), mapping).names))
<1> DEFINE n == Len(frames[f])
           columns == WithNames(FrameValue(f), RenameEach(FrameValue(f), mapping).names)
<1>1. f \in DOMAIN frames /\ GoodFrame(n, FrameValue(f))
  BY UsableFrame
<1>2. n \in 1 .. MaxWidth /\ frames[f] \in [1 .. n -> DOMAIN heap]
  BY <1>1, FrameColumns
<1>3. /\ RenameEach(FrameValue(f), mapping).ok
      /\ AssignFrame(x, CloneOf(frames[f], columns), columns)
  BY DEF Rename
<1>4. GoodFrame(n, columns)
  BY <1>1, <1>2, <1>3, RenamedGood
<1> HIDE DEF columns
<1>5. Placed(x, n, CloneOf(frames[f], columns), columns)
  BY <1>2, <1>4, ClonePlaced DEF GoodFrame
<1>6. StoreInv' /\ FrameTakes(x, columns)
  BY <1>2, <1>3, <1>4, <1>5, FrameAssigned DEF GoodFrame
<1> QED
  BY <1>3, <1>6 DEF columns

\* DataFrame.drop: a frame of the columns left, shared.
LEMMA DropStep ==
  ASSUME StoreInv, NEW f \in Usable, NEW x \in FrameVar, NEW names, Drop(f, x, names)
  PROVE  /\ StoreInv' /\ CanDrop(FrameValue(f), names)
         /\ FrameTakes(x, Without(FrameValue(f), names))
<1> DEFINE n == Len(frames[f])
           kept == Kept(FrameValue(f), names)
           places == [j \in DOMAIN kept |-> frames[f][kept[j]]]
           left == Without(FrameValue(f), names)
<1>1. f \in DOMAIN frames /\ GoodFrame(n, FrameValue(f))
  BY UsableFrame
<1>2. /\ n \in 1 .. MaxWidth
      /\ \A k \in 1 .. n :
           frames[f][k] \in DOMAIN heap /\ FrameValue(f)[k] = heap[frames[f][k]]
  BY <1>1, FrameColumns
<1>3. /\ CanDrop(FrameValue(f), names) /\ kept # <<>>
      /\ AssignFrame(x, places, left)
  BY DEF Drop
<1>4. PICK m \in 1 .. MaxWidth : kept \in [1 .. m -> 1 .. n] /\ GoodFrame(m, left)
  BY <1>1, <1>2, <1>3, WithoutGood
<1>5. left = [j \in DOMAIN kept |-> FrameValue(f)[kept[j]]]
  BY DEF Without
<1> HIDE DEF kept
<1>6. /\ places \in [1 .. m -> DOMAIN heap]
      /\ left = [j \in 1 .. m |-> heap[places[j]]]
  BY <1>2, <1>4, <1>5
<1> HIDE DEF places, left
<1>7. Placed(x, m, places, left)
  BY <1>4, <1>6, SharedPlaced
<1>8. StoreInv' /\ FrameTakes(x, left)
  BY <1>3, <1>4, <1>7, FrameAssigned DEF GoodFrame
<1> QED
  BY <1>3, <1>8 DEF left

\* DataFrame.vstack: a frame of the rows of both.
LEMMA VstackStep ==
  ASSUME StoreInv, Unused # {}, NEW f \in Usable, NEW other \in Usable, NEW x \in FrameVar,
         Vstack(f, other, x)
  PROVE  /\ StoreInv' /\ Stackable(FrameValue(f), FrameValue(other))
         /\ FrameTakes(x, Stacked(FrameValue(f), FrameValue(other)))
<1> DEFINE n == Len(frames[f])
           columns == Stacked(FrameValue(f), FrameValue(other))
<1>1. /\ f \in DOMAIN frames /\ GoodFrame(n, FrameValue(f))
      /\ other \in DOMAIN frames /\ GoodFrame(Len(frames[other]), FrameValue(other))
  BY UsableFrame
<1>2. /\ n \in 1 .. MaxWidth /\ frames[f] \in [1 .. n -> DOMAIN heap]
      /\ Len(frames[other]) \in 1 .. MaxWidth
  BY <1>1, FrameColumns
<1>3. /\ Stackable(FrameValue(f), FrameValue(other)) /\ Height(columns) <= MaxRows
      /\ AssignFrame(x, CloneOf(frames[f], columns), columns)
  BY DEF Vstack
<1>4. GoodFrame(n, columns)
  BY <1>1, <1>2, <1>3, StackedGood
<1> HIDE DEF columns
<1>5. Placed(x, n, CloneOf(frames[f], columns), columns)
  BY <1>2, <1>4, ClonePlaced DEF GoodFrame
<1>6. StoreInv' /\ FrameTakes(x, columns)
  BY <1>2, <1>3, <1>4, <1>5, FrameAssigned DEF GoodFrame
<1> QED
  BY <1>3, <1>6 DEF columns

\* The columns of some series, each shared.
LEMMA ArrayColumns ==
  ASSUME StoreInv, NEW array \in NonEmpty(DOMAIN series)
  PROVE  /\ Len(array) \in 1 .. MaxWidth /\ Len(array) \in Nat
         /\ [k \in DOMAIN array |-> series[array[k]]] \in [1 .. Len(array) -> DOMAIN heap]
         /\ [k \in DOMAIN array |-> SeriesValue(array[k])] \in [1 .. Len(array) -> ColumnType]
         /\ \A k \in 1 .. Len(array) : SeriesValue(array[k]) = heap[series[array[k]]]
<1>1. /\ Len(array) \in 1 .. MaxWidth /\ DOMAIN array = 1 .. Len(array)
      /\ \A k \in DOMAIN array : array[k] \in DOMAIN series
  BY NonEmptySeq
<1>2. \A k \in DOMAIN array :
        /\ series[array[k]] \in DOMAIN heap /\ SeriesValue(array[k]) \in ColumnType
        /\ SeriesValue(array[k]) = heap[series[array[k]]]
  BY <1>1, SeriesColumn
<1> QED
  BY <1>1, <1>2, Bounds

\* DataFrame.hstack: a frame with the columns of the series added, all shared.
LEMMA HstackStep ==
  ASSUME StoreInv, NEW f \in Usable, NEW x \in FrameVar, NEW array \in NonEmpty(DOMAIN series),
         Hstack(f, x, array)
  PROVE  LET wider == FrameValue(f) \o [k \in DOMAIN array |-> SeriesValue(array[k])]
         IN  StoreInv' /\ WellFormed(wider) /\ FrameTakes(x, wider)
<1> DEFINE n == Len(frames[f])
           m == Len(array)
           added  == [k \in DOMAIN array |-> series[array[k]]]
           values == [k \in DOMAIN array |-> SeriesValue(array[k])]
           grown == frames[f] \o added
           wider == FrameValue(f) \o values
           found == [k \in DOMAIN grown |-> heap[grown[k]]]
<1>1. f \in DOMAIN frames /\ GoodFrame(n, FrameValue(f))
  BY UsableFrame
<1>2. /\ n \in 1 .. MaxWidth /\ n \in Nat /\ frames[f] \in [1 .. n -> DOMAIN heap]
      /\ FrameValue(f) \in [1 .. n -> ColumnType]
      /\ \A k \in 1 .. n : FrameValue(f)[k] = heap[frames[f][k]]
  BY <1>1, FrameColumns, Bounds
<1>3. /\ m \in 1 .. MaxWidth /\ m \in Nat /\ added \in [1 .. m -> DOMAIN heap]
      /\ values \in [1 .. m -> ColumnType]
      /\ \A k \in 1 .. m : values[k] = heap[added[k]]
  BY ArrayColumns
<1>4. Len(grown) <= MaxWidth /\ WellFormed(found) /\ AssignFrame(x, grown, found)
  BY DEF Hstack
<1> HIDE DEF n, m, added, values, grown, wider
<1>5. Joins(DOMAIN heap, n, frames[f], m, added, grown)
  <2>1. Joins(DOMAIN heap, n, frames[f], m, added, frames[f] \o added)
    BY <1>2, <1>3, Joining, Zenon
  <2> QED
    BY <2>1 DEF grown
<1>6. Joins(ColumnType, n, FrameValue(f), m, values, wider)
  <2>1. Joins(ColumnType, n, FrameValue(f), m, values, FrameValue(f) \o values)
    BY <1>2, <1>3, Joining, Zenon
  <2> QED
    BY <2>1 DEF wider
<1>7. /\ grown \in [1 .. n + m -> DOMAIN heap] /\ wider \in [1 .. n + m -> ColumnType]
      /\ \A k \in 1 .. n : grown[k] = frames[f][k] /\ wider[k] = FrameValue(f)[k]
      /\ \A k \in n + 1 .. n + m : grown[k] = added[k - n] /\ wider[k] = values[k - n]
      /\ \A k \in 1 .. n + m : k \in 1 .. n \/ (k \in n + 1 .. n + m /\ k - n \in 1 .. m)
  BY <1>2, <1>3, <1>5, <1>6 DEF Joins
<1>8. \A k \in 1 .. n + m : wider[k] = heap[grown[k]]
  <2> TAKE k \in 1 .. n + m
  <2>1. CASE k \in 1 .. n
    BY <1>2, <1>7, <2>1
  <2>2. CASE k \in n + 1 .. n + m /\ k - n \in 1 .. m
    <3>1. values[k - n] = heap[added[k - n]]
      BY <1>3, <2>2
    <3> QED
      BY <1>7, <2>2, <3>1
  <2> QED
    BY <1>7, <2>1, <2>2
<1>9. found = wider /\ wider = [k \in 1 .. n + m |-> heap[grown[k]]]
  BY <1>7, <1>8
<1>10. n + m \in 1 .. MaxWidth /\ 1 \in 1 .. n /\ 1 \in 1 .. n + m
  <2>1. n + m \in Nat
    BY <1>2, <1>3
  <2>2. Len(grown) = n + m
    BY <1>7, <2>1
  <2> QED
    BY <1>2, <1>3, <1>4, <2>2, Bounds
<1> HIDE DEF found
<1>11. Placed(x, n + m, grown, wider)
  BY <1>7, <1>9, <1>10, SharedPlaced
<1>12. WellFormed(wider) /\ AssignFrame(x, grown, wider)
  BY <1>4, <1>9
<1>13. Height(wider) > 0
  <2>1. Height(FrameValue(f)) > 0 /\ Height(FrameValue(f)) = Len(FrameValue(f)[1].vals)
    BY <1>1, <1>2, GoodParts, Bounds
  <2>2. wider # <<>> /\ wider[1] = FrameValue(f)[1]
    <3>1. DOMAIN wider = 1 .. n + m
      BY <1>7
    <3> QED
      BY <1>7, <1>10, <3>1
  <2> QED
    BY <2>1, <2>2 DEF Height
<1>14. StoreInv' /\ FrameTakes(x, wider)
  BY <1>10, <1>11, <1>12, <1>13, FrameAssigned
<1> QED
  BY <1>12, <1>14 DEF wider, values

\* DataFrame.withColumn: a frame with the column added, or in the place of the
\* one of its name.
LEMMA WithColumnStep ==
  ASSUME StoreInv, Unused # {}, NEW f \in Usable, NEW x \in FrameVar, NEW s \in DOMAIN series,
         WithColumn(f, x, s)
  PROVE  /\ StoreInv' /\ CanTake(FrameValue(f), SeriesValue(s))
         /\ FrameTakes(x, WithColumnValue(FrameValue(f), SeriesValue(s)))
<1> DEFINE n == Len(frames[f])
           column  == SeriesValue(s)
           columns == WithColumnValue(FrameValue(f), column)
           at      == IF Has(FrameValue(f), column.name)
                      THEN IndexOf(FrameValue(f), column.name) ELSE Len(columns)
           origin  == [k \in DOMAIN columns |-> IF k = at THEN series[s] ELSE frames[f][k]]
<1>1. f \in DOMAIN frames /\ GoodFrame(n, FrameValue(f))
  BY UsableFrame
<1>2. n \in 1 .. MaxWidth /\ n \in Nat /\ \A k \in 1 .. n : frames[f][k] \in DOMAIN heap
  BY <1>1, FrameColumns, Bounds
<1>3. series[s] \in DOMAIN heap /\ column \in ColumnType
  BY SeriesColumn
<1>4. /\ CanTake(FrameValue(f), column) /\ Len(columns) <= MaxWidth
      /\ AssignFrame(x, CloneOf(origin, columns), columns)
  BY DEF WithColumn
<1> HIDE DEF n, column
<1>5. IF Has(FrameValue(f), column.name) THEN GoodFrame(n, columns)
      ELSE n + 1 \in 1 .. MaxWidth /\ GoodFrame(n + 1, columns)
  BY <1>1, <1>2, <1>3, <1>4, WithColumnGood
<1> HIDE DEF columns
<1>6. PICK m \in 1 .. MaxWidth : GoodFrame(m, columns) /\ origin \in [1 .. m -> DOMAIN heap]
  <2>1. CASE Has(FrameValue(f), column.name)
    <3>1. GoodFrame(n, columns) /\ DOMAIN columns = 1 .. n
      BY <1>2, <1>5, <2>1, GoodParts
    <3> HIDE DEF at
    <3> QED
      BY <1>2, <1>3, <3>1
  <2>2. CASE ~Has(FrameValue(f), column.name)
    <3>1. n + 1 \in 1 .. MaxWidth /\ GoodFrame(n + 1, columns)
      BY <1>5, <2>2
    <3>2. DOMAIN columns = 1 .. n + 1 /\ Len(columns) = n + 1
      BY <3>1, GoodParts
    <3>3. at = n + 1
      BY <2>2, <3>2
    <3> HIDE DEF at
    <3>4. \A k \in 1 .. n + 1 : k = at \/ k \in 1 .. n
      BY <1>2, <3>3
    <3> QED
      BY <1>2, <1>3, <3>1, <3>2, <3>4
  <2> QED
    BY <2>1, <2>2
<1> HIDE DEF origin
<1>7. Placed(x, m, CloneOf(origin, columns), columns)
  BY <1>6, ClonePlaced DEF GoodFrame
<1>8. StoreInv' /\ FrameTakes(x, columns)
  BY <1>4, <1>6, <1>7, FrameAssigned DEF GoodFrame
<1> QED
  BY <1>4, <1>8 DEF columns, column
-----------------------------------------------------------------------------
\* Other references for a frame that has some already.
LEMMA HoldExcept ==
  ASSUME NEW f \in DOMAIN frames, NEW addresses
  PROVE  [frames EXCEPT ![f] = addresses] = Hold(frames, f, addresses)
BY DEF Hold, Override

\* DataFrame.insertAtIdx: the frame gets one more column, shared.
LEMMA InsertAtIdxStep ==
  ASSUME StoreInv, NEW f \in Usable, NEW k \in 1 .. Len(frames[f]) + 1, NEW s \in DOMAIN series,
         InsertAtIdx(f, k, s)
  PROVE  /\ StoreInv' /\ Fits(FrameValue(f), SeriesValue(s))
         /\ FrameTakes(f, InsertAt(FrameValue(f), k, SeriesValue(s)))
<1> DEFINE n == Len(frames[f])
           places == InsertAt(frames[f], k, series[s])
           wider  == InsertAt(FrameValue(f), k, SeriesValue(s))
<1>1. f \in DOMAIN frames /\ f \in FrameVar /\ GoodFrame(n, FrameValue(f))
  BY UsableFrame
<1>2. /\ n \in 1 .. MaxWidth /\ n \in Nat /\ frames[f] \in [1 .. n -> DOMAIN heap]
      /\ FrameValue(f) \in [1 .. n -> ColumnType]
      /\ \A j \in 1 .. n : FrameValue(f)[j] = heap[frames[f][j]]
  BY <1>1, FrameColumns, Bounds
<1>3. /\ series[s] \in DOMAIN heap /\ SeriesValue(s) = heap[series[s]]
      /\ SeriesValue(s) \in ColumnType
  BY SeriesColumn
<1>4. /\ n < MaxWidth /\ Fits(FrameValue(f), SeriesValue(s))
      /\ Store(<<>>, series, [frames EXCEPT ![f] = places])
      /\ UNCHANGED <<hollow, unchecked>>
  BY DEF InsertAtIdx
<1>5. /\ ReferencesOK /\ unchecked \subseteq DOMAIN frames
      /\ hollow \subseteq FrameVar \ DOMAIN frames
      /\ DOMAIN heap \subseteq Address
  BY TypeParts DEF StoreInv, ReferencesOK
<1>6. k \in 1 .. n + 1 /\ n + 1 \in 1 .. MaxWidth
  BY <1>2, <1>4, Bounds
<1>7. GoodFrame(n + 1, wider)
  BY <1>1, <1>2, <1>3, <1>4, <1>6, InsertGood
<1> HIDE DEF n, places, wider
<1>8. Inserts(DOMAIN heap, n, frames[f], k, series[s], places)
  <2>1. Inserts(DOMAIN heap, n, frames[f], k, series[s], InsertAt(frames[f], k, series[s]))
    BY <1>2, <1>3, <1>6, Inserting, Zenon
  <2> QED
    BY <2>1 DEF places
<1>9. Inserts(ColumnType, n, FrameValue(f), k, SeriesValue(s), wider)
  <2>1. Inserts(ColumnType, n, FrameValue(f), k, SeriesValue(s),
                InsertAt(FrameValue(f), k, SeriesValue(s)))
    BY <1>2, <1>3, <1>6, Inserting, Zenon
  <2> QED
    BY <2>1 DEF wider
<1>10. places \in [1 .. n + 1 -> DOMAIN heap] /\ wider \in [1 .. n + 1 -> ColumnType]
  BY <1>8, <1>9 DEF Inserts
<1>11. ASSUME NEW j \in 1 .. n + 1 PROVE wider[j] = heap[places[j]]
  <2>1. /\ places[j] = IF j < k THEN frames[f][j] ELSE IF j = k THEN series[s] ELSE frames[f][j - 1]
        /\ wider[j] = IF j < k THEN FrameValue(f)[j] ELSE IF j = k THEN SeriesValue(s)
                      ELSE FrameValue(f)[j - 1]
    BY <1>8, <1>9 DEF Inserts
  <2>2. (j < k => j \in 1 .. n) /\ (~(j < k) /\ j # k => j - 1 \in 1 .. n)
    BY <1>2, <1>6
  <2>3. /\ j < k => FrameValue(f)[j] = heap[frames[f][j]]
        /\ ~(j < k) /\ j # k => FrameValue(f)[j - 1] = heap[frames[f][j - 1]]
    BY <1>2, <2>2
  <2> QED
    BY <1>3, <2>1, <2>3, Zenon
<1>12. Store(<<>>, series, Hold(frames, f, places))
  BY <1>1, <1>4, HoldExcept
<1>13. ReferencesOK' /\ FrameTakes(f, wider)
  <2> DEFINE none == <<>>
  <2>1. /\ DOMAIN none \subseteq Address
        /\ \A a \in DOMAIN none : none[a] \in ColumnType
        /\ \A a \in DOMAIN none \cap DOMAIN heap : none[a] = heap[a] \/ OnlyFrame(f, a)
        /\ \A a \in DOMAIN heap : Found(none, a) = heap[a]
    BY DEF Found
  <2>2. places \in [1 .. n + 1 -> Address]
    BY <1>5, <1>10
  <2>3. Store(none, series, Hold(frames, f, places))
    BY <1>12
  <2> HIDE DEF none
  <2>4. \A j \in 1 .. n + 1 :
          /\ places[j] \in DOMAIN none \cup DOMAIN heap
          /\ Found(none, places[j]) = wider[j]
    BY <1>10, <1>11, <2>1
  <2> QED
    BY <1>1, <1>5, <1>6, <1>10, <2>1, <2>2, <2>3, <2>4, FrameWritten
<1>14. /\ unchecked' \subseteq DOMAIN frames' /\ hollow' \subseteq FrameVar \ DOMAIN frames'
       /\ unchecked \ {f} \subseteq unchecked'
  BY <1>1, <1>4, <1>5, <1>13 DEF FrameTakes
<1>15. StoreInv'
  BY <1>7, <1>13, <1>14, FrameSettled DEF GoodFrame
<1> QED
  BY <1>4, <1>13, <1>15 DEF wider

\* One column of a frame replaced: what is found there, and by whom it was owned.
LEMMA ColumnWritten ==
  ASSUME StoreInv, NEW f \in Usable, NEW k \in DOMAIN frames[f],
         NEW written, NEW address \in Address, NEW column \in ColumnType,
         \/ written = <<>> /\ address \in DOMAIN heap /\ heap[address] = column
         \/ /\ written = [a \in {address} |-> column]
            /\ address \notin DOMAIN heap \/ heap[address] = column,
         Store(written, series, [frames EXCEPT ![f][k] = address])
  PROVE  ReferencesOK' /\ FrameTakes(f, [FrameValue(f) EXCEPT ![k] = column])
<1> DEFINE n == Len(frames[f])
           places  == [frames[f] EXCEPT ![k] = address]
           columns == [FrameValue(f) EXCEPT ![k] = column]
<1>1. f \in DOMAIN frames /\ f \in FrameVar
  BY UsableFrame
<1>2. /\ n \in 1 .. MaxWidth /\ k \in 1 .. n
      /\ frames[f] \in [1 .. n -> Address]
      /\ FrameValue(f) \in [1 .. n -> ColumnType]
      /\ \A j \in 1 .. n :
           frames[f][j] \in DOMAIN heap /\ FrameValue(f)[j] = heap[frames[f][j]]
  BY <1>1, FrameColumns
<1>3. ReferencesOK
  BY TypeParts DEF StoreInv
<1>4. Store(written, series, Hold(frames, f, places))
  <2>1. [frames EXCEPT ![f][k] = address] = [frames EXCEPT ![f] = places]
    OBVIOUS
  <2> QED
    BY <1>1, <2>1, HoldExcept
<1> HIDE DEF n
<1>5. places \in [1 .. n -> Address] /\ columns \in [1 .. n -> ColumnType]
  BY <1>2
<1>6. /\ places[k] = address /\ columns[k] = column
      /\ \A j \in 1 .. n : j # k => places[j] = frames[f][j] /\ columns[j] = FrameValue(f)[j]
  BY <1>2
<1> HIDE DEF places, columns
<1>7. /\ DOMAIN written \subseteq {address}
      /\ \A a \in DOMAIN written : written[a] = column
      /\ address \in DOMAIN written \cup DOMAIN heap
      /\ Found(written, address) = column
  BY DEF Found
<1>8. \A a \in DOMAIN written \cap DOMAIN heap : written[a] = heap[a]
  BY <1>7
<1>9. /\ DOMAIN written \subseteq Address
      /\ \A a \in DOMAIN written : written[a] \in ColumnType
      /\ \A a \in DOMAIN written \cap DOMAIN heap : written[a] = heap[a] \/ OnlyFrame(f, a)
  BY <1>7, <1>8
<1>10. ASSUME NEW j \in 1 .. n
       PROVE  /\ places[j] \in DOMAIN written \cup DOMAIN heap
              /\ Found(written, places[j]) = columns[j]
  <2>1. CASE j = k
    BY <1>6, <1>7, <2>1
  <2>2. CASE j # k
    <3>1. /\ places[j] = frames[f][j] /\ columns[j] = FrameValue(f)[j]
          /\ frames[f][j] \in DOMAIN heap /\ FrameValue(f)[j] = heap[frames[f][j]]
      BY <1>2, <1>6, <2>2
    <3>2. Found(written, frames[f][j]) = heap[frames[f][j]]
      BY <1>8, <3>1 DEF Found
    <3> QED
      BY <3>1, <3>2
  <2> QED
    BY <2>1, <2>2
<1>11. ReferencesOK' /\ FrameTakes(f, columns)
  BY <1>1, <1>2, <1>3, <1>4, <1>5, <1>9, <1>10, FrameWritten
<1> QED
  BY <1>11 DEF columns

\* DataFrame.replaceAtIdx: the frame gets the column, shared; it stays well
\* formed unless the name was taken.
LEMMA ReplaceAtIdxStep ==
  ASSUME StoreInv, NEW f \in Usable, NEW k \in DOMAIN frames[f], NEW s \in DOMAIN series,
         ReplaceAtIdx(f, k, s)
  PROVE  /\ StoreInv' /\ Len(SeriesValue(s).vals) = Height(FrameValue(f))
         /\ FrameTakes(f, [FrameValue(f) EXCEPT ![k] = SeriesValue(s)])
<1> DEFINE n == Len(frames[f])
           columns == [FrameValue(f) EXCEPT ![k] = SeriesValue(s)]
           others  == {FrameValue(f)[j].name : j \in DOMAIN frames[f] \ {k}}
<1>1. f \in DOMAIN frames /\ f \in FrameVar /\ GoodFrame(n, FrameValue(f))
  BY UsableFrame
<1>2. n \in 1 .. MaxWidth /\ k \in 1 .. n /\ DOMAIN frames[f] = 1 .. n
  BY <1>1, FrameColumns
<1>3. /\ series[s] \in DOMAIN heap /\ series[s] \in Address
      /\ SeriesValue(s) = heap[series[s]] /\ SeriesValue(s) \in ColumnType
  BY SeriesColumn
<1>4. /\ Len(SeriesValue(s).vals) = Height(FrameValue(f))
      /\ Store(<<>>, series, [frames EXCEPT ![f][k] = series[s]])
      /\ unchecked' = IF SeriesValue(s).name \in others
                      THEN unchecked \cup {f} ELSE unchecked
      /\ hollow' = hollow
  BY DEF ReplaceAtIdx
<1>5. unchecked \subseteq DOMAIN frames /\ hollow \subseteq FrameVar \ DOMAIN frames
  BY TypeParts DEF StoreInv
<1>6. ReferencesOK' /\ FrameTakes(f, columns)
  BY <1>3, <1>4, ColumnWritten
<1>7. f \notin unchecked' => GoodFrame(n, columns)
  <2> SUFFICES ASSUME f \notin unchecked' PROVE GoodFrame(n, columns)
    OBVIOUS
  <2>1. SeriesValue(s).name \notin others
    BY <1>4
  <2>2. \A j \in 1 .. n \ {k} : FrameValue(f)[j].name # SeriesValue(s).name
    BY <1>2, <2>1
  <2> QED
    BY <1>1, <1>2, <1>3, <1>4, <2>2, ReplacedGood
<1> HIDE DEF columns, others
<1>8. /\ unchecked' \subseteq DOMAIN frames' /\ hollow' \subseteq FrameVar \ DOMAIN frames'
      /\ unchecked \ {f} \subseteq unchecked'
  BY <1>1, <1>4, <1>5, <1>6 DEF FrameTakes
<1>9. StoreInv'
  BY <1>6, <1>7, <1>8, FrameSettled DEF GoodFrame
<1> QED
  BY <1>4, <1>6, <1>9 DEF columns

\* Assigning a column of the frame by its position: a copy of the column under
\* the name that was there.
LEMMA AssignColumnStep ==
  ASSUME StoreInv, Unused # {}, NEW f \in Usable, NEW k \in DOMAIN frames[f],
         NEW s \in DOMAIN series, AssignColumn(f, k, s)
  PROVE  LET value == Renamed(SeriesValue(s), FrameValue(f)[k].name)
         IN  /\ StoreInv' /\ Len(SeriesValue(s).vals) = Height(FrameValue(f))
             /\ FrameTakes(f, [FrameValue(f) EXCEPT ![k] = value])
<1> DEFINE n == Len(frames[f])
           name    == FrameValue(f)[k].name
           value   == Renamed(SeriesValue(s), name)
           address == CloneOf(<<series[s]>>, <<value>>)[1]
           columns == [FrameValue(f) EXCEPT ![k] = value]
<1>1. f \in DOMAIN frames /\ f \in FrameVar /\ GoodFrame(n, FrameValue(f))
  BY UsableFrame
<1>2. n \in 1 .. MaxWidth /\ k \in 1 .. n /\ DOMAIN frames[f] = 1 .. n
  BY <1>1, FrameColumns
<1>3. /\ series[s] \in DOMAIN heap /\ series[s] \in Address
      /\ SeriesValue(s) \in ColumnType
  BY SeriesColumn
<1>4. /\ Len(value.vals) = Height(FrameValue(f))
      /\ Store([a \in {address} |-> value], series, [frames EXCEPT ![f][k] = address])
      /\ UNCHANGED <<hollow, unchecked>>
  BY DEF AssignColumn
<1>5. unchecked \subseteq DOMAIN frames /\ hollow \subseteq FrameVar \ DOMAIN frames
  BY TypeParts DEF StoreInv
<1>6. /\ name \in ColumnName
      /\ \A j \in 1 .. n : FrameValue(f)[j].name = name => j = k
  BY <1>1, <1>2, GoodParts, ColumnRows
<1> HIDE DEF name
<1>7. value \in ColumnType /\ value.name = name /\ value.vals = SeriesValue(s).vals
  BY <1>3, <1>6, RenamedColumn
<1> HIDE DEF value
<1>8. address \in Address /\ (address \notin DOMAIN heap \/ heap[address] = value)
  <2>1. address = IF heap[series[s]] = value THEN series[s] ELSE New(1)
    BY DEF CloneOf
  <2> HIDE DEF address
  <2> QED
    BY <1>3, <2>1, NewColumn
<1> HIDE DEF address
<1>9. ReferencesOK' /\ FrameTakes(f, columns)
  BY <1>4, <1>7, <1>8, ColumnWritten
<1>10. GoodFrame(n, columns)
  BY <1>1, <1>2, <1>4, <1>6, <1>7, ReplacedGood
<1> HIDE DEF columns
<1>11. /\ unchecked' \subseteq DOMAIN frames' /\ hollow' \subseteq FrameVar \ DOMAIN frames'
       /\ unchecked \ {f} \subseteq unchecked'
  BY <1>1, <1>4, <1>5, <1>9 DEF FrameTakes
<1>12. StoreInv'
  BY <1>9, <1>10, <1>11, FrameSettled DEF GoodFrame
<1> QED
  BY <1>4, <1>7, <1>9, <1>12 DEF columns, value, name

\* The setter of DataFrame.columns: other names, on the columns of this frame
\* alone.
LEMMA SetColumnsStep ==
  ASSUME StoreInv, Unused # {}, NEW f \in Usable, NEW names \in [DOMAIN frames[f] -> GivenName],
         SetColumns(f, names)
  PROVE  LET columns == WithNames(FrameValue(f), names)
         IN  /\ StoreInv' /\ FrameTakes(f, columns)
             /\ WellFormed(columns) /\ Len(columns) = Len(FrameValue(f))
             /\ NamesOf(columns) = names
<1> DEFINE n == Len(frames[f])
           columns == WithNames(FrameValue(f), names)
<1>1. f \in DOMAIN frames /\ f \in FrameVar /\ GoodFrame(n, FrameValue(f))
  BY UsableFrame
<1>2. n \in 1 .. MaxWidth /\ DOMAIN frames[f] = 1 .. n
  BY <1>1, FrameColumns
<1>3. /\ IsInjective(names)
      /\ Store(Contents(InPlace(f, columns), columns), series,
               [frames EXCEPT ![f] = InPlace(f, columns)])
      /\ UNCHANGED <<hollow, unchecked>>
  BY DEF SetColumns
<1>4. /\ ReferencesOK /\ unchecked \subseteq DOMAIN frames
      /\ hollow \subseteq FrameVar \ DOMAIN frames
  BY TypeParts DEF StoreInv
<1>5. GoodFrame(n, columns) /\ NamesOf(columns) = names /\ Len(columns) = Len(FrameValue(f))
  <2>1. names \in [1 .. n -> ColumnName]
    BY <1>2 DEF GivenName
  <2> QED
    BY <1>1, <1>2, <1>3, <2>1, WithNamesGood
<1> HIDE DEF columns
<1>6. Placed(f, n, InPlace(f, columns), columns)
  BY <1>5, InPlacePlaced DEF GoodFrame
<1>7. ReferencesOK' /\ FrameTakes(f, columns)
  BY <1>1, <1>2, <1>3, <1>4, <1>6, HoldExcept, FrameStored
<1>8. /\ unchecked' \subseteq DOMAIN frames' /\ hollow' \subseteq FrameVar \ DOMAIN frames'
      /\ unchecked \ {f} \subseteq unchecked'
  BY <1>1, <1>3, <1>4, <1>7 DEF FrameTakes
<1>9. StoreInv'
  BY <1>5, <1>7, <1>8, FrameSettled DEF GoodFrame
<1> QED
  BY <1>5, <1>7, <1>9 DEF columns, GoodFrame

\* DataFrame.extend that throws half-way: the first columns have the rows of
\* both frames.
LEMMA ExtendThrowsStep ==
  ASSUME StoreInv, Unused # {}, NEW f \in Usable, NEW other \in Usable, ExtendThrows(f, other)
  PROVE  /\ StoreInv' /\ f # other
         /\ Len(FrameValue(f)) = Len(FrameValue(other))
         /\ ~Stackable(FrameValue(f), FrameValue(other))
         /\ \E upTo \in AgreeingColumns(FrameValue(f), FrameValue(other)) \ {0} :
              FrameTakes(f, ExtendedUpTo(FrameValue(f), FrameValue(other), upTo))
<1> DEFINE n == Len(frames[f])
<1>1. /\ f \in DOMAIN frames /\ f \in FrameVar /\ GoodFrame(n, FrameValue(f))
      /\ other \in DOMAIN frames /\ GoodFrame(Len(frames[other]), FrameValue(other))
  BY UsableFrame
<1>2. /\ n \in 1 .. MaxWidth /\ Len(FrameValue(f)) = n
      /\ Len(FrameValue(other)) = Len(frames[other])
  BY <1>1, FrameColumns
<1>3. PICK upTo \in AgreeingColumns(FrameValue(f), FrameValue(other)) \ {0} :
        LET columns == ExtendedUpTo(FrameValue(f), FrameValue(other), upTo)
        IN  Store(Contents(InPlace(f, columns), columns), series,
                  [frames EXCEPT ![f] = InPlace(f, columns)])
  BY DEF ExtendThrows
<1> DEFINE columns == ExtendedUpTo(FrameValue(f), FrameValue(other), upTo)
<1>4. /\ f # other /\ n = Len(frames[other])
      /\ ~Stackable(FrameValue(f), FrameValue(other))
      /\ Height(FrameValue(f)) + Height(FrameValue(other)) <= MaxRows
      /\ unchecked' = unchecked \cup {f} /\ hollow' = hollow
  BY DEF ExtendThrows
<1>5. /\ ReferencesOK /\ unchecked \subseteq DOMAIN frames
      /\ hollow \subseteq FrameVar \ DOMAIN frames
  BY TypeParts DEF StoreInv
<1>6. upTo \in Nat
  BY <1>2, Bounds DEF AgreeingColumns
<1>7. columns \in [1 .. n -> ColumnType]
  BY <1>1, <1>2, <1>4, <1>6, ExtendedColumns
<1>8. Store(Contents(InPlace(f, columns), columns), series, Hold(frames, f, InPlace(f, columns)))
  BY <1>1, <1>3, HoldExcept
<1> HIDE DEF columns
<1>9. Placed(f, n, InPlace(f, columns), columns)
  BY <1>7, InPlacePlaced
<1>10. ReferencesOK' /\ FrameTakes(f, columns)
  BY <1>1, <1>2, <1>5, <1>8, <1>9, FrameStored
<1>11. /\ unchecked' \subseteq DOMAIN frames' /\ hollow' \subseteq FrameVar \ DOMAIN frames'
       /\ unchecked \ {f} \subseteq unchecked' /\ f \in unchecked'
  BY <1>1, <1>4, <1>5, <1>10 DEF FrameTakes
<1>12. StoreInv'
  BY <1>10, <1>11, FrameSettled
<1> QED
  BY <1>2, <1>4, <1>10, <1>12 DEF columns

\* The frame f holds `value`, x no frame, every other variable what it held.
ExtendTakes(f, value, x) ==
  /\ DOMAIN series' = DOMAIN series /\ DOMAIN frames' = DOMAIN frames \ {x}
  /\ f # x => FrameValue(f)' = value
  /\ \A s \in DOMAIN series : SeriesValue(s)' = SeriesValue(s)
  /\ \A g \in DOMAIN frames \ {f, x} : FrameValue(g)' = FrameValue(g)

\* DataFrame.extend: the frame gets the rows of the other, and x is left
\* without a native frame.
LEMMA ExtendStep ==
  ASSUME StoreInv, Unused # {}, NEW f \in Usable, NEW other \in Usable, NEW x \in FrameVar,
         Extend(f, other, x)
  PROVE  /\ StoreInv' /\ f # other /\ Stackable(FrameValue(f), FrameValue(other))
         /\ ExtendTakes(f, Stacked(FrameValue(f), FrameValue(other)), x)
<1> DEFINE n == Len(frames[f])
           columns == Stacked(FrameValue(f), FrameValue(other))
           places  == InPlace(f, columns)
           written == Contents(places, columns)
           ff == Restrict([frames EXCEPT ![f] = places], DOMAIN frames \ {x})
<1>1. /\ f \in DOMAIN frames /\ f \in FrameVar /\ GoodFrame(n, FrameValue(f))
      /\ other \in DOMAIN frames /\ GoodFrame(Len(frames[other]), FrameValue(other))
  BY UsableFrame
<1>2. n \in 1 .. MaxWidth /\ Len(frames[other]) \in 1 .. MaxWidth
  BY <1>1, FrameColumns
<1>3. /\ f # other /\ Stackable(FrameValue(f), FrameValue(other)) /\ Height(columns) <= MaxRows
      /\ Store(written, series, ff)
      /\ hollow' = hollow \cup {x} /\ unchecked' = unchecked \ {x}
  BY DEF Extend
<1>4. /\ ReferencesOK /\ unchecked \subseteq DOMAIN frames
      /\ hollow \subseteq FrameVar \ DOMAIN frames
  BY TypeParts DEF StoreInv
<1>5. GoodFrame(n, columns)
  BY <1>1, <1>2, <1>3, StackedGood
<1>6. /\ DOMAIN ff = DOMAIN frames \ {x}
      /\ f # x => ff[f] = places
      /\ \A g \in DOMAIN frames \ {f, x} : ff[g] = frames[g]
  BY <1>1 DEF Restrict
<1> HIDE DEF ff, columns
<1>7. Placed(f, n, places, columns)
  BY <1>5, InPlacePlaced DEF GoodFrame
<1> HIDE DEF places, n
<1>8. /\ DOMAIN written = Range(places)
      /\ \A k \in 1 .. n : places[k] \in DOMAIN written /\ written[places[k]] = columns[k]
  <2>1. n \in 1 .. MaxWidth
    BY <1>2
  <2>2. /\ DOMAIN Contents(places, columns) = Range(places)
        /\ \A k \in 1 .. n :
             /\ places[k] \in DOMAIN Contents(places, columns)
             /\ Contents(places, columns)[places[k]] = columns[k]
    BY <1>7, <2>1, ContentsFound
  <2> QED
    BY <2>2
<1> HIDE DEF written
<1>9. /\ DOMAIN places = 1 .. n /\ places \in [1 .. n -> Address]
      /\ columns \in [1 .. n -> ColumnType]
      /\ \A k \in 1 .. n :
           \/ places[k] \notin DOMAIN heap
           \/ places[k] \in DOMAIN heap /\ heap[places[k]] = columns[k]
           \/ OnlyFrame(f, places[k])
  BY <1>7 DEF Placed
<1>10. \A a \in DOMAIN written : \E k \in 1 .. n : a = places[k]
  BY <1>8, <1>9 DEF Range
<1>11. /\ DOMAIN written \subseteq Address
       /\ \A a \in DOMAIN written : written[a] \in ColumnType
  BY <1>8, <1>9, <1>10
<1>12. /\ DOMAIN series \subseteq SeriesVar /\ DOMAIN ff \subseteq FrameVar \cup Holder
       /\ \A s \in DOMAIN series : series[s] \in DOMAIN written \cup DOMAIN heap
  BY <1>4, <1>6, OwnedIsLive DEF ReferencesOK
<1>13. ASSUME NEW g \in DOMAIN ff PROVE ff[g] \in NonEmpty(DOMAIN written \cup DOMAIN heap)
  <2>1. CASE g = f
    <3>1. ff[g] = places
      BY <1>6, <2>1
    <3>2. places \in [1 .. n -> DOMAIN written \cup DOMAIN heap]
      BY <1>8, <1>9
    <3> QED
      BY <1>2, <3>1, <3>2, SeqNonEmpty
  <2>2. CASE g # f
    <3>1. ff[g] = frames[g] /\ g \in DOMAIN frames
      BY <1>6, <2>2
    <3>2. PICK m \in 1 .. MaxWidth : frames[g] \in [1 .. m -> DOMAIN heap]
      BY <1>4, <3>1 DEF ReferencesOK, NonEmpty
    <3> QED
      BY <3>1, <3>2, SeqNonEmpty
  <2> QED
    BY <2>1, <2>2
<1>14. /\ \A s \in DOMAIN series \ {} : s \in DOMAIN series /\ series[s] = series[s]
       /\ \A g \in DOMAIN ff \ {f} : g \in DOMAIN frames /\ ff[g] = frames[g]
  BY <1>6
<1>15. ASSUME NEW a \in DOMAIN written \cap DOMAIN heap
       PROVE  \/ written[a] = heap[a]
              \/ /\ \A s \in DOMAIN series \ {} : series[s] # a
                 /\ \A g \in DOMAIN ff \ {f} : a \notin Range(ff[g])
  <2>1. PICK k \in 1 .. n : a = places[k]
    BY <1>10
  <2>2. written[a] = columns[k]
    BY <1>8, <2>1
  <2>3. written[a] = heap[a] \/ OnlyFrame(f, a)
    BY <1>9, <2>1, <2>2
  <2> QED
    BY <1>6, <2>3 DEF OnlyFrame
<1>16. /\ series' = series /\ frames' = ff
       /\ ReferencesOK'
       /\ \A g \in DOMAIN ff :
            FrameValue(g)' = [k \in DOMAIN ff[g] |-> Found(written, ff[g][k])]
       /\ \A s \in DOMAIN series \ {} : SeriesValue(s)' = SeriesValue(s)
       /\ \A g \in DOMAIN ff \ {f} : FrameValue(g)' = FrameValue(g)
  <2>1. Assigns(written, series, ff, {}, {f})
    BY <1>11, <1>12, <1>13, <1>14, <1>15 DEF Assigns
  <2> QED
    BY <1>3, <1>4, <2>1, Stored
<1>17. f # x => FrameValue(f)' = columns
  <2> SUFFICES ASSUME f # x PROVE FrameValue(f)' = columns
    OBVIOUS
  <2>1. FrameValue(f)' = [k \in DOMAIN places |-> Found(written, places[k])]
    BY <1>1, <1>6, <1>16
  <2>2. \A k \in 1 .. n : Found(written, places[k]) = columns[k]
    BY <1>8 DEF Found
  <2> QED
    BY <1>9, <2>1, <2>2
<1>18. ExtendTakes(f, columns, x)
  BY <1>6, <1>16, <1>17 DEF ExtendTakes
<1>19. TypeOK'
  <2>1. /\ unchecked' \subseteq DOMAIN frames'
        /\ hollow' \subseteq FrameVar \ DOMAIN frames'
    BY <1>3, <1>4, <1>6, <1>16
  <2> QED
    BY <1>16, <2>1, TypePartsAfter
<1>20. FramesWellFormed'
  <2>1. ASSUME NEW g \in Usable'
        PROVE  WellFormed(FrameValue(g)') /\ Height(FrameValue(g)') > 0
    <3>1. g \in DOMAIN ff /\ g \in FrameVar /\ g \notin unchecked' /\ g # x /\ g \in DOMAIN frames
      BY <1>6, <1>16 DEF Usable
    <3>2. CASE g = f
      BY <1>5, <1>17, <3>1, <3>2 DEF GoodFrame
    <3>3. CASE g # f
      <4>1. g \in Usable /\ FrameValue(g)' = FrameValue(g)
        BY <1>3, <1>16, <3>1, <3>3 DEF Usable
      <4> QED
        BY <4>1 DEF StoreInv, FramesWellFormed
    <3> QED
      BY <3>2, <3>3
  <2> QED
    BY <2>1 DEF FramesWellFormed, WellFormed, Height
<1>21. FinitelyMany'
  <2>1. IsFiniteSet(DOMAIN frames \ {x})
    BY FS_Subset DEF StoreInv, FinitelyMany
  <2> QED
    BY <1>6, <1>16, <2>1 DEF StoreInv, FinitelyMany
<1> QED
  BY <1>3, <1>18, <1>19, <1>20, <1>21 DEF StoreInv, columns
-----------------------------------------------------------------------------
(* The constructor of DataFrame.                                           *)

SeriesValues == [s \in DOMAIN series |-> SeriesValue(s)]

\* Only the values of the series in the array count.
LEMMA SameNamesLeft ==
  ASSUME NEW array \in NonEmpty(DOMAIN series), NEW columns
  PROVE  NamesLeft(array, columns, [s \in Range(array) |-> SeriesValue(s)])
           = NamesLeft(array, columns, SeriesValues)
<1>1. Range(array) \subseteq DOMAIN series
  BY NonEmptySeq DEF Range
<1>2. \A s \in Range(array) :
        [t \in Range(array) |-> SeriesValue(t)][s] = SeriesValues[s]
  BY <1>1 DEF SeriesValues
<1> QED
  BY <1>2 DEF NamesLeft

\* The series of the array get these values, every other one keeps its own.
NamesTaken(array, named) ==
  /\ DOMAIN series' = DOMAIN series
  /\ \A s \in Range(array) : SeriesValue(s)' = named[s]
  /\ \A s \in DOMAIN series \ Range(array) : SeriesValue(s)' = SeriesValue(s)

\* Where the constructor renames the series of its array.
Owned(array, named) ==
  [s \in DOMAIN named |->
     IF named[s] = SeriesValue(s) THEN series[s]
     ELSE Writable(series[s], CHOOSE k \in DOMAIN array : array[k] = s)]

Named(array, named) ==
  [a \in Range(Owned(array, named)) |->
     named[CHOOSE s \in DOMAIN named : Owned(array, named)[s] = a]]

\* The constructor renames a series at an address that is new, that holds the
\* value already, or that no other object owns; two series share one only with
\* one value.
LEMMA OwnedPlaces ==
  ASSUME StoreInv, Unused # {}, NEW array \in NonEmpty(DOMAIN series),
         NEW named, DOMAIN named = Range(array)
  PROVE  /\ \A s \in Range(array) :
              /\ Owned(array, named)[s] \in Address
              /\ \/ Owned(array, named)[s] \notin DOMAIN heap
                 \/ heap[Owned(array, named)[s]] = named[s]
                 \/ OnlySeries(s, Owned(array, named)[s])
         /\ \A s, t \in Range(array) :
              Owned(array, named)[s] = Owned(array, named)[t] => named[s] = named[t]
<1> DEFINE Slot(s) == CHOOSE k \in DOMAIN array : array[k] = s
           owned == Owned(array, named)
<1>1. /\ DOMAIN array \subseteq 1 .. MaxWidth
      /\ Range(array) \subseteq DOMAIN series
  BY NonEmptySeq DEF Range
<1>2. \A s \in Range(array) : Slot(s) \in 1 .. MaxWidth /\ array[Slot(s)] = s
  BY <1>1 DEF Range
<1>3. \A s \in Range(array) :
        owned[s] = IF named[s] = SeriesValue(s) THEN series[s] ELSE Writable(series[s], Slot(s))
  BY DEF Owned
<1> HIDE DEF Slot, owned
<1>4. /\ \A s \in Range(array) : New(Slot(s)) \in Address \ DOMAIN heap
      /\ \A s, t \in Range(array) : New(Slot(s)) = New(Slot(t)) => s = t
  BY <1>2, Fresh
<1>5. ASSUME NEW s \in Range(array)
      PROVE  \/ owned[s] = series[s] /\ named[s] = heap[series[s]]
             \/ owned[s] = series[s] /\ OnlySeries(s, series[s])
             \/ owned[s] = New(Slot(s))
  <2>1. s \in DOMAIN series
    BY <1>1
  <2>2. CASE named[s] = SeriesValue(s)
    BY <1>3, <2>1, <2>2, SeriesColumn
  <2>3. CASE named[s] # SeriesValue(s)
    <3>1. owned[s] = Writable(series[s], Slot(s))
      BY <1>3, <2>3
    <3>2. CASE Owners(series[s]) = 1
      <4>1. OnlySeries(s, series[s])
        BY <2>1, <3>2, SeriesAlone DEF StoreInv
      <4> QED
        BY <3>1, <3>2, <4>1 DEF Writable
    <3>3. CASE Owners(series[s]) # 1
      BY <3>1, <3>3 DEF Writable
    <3> QED
      BY <3>2, <3>3
  <2> QED
    BY <2>2, <2>3
<1>6. \A s \in Range(array) : series[s] \in DOMAIN heap /\ series[s] \in Address
  BY <1>1, SeriesColumn
<1>7. ASSUME NEW s \in Range(array)
      PROVE  /\ owned[s] \in Address
             /\ \/ owned[s] \notin DOMAIN heap
                \/ heap[owned[s]] = named[s]
                \/ OnlySeries(s, owned[s])
  BY <1>4, <1>5, <1>6
<1>8. ASSUME NEW s \in Range(array), NEW t \in Range(array), owned[s] = owned[t]
      PROVE  named[s] = named[t]
  <2>1. CASE owned[s] = New(Slot(s)) \/ owned[t] = New(Slot(t))
    BY <1>4, <1>5, <1>6, <1>8, <2>1
  <2>2. CASE owned[s] = series[s] /\ owned[t] = series[t]
    <3>1. CASE OnlySeries(s, series[s])
      BY <1>1, <1>8, <2>2, <3>1 DEF OnlySeries
    <3>2. CASE OnlySeries(t, series[t])
      BY <1>1, <1>8, <2>2, <3>2 DEF OnlySeries
    <3>3. CASE ~OnlySeries(s, series[s]) /\ ~OnlySeries(t, series[t])
      <4>1. owned[s] # New(Slot(s)) /\ owned[t] # New(Slot(t))
        BY <1>4, <1>6, <2>2
      <4>2. named[s] = heap[series[s]]
        BY <1>5, <3>3, <4>1
      <4>3. named[t] = heap[series[t]]
        BY <1>5, <3>3, <4>1
      <4> QED
        BY <1>8, <2>2, <4>2, <4>3
    <3> QED
      BY <3>1, <3>2, <3>3
  <2> QED
    BY <1>5, <2>1, <2>2
<1> QED
  BY <1>7, <1>8 DEF owned

\* What the constructor leaves on its arguments and on x.
ConstructTakes(x, array, columns, named) ==
  LET frame == [k \in DOMAIN array |-> named[array[k]]]
  IN  /\ NamesTaken(array, named)
      /\ \A s \in Range(array) : named[s].vals = SeriesValue(s).vals
      /\ DOMAIN frames' = IF Constructs(array, columns, frame)
                          THEN DOMAIN frames \cup {x} ELSE DOMAIN frames
      /\ Constructs(array, columns, frame) => FrameValue(x)' = frame
      /\ \A f \in DOMAIN frames :
           (Constructs(array, columns, frame) => f # x) => FrameValue(f)' = FrameValue(f)

\* The references that the constructor leaves: the frames F get the columns of the
\* array, the others are as before.
Constructing(array, named, ff, F) ==
  /\ DOMAIN named = Range(array)
  /\ \A s \in Range(array) : named[s] \in ColumnType
  /\ DOMAIN ff \subseteq FrameVar \cup Holder
  /\ \A f \in DOMAIN ff \ F : f \in DOMAIN frames /\ ff[f] = frames[f]
  /\ \A f \in DOMAIN ff \cap F :
       ff[f] = [k \in DOMAIN array |-> Owned(array, named)[array[k]]]

\* After the constructor, the series of the array and the frames of F have the
\* new values, every other object its own.
LEMMA ConstructStored ==
  ASSUME StoreInv, Unused # {}, NEW array \in NonEmpty(DOMAIN series),
         NEW named, NEW ff, NEW F, Constructing(array, named, ff, F),
         Store(Named(array, named), Override(Owned(array, named), series), ff)
  PROVE  /\ ReferencesOK' /\ frames' = ff
         /\ NamesTaken(array, named)
         /\ \A f \in DOMAIN ff \ F : FrameValue(f)' = FrameValue(f)
         /\ \A f \in DOMAIN ff \cap F :
              FrameValue(f)' = [k \in DOMAIN array |-> named[array[k]]]
<1> DEFINE owned == Owned(array, named)
           written == Named(array, named)
           ss == Override(owned, series)
           n == Len(array)
<1>1. /\ DOMAIN named = Range(array)
      /\ \A s \in Range(array) : named[s] \in ColumnType
      /\ DOMAIN ff \subseteq FrameVar \cup Holder
      /\ \A f \in DOMAIN ff \ F : f \in DOMAIN frames /\ ff[f] = frames[f]
      /\ \A f \in DOMAIN ff \cap F : ff[f] = [k \in DOMAIN array |-> owned[array[k]]]
  BY DEF Constructing
<1>2. /\ n \in 1 .. MaxWidth /\ DOMAIN array = 1 .. n
      /\ \A k \in 1 .. n : array[k] \in Range(array)
      /\ Range(array) \subseteq DOMAIN series
  BY NonEmptySeq DEF Range
<1>3. /\ \A s \in Range(array) :
           /\ owned[s] \in Address
           /\ \/ owned[s] \notin DOMAIN heap
              \/ heap[owned[s]] = named[s]
              \/ OnlySeries(s, owned[s])
      /\ \A s, t \in Range(array) : owned[s] = owned[t] => named[s] = named[t]
  BY <1>1, OwnedPlaces
<1>4. DOMAIN owned = Range(array)
  BY <1>1 DEF Owned
<1>5. written = [a \in Range(owned) |-> named[CHOOSE s \in DOMAIN named : owned[s] = a]]
  BY DEF Named
<1>6. ReferencesOK
  BY TypeParts DEF StoreInv
<1> HIDE DEF owned, written, n
<1>7. ASSUME NEW s \in Range(array)
      PROVE  owned[s] \in DOMAIN written /\ written[owned[s]] = named[s]
  <2> DEFINE t == CHOOSE t \in DOMAIN named : owned[t] = owned[s]
  <2>1. t \in DOMAIN named /\ owned[t] = owned[s]
    BY <1>1
  <2>2. owned[s] \in Range(owned)
    BY <1>4 DEF Range
  <2>3. written[owned[s]] = named[t] /\ owned[s] \in DOMAIN written
    BY <1>5, <2>2
  <2> QED
    BY <1>1, <1>3, <2>1, <2>3
<1>8. \A a \in DOMAIN written : \E s \in Range(array) : a = owned[s]
  BY <1>4, <1>5 DEF Range
<1>9. /\ DOMAIN written \subseteq Address
      /\ \A a \in DOMAIN written : written[a] \in ColumnType
  BY <1>1, <1>3, <1>7, <1>8
<1>10. /\ DOMAIN ss = DOMAIN series
       /\ \A s \in Range(array) : ss[s] = owned[s]
       /\ \A s \in DOMAIN series \ Range(array) : ss[s] = series[s]
  BY <1>2, <1>4 DEF Override
<1>11. Store(written, ss, ff)
  BY DEF owned, written
<1> HIDE DEF ss
<1>12. DOMAIN ss \subseteq SeriesVar
  BY <1>6, <1>10 DEF ReferencesOK
<1>13. ASSUME NEW s \in DOMAIN ss PROVE ss[s] \in DOMAIN written \cup DOMAIN heap
  <2>1. CASE s \in Range(array)
    BY <1>7, <1>10, <2>1
  <2>2. CASE s \notin Range(array)
    <3>1. ss[s] = series[s] /\ s \in DOMAIN series
      BY <1>10, <2>2
    <3> QED
      BY <1>6, <3>1, OwnedIsLive
  <2> QED
    BY <2>1, <2>2
<1>14. ASSUME NEW f \in DOMAIN ff PROVE ff[f] \in NonEmpty(DOMAIN written \cup DOMAIN heap)
  <2>1. CASE f \in F
    <3>1. ff[f] = [k \in 1 .. n |-> owned[array[k]]]
      BY <1>1, <1>2, <2>1
    <3>2. ff[f] \in [1 .. n -> DOMAIN written \cup DOMAIN heap]
      BY <1>2, <1>7, <3>1
    <3> QED
      BY <1>2, <3>2, SeqNonEmpty
  <2>2. CASE f \notin F
    <3>1. ff[f] = frames[f] /\ f \in DOMAIN frames
      BY <1>1, <2>2
    <3>2. PICK m \in 1 .. MaxWidth : frames[f] \in [1 .. m -> DOMAIN heap]
      BY <1>6, <3>1 DEF ReferencesOK, NonEmpty
    <3> QED
      BY <3>1, <3>2, SeqNonEmpty
  <2> QED
    BY <2>1, <2>2
<1>15. ASSUME NEW a \in DOMAIN written \cap DOMAIN heap
       PROVE  \/ written[a] = heap[a]
              \/ /\ \A s \in DOMAIN ss \ Range(array) : ss[s] # a
                 /\ \A f \in DOMAIN ff \ F : a \notin Range(ff[f])
  <2>1. PICK s \in Range(array) : a = owned[s]
    BY <1>8
  <2>2. written[a] = named[s]
    BY <1>7, <2>1
  <2>3. written[a] = heap[a] \/ OnlySeries(s, a)
    BY <1>3, <2>1, <2>2
  <2>4. CASE OnlySeries(s, a)
    <3>1. \A t \in DOMAIN ss \ Range(array) : ss[t] # a
      BY <1>10, <2>4 DEF OnlySeries
    <3>2. \A f \in DOMAIN ff \ F : a \notin Range(ff[f])
      BY <1>1, <2>4 DEF OnlySeries
    <3> QED
      BY <3>1, <3>2
  <2> QED
    BY <2>3, <2>4
<1>16. \A s \in DOMAIN ss \ Range(array) : s \in DOMAIN series /\ ss[s] = series[s]
  BY <1>10
<1>17. /\ series' = ss /\ frames' = ff
       /\ ReferencesOK'
       /\ \A s \in DOMAIN ss : SeriesValue(s)' = Found(written, ss[s])
       /\ \A f \in DOMAIN ff :
            FrameValue(f)' = [k \in DOMAIN ff[f] |-> Found(written, ff[f][k])]
       /\ \A s \in DOMAIN ss \ Range(array) : SeriesValue(s)' = SeriesValue(s)
       /\ \A f \in DOMAIN ff \ F : FrameValue(f)' = FrameValue(f)
  <2>1. Assigns(written, ss, ff, Range(array), F)
    BY <1>1, <1>9, <1>12, <1>13, <1>14, <1>15, <1>16 DEF Assigns
  <2> QED
    BY <1>6, <1>11, <2>1, Stored
<1>18. \A s \in Range(array) : Found(written, owned[s]) = named[s]
  BY <1>7 DEF Found
<1>19. NamesTaken(array, named)
  BY <1>2, <1>10, <1>17, <1>18 DEF NamesTaken
<1>20. ASSUME NEW f \in DOMAIN ff \cap F
       PROVE  FrameValue(f)' = [k \in DOMAIN array |-> named[array[k]]]
  <2>1. ff[f] = [k \in DOMAIN array |-> owned[array[k]]]
    BY <1>1
  <2>2. \A k \in DOMAIN array : Found(written, ff[f][k]) = named[array[k]]
    BY <1>2, <1>18, <2>1
  <2> QED
    BY <1>17, <2>1, <2>2
<1> QED
  BY <1>17, <1>19, <1>20

\* The constructor of DataFrame, whether or not the columns make a frame.
LEMMA ConstructFrameStep ==
  ASSUME StoreInv, Unused # {}, NEW x \in FrameVar, NEW array \in NonEmpty(DOMAIN series),
         NEW columns \in {<<>>} \cup NonEmpty(GivenName), ConstructFrame(x, array, columns)
  PROVE  /\ StoreInv'
         /\ ConstructTakes(x, array, columns, NamesLeft(array, columns, SeriesValues))
<1> DEFINE named == NamesLeft(array, columns, [s \in Range(array) |-> SeriesValue(s)])
           frame == [k \in DOMAIN array |-> named[array[k]]]
           owned == Owned(array, named)
           addresses == [k \in DOMAIN array |-> owned[array[k]]]
           n == Len(array)
<1>1. /\ n \in 1 .. MaxWidth /\ DOMAIN array = 1 .. n /\ 1 \in 1 .. n
      /\ \A k \in 1 .. n : array[k] \in Range(array)
      /\ Range(array) \subseteq DOMAIN series
  BY NonEmptySeq, Bounds DEF Range
<1>2. /\ DOMAIN named = Range(array)
      /\ \A s \in Range(array) : named[s] \in ColumnType /\ named[s].vals = SeriesValue(s).vals
  <2> DEFINE valueOf == [s \in Range(array) |-> SeriesValue(s)]
  <2>1. \A s \in Range(array) : valueOf[s] \in ColumnType /\ valueOf[s] = SeriesValue(s)
    BY <1>1, SeriesColumn
  <2> HIDE DEF valueOf
  <2>2. /\ DOMAIN NamesLeft(array, columns, valueOf) = Range(array)
        /\ \A s \in Range(array) :
             /\ NamesLeft(array, columns, valueOf)[s] \in ColumnType
             /\ NamesLeft(array, columns, valueOf)[s].vals = valueOf[s].vals
    BY <2>1, NamesLeftTyped
  <2> QED
    BY <2>1, <2>2 DEF valueOf
<1>3. /\ \A k \in DOMAIN array : SeriesValue(array[k]).vals # <<>>
      /\ IF Constructs(array, columns, frame)
         THEN /\ Store(Named(array, named), Override(owned, series), Hold(frames, x, addresses))
              /\ hollow' = hollow \ {x}
              /\ unchecked' = unchecked \ {x}
         ELSE /\ Store(Named(array, named), Override(owned, series), frames)
              /\ UNCHANGED <<hollow, unchecked>>
  BY Zenon DEF ConstructFrame, Owned, Named
<1>4. /\ ReferencesOK /\ unchecked \subseteq DOMAIN frames
      /\ hollow \subseteq FrameVar \ DOMAIN frames
      /\ DOMAIN frames \subseteq FrameVar \cup Holder
  BY TypeParts DEF StoreInv, ReferencesOK
<1>5. named = NamesLeft(array, columns, SeriesValues)
  BY SameNamesLeft
<1> HIDE DEF named
<1>6. /\ DOMAIN frame = 1 .. n /\ frame # <<>> /\ frame[1] = named[array[1]]
      /\ frame[1].vals = SeriesValue(array[1]).vals /\ SeriesValue(array[1]).vals # <<>>
      /\ frame[1] \in ColumnType
  <2>1. DOMAIN frame = 1 .. n /\ frame[1] = named[array[1]]
    BY <1>1
  <2> QED
    BY <1>1, <1>2, <1>3, <2>1
<1>7. Height(frame) > 0
  <2>1. Height(frame) = Len(frame[1].vals)
    BY <1>6 DEF Height
  <2>2. frame[1].vals \in Seq(Value) /\ frame[1].vals # <<>>
    BY <1>6, ColumnRows
  <2> HIDE DEF frame
  <2> QED
    BY <2>1, <2>2
<1>8. CASE Constructs(array, columns, frame)
  <2> DEFINE ff == Hold(frames, x, addresses)
  <2>1. /\ Store(Named(array, named), Override(owned, series), ff)
        /\ hollow' = hollow \ {x} /\ unchecked' = unchecked \ {x}
    BY <1>3, <1>8
  <2>2. /\ DOMAIN ff = DOMAIN frames \cup {x} /\ ff[x] = addresses
        /\ \A f \in DOMAIN frames \ {x} : ff[f] = frames[f]
    BY DEF Hold, Override
  <2> HIDE DEF ff
  <2>3. /\ DOMAIN ff \subseteq FrameVar \cup Holder
        /\ \A f \in DOMAIN ff \ {x} : f \in DOMAIN frames /\ ff[f] = frames[f]
        /\ \A f \in DOMAIN ff \cap {x} : ff[f] = addresses
    BY <1>4, <2>2
  <2>4. /\ ReferencesOK' /\ frames' = ff /\ NamesTaken(array, named)
        /\ \A f \in DOMAIN ff \ {x} : FrameValue(f)' = FrameValue(f)
        /\ \A f \in DOMAIN ff \cap {x} : FrameValue(f)' = frame
    <3>1. Constructing(array, named, ff, {x})
      BY <1>2, <2>3 DEF Constructing
    <3> QED
      BY <2>1, <3>1, ConstructStored
  <2>5. FrameValue(x)' = frame
    BY <2>2, <2>4
  <2>6. TypeOK'
    BY <1>4, <2>1, <2>2, <2>4, TypePartsAfter
  <2>7. FramesWellFormed'
    <3>1. ASSUME NEW f \in Usable'
          PROVE  WellFormed(FrameValue(f)') /\ Height(FrameValue(f)') > 0
      <4>1. CASE f = x
        BY <1>7, <1>8, <2>5, <4>1 DEF Constructs
      <4>2. CASE f # x
        <5>1. f \in Usable /\ FrameValue(f)' = FrameValue(f)
          BY <2>1, <2>2, <2>4, <4>2 DEF Usable
        <5> QED
          BY <5>1 DEF StoreInv, FramesWellFormed
      <4> QED
        BY <4>1, <4>2
    <3> QED
      BY <3>1 DEF FramesWellFormed, WellFormed, Height
  <2>8. FinitelyMany'
    BY <2>2, <2>4, FS_AddElement DEF StoreInv, FinitelyMany, NamesTaken
  <2>9. ConstructTakes(x, array, columns, named)
    BY <1>2, <1>8, <2>2, <2>4, <2>5 DEF ConstructTakes
  <2> QED
    BY <1>5, <2>6, <2>7, <2>8, <2>9 DEF StoreInv
<1>9. CASE ~Constructs(array, columns, frame)
  <2>1. /\ Store(Named(array, named), Override(owned, series), frames)
        /\ hollow' = hollow /\ unchecked' = unchecked
    BY <1>3, <1>9
  <2>2. /\ \A f \in DOMAIN frames \ {} : f \in DOMAIN frames /\ frames[f] = frames[f]
        /\ \A f \in DOMAIN frames \cap {} : frames[f] = addresses
    OBVIOUS
  <2>3. /\ ReferencesOK' /\ frames' = frames /\ NamesTaken(array, named)
        /\ \A f \in DOMAIN frames \ {} : FrameValue(f)' = FrameValue(f)
    <3>1. Constructing(array, named, frames, {})
      BY <1>2, <1>4, <2>2 DEF Constructing
    <3> QED
      BY <2>1, <3>1, ConstructStored
  <2>4. TypeOK'
    BY <1>4, <2>1, <2>3, TypePartsAfter
  <2>5. FramesWellFormed'
    <3>1. Usable' = Usable /\ \A f \in Usable : FrameValue(f)' = FrameValue(f)
      BY <2>1, <2>3 DEF Usable
    <3> QED
      BY <3>1 DEF FramesWellFormed, StoreInv
  <2>6. FinitelyMany'
    BY <2>3 DEF StoreInv, FinitelyMany, NamesTaken
  <2>7. ConstructTakes(x, array, columns, named)
    BY <1>2, <1>9, <2>3 DEF ConstructTakes
  <2> QED
    BY <1>5, <2>4, <2>5, <2>6, <2>7 DEF StoreInv
<1> QED
  BY <1>8, <1>9

\* ValueStore's operators on frames are those of the store.
LEMMA SameShapes ==
  /\ \A c : Values!Height(c) = Height(c)
  /\ \A c : Values!NamesOf(c) = NamesOf(c)
  /\ \A c : Values!WellFormed(c) = WellFormed(c)
  /\ \A c, n : Values!Has(c, n) = Has(c, n)
  /\ \A c, n : Values!IndexOf(c, n) = IndexOf(c, n)
  /\ \A c, n : Values!WithNames(c, n) = WithNames(c, n)
  /\ \A c, d : Values!Stackable(c, d) = Stackable(c, d)
  /\ \A c, d, k : Values!ExtendedUpTo(c, d, k) = ExtendedUpTo(c, d, k)
  /\ \A c, d : Values!Stacked(c, d) = Stacked(c, d)
  /\ \A c, d : Values!AgreeingColumns(c, d) = AgreeingColumns(c, d)
  /\ \A c, d : Values!Fits(c, d) = Fits(c, d)
  /\ \A c, d : Values!CanTake(c, d) = CanTake(c, d)
  /\ \A c, d : Values!Broadcast(c, d) = Broadcast(c, d)
  /\ \A c, d : Values!WithColumnValue(c, d) = WithColumnValue(c, d)
  /\ \A c, k, d : Values!InsertAt(c, k, d) = InsertAt(c, k, d)
  /\ \A c, d : Values!CanDrop(c, d) = CanDrop(c, d)
BY DEF Values!Height, Height, Values!NamesOf, NamesOf, Values!WellFormed, WellFormed,
   Values!IsInjective, IsInjective, Values!Has, Has, Values!IndexOf, IndexOf, Values!WithNames,
   WithNames, Values!Renamed, Renamed, Values!Stackable, Stackable, Values!ExtendedUpTo,
   ExtendedUpTo, Values!Appended, Appended, Values!Stacked, Stacked, Values!AgreeingColumns,
   AgreeingColumns, Values!Fits, Fits, Values!CanTake, CanTake, Values!Broadcast, Broadcast,
   Values!WithColumnValue, WithColumnValue, Values!InsertAt, InsertAt, Values!CanDrop, CanDrop

\* So is what renaming with a mapping leaves.
LEMMA SameEntries == \A c, m : Values!RenameEach(c, m) = RenameEach(c, m)
BY DEF Values!RenameEach, RenameEach, Values!RenameOne, RenameOne, Values!ToSet, ToSet,
   Values!NamesOf, NamesOf, Values!IsInjective, IsInjective

\* So is what dropping columns leaves.
LEMMA SameKept == \A c, m : Values!Without(c, m) = Without(c, m)
BY DEF Values!Without, Without, Values!Kept, Kept, Values!ToSet, ToSet

\* The arguments of the calls are the same in both modules.
LEMMA SameArguments ==
  /\ \A S : Values!NonEmpty(S) = NonEmpty(S)
  /\ Values!GivenName = GivenName
  /\ Values!Mappings = Mappings
  /\ \A S : Values!ToSet(S) = ToSet(S)
  /\ \A f : Values!Range(f) = Range(f)
  /\ \A f, S : Values!Restrict(f, S) = Restrict(f, S)
  /\ \A f, g : Values!Override(f, g) = Override(f, g)
BY DEF Values!NonEmpty, NonEmpty, Values!GivenName, GivenName, Values!Unnamed, Unnamed,
   Values!Mappings, Mappings, Values!ToSet, ToSet, Values!Range, Range, Values!Restrict, Restrict,
   Values!Override, Override

\* So are the names that a constructor leaves.
LEMMA SameNames ==
  /\ \A a, c, v : Values!NamesLeft(a, c, v) = NamesLeft(a, c, v)
  /\ \A a, c, v : Values!Constructs(a, c, v) = Constructs(a, c, v)
BY DEF Values!NamesLeft, NamesLeft, Values!Range, Range, Values!Renamed, Renamed,
   Values!NameGiven, NameGiven, Values!PositionsOf, PositionsOf, Values!Unnamed, Unnamed,
   Values!AutoName, AutoName, Values!Constructs, Constructs, Values!WellFormed, WellFormed,
   Values!Height, Height, Values!IsInjective, IsInjective, Values!NamesOf, NamesOf
-----------------------------------------------------------------------------
(* The calls on frames, as the program sees them.                          *)

FramesSeen == [f \in DOMAIN frames \cap FrameVar |-> FrameValue(f)]

\* What ValueStore is given is what the program sees.
LEMMA Seen ==
  /\ DOMAIN SeriesValues = DOMAIN series
  /\ \A s \in DOMAIN series : SeriesValues[s] = SeriesValue(s)
  /\ \A f \in Usable : f \in DOMAIN FramesSeen /\ FramesSeen[f] = FrameValue(f)
BY DEF SeriesValues, FramesSeen, Usable

\* When the frame x takes a value, ValueStore sees that value on x and nothing
\* else changed.
LEMMA FrameSeen ==
  ASSUME NEW x \in FrameVar, NEW value, FrameTakes(x, value)
  PROVE  /\ SeriesValues' = SeriesValues
         /\ x \in DOMAIN FramesSeen' /\ FramesSeen'[x] = value
         /\ FramesSeen' = Override([v \in {x} |-> value], FramesSeen)
<1>1. /\ DOMAIN series' = DOMAIN series /\ DOMAIN frames' = DOMAIN frames \cup {x}
      /\ FrameValue(x)' = value
      /\ \A s \in DOMAIN series : SeriesValue(s)' = SeriesValue(s)
      /\ \A f \in DOMAIN frames \ {x} : FrameValue(f)' = FrameValue(f)
  BY DEF FrameTakes
<1>2. SeriesValues' = SeriesValues
  BY <1>1 DEF SeriesValues
<1>3. /\ FramesSeen' = [f \in DOMAIN frames' \cap FrameVar |-> FrameValue(f)']
      /\ DOMAIN frames' \cap FrameVar = DOMAIN FramesSeen \cup {x}
      /\ \A f \in DOMAIN FramesSeen \ {x} : FramesSeen[f] = FrameValue(f)'
  BY <1>1 DEF FramesSeen
<1>4. x \in DOMAIN FramesSeen' /\ FramesSeen'[x] = value
  BY <1>1, <1>3
<1>5. FramesSeen' = Override([v \in {x} |-> value], FramesSeen)
  BY <1>1, <1>3 DEF Override
<1> QED
  BY <1>2, <1>4, <1>5

\* A call gives a frame a value that ValueStore allows.
LEMMA FrameCallSeen ==
  ASSUME NEW x \in FrameVar, NEW value, FrameTakes(x, value),
         \/ Values!IsCopy(value) \/ Values!IsSeriesFrame(value) \/ Values!IsRenamed(value)
         \/ Values!IsDropped(value) \/ Values!IsWider(value) \/ Values!IsWithColumn(value)
         \/ Values!IsStacked(value)
  PROVE  Values!FrameCall
<1>1. /\ SeriesValues' = SeriesValues
      /\ x \in DOMAIN FramesSeen' /\ FramesSeen'[x] = value
      /\ FramesSeen' = Override([v \in {x} |-> value], FramesSeen)
  BY FrameSeen
<1>2. /\ [s \in DOMAIN series |-> SeriesValue(s)]' = [s \in DOMAIN series |-> SeriesValue(s)]
      /\ x \in DOMAIN [f \in DOMAIN frames \cap FrameVar |-> FrameValue(f)]'
      /\ [f \in DOMAIN frames \cap FrameVar |-> FrameValue(f)]'[x] = value
      /\ [f \in DOMAIN frames \cap FrameVar |-> FrameValue(f)]'
           = Values!Holding([f \in DOMAIN frames \cap FrameVar |-> FrameValue(f)], x,
                            [f \in DOMAIN frames \cap FrameVar |-> FrameValue(f)]'[x])
  BY <1>1, SameArguments, Zenon DEF Values!Holding, SeriesValues, FramesSeen
<1> QED
  BY <1>2, Zenon DEF Values!FrameCall, Values!FrameGiven

\* What the calls compute is what ValueStore allows.
LEMMA CopyAllowed ==
  ASSUME NEW f \in Usable
  PROVE  Values!IsCopy(FrameValue(f))
BY Seen, SameArguments, Zenon DEF Values!IsCopy, FramesSeen, Range

\* So is the frame of one series.
LEMMA SeriesFrameAllowed ==
  ASSUME NEW s \in DOMAIN series
  PROVE  Values!IsSeriesFrame(<<SeriesValue(s)>>)
BY Seen, Zenon DEF Values!IsSeriesFrame, SeriesValues

\* A frame with other names.
LEMMA RenamedAllowed ==
  ASSUME StoreInv, NEW f \in Usable, NEW mapping \in Mappings,
         RenameEach(FrameValue(f), mapping).ok
  PROVE  Values!IsRenamed(WithNames(FrameValue(f), RenameEach(FrameValue(f), mapping).names))
<1> DEFINE n == Len(frames[f])
           names == RenameEach(FrameValue(f), mapping).names
           frame == WithNames(FrameValue(f), names)
<1>1. GoodFrame(n, FrameValue(f)) /\ n \in 1 .. MaxWidth
  BY UsableFrame, FrameColumns
<1>2. /\ NamesOf(frame) = names /\ Len(frame) = Len(FrameValue(f))
      /\ RenameEach(FrameValue(f), mapping) = [ok |-> TRUE, names |-> names]
  BY <1>1, RenamedGood
<1> HIDE DEF names
<1>3. frame = WithNames(FrameValue(f), NamesOf(frame))
  BY <1>2
<1> HIDE DEF frame
<1>4. /\ f \in DOMAIN FramesSeen
      /\ Len(frame) = Len(FramesSeen[f])
      /\ Values!RenameEach(FramesSeen[f], mapping) = [ok |-> TRUE, names |-> Values!NamesOf(frame)]
      /\ frame = Values!WithNames(FramesSeen[f], Values!NamesOf(frame))
      /\ mapping \in Values!Mappings
  BY <1>2, <1>3, Seen, SameEntries, SameShapes, SameArguments, Zenon
<1>5. Values!IsRenamed(frame)
  BY <1>4, Zenon DEF Values!IsRenamed, FramesSeen
<1> QED
  BY <1>5 DEF frame, names

\* A frame without some of the columns.
LEMMA DroppedAllowed ==
  ASSUME NEW f \in Usable, NEW names \in NonEmpty(GivenName), CanDrop(FrameValue(f), names)
  PROVE  Values!IsDropped(Without(FrameValue(f), names))
<1>1. /\ f \in DOMAIN FramesSeen /\ names \in Values!NonEmpty(Values!GivenName)
      /\ Values!CanDrop(FramesSeen[f], names)
      /\ Without(FrameValue(f), names) = Values!Without(FramesSeen[f], names)
  BY Seen, SameKept, SameShapes, SameArguments, Zenon
<1> QED
  BY <1>1, Zenon DEF Values!IsDropped, FramesSeen

\* A frame with columns added.
LEMMA WiderAllowed ==
  ASSUME NEW f \in Usable, NEW array \in NonEmpty(DOMAIN series),
         WellFormed(FrameValue(f) \o [k \in DOMAIN array |-> SeriesValue(array[k])])
  PROVE  Values!IsWider(FrameValue(f) \o [k \in DOMAIN array |-> SeriesValue(array[k])])
<1> DEFINE added == [k \in DOMAIN array |-> SeriesValue(array[k])]
           wider == FrameValue(f) \o added
<1>1. added = [k \in DOMAIN array |-> SeriesValues[array[k]]]
  <2>1. \A k \in DOMAIN array : SeriesValues[array[k]] = SeriesValue(array[k])
    BY NonEmptySeq, Seen
  <2> QED
    BY <2>1, Zenon
<1> HIDE DEF added
<1>2. wider = FramesSeen[f] \o [k \in DOMAIN array |-> SeriesValues[array[k]]]
  BY <1>1, Seen, Zenon
<1> HIDE DEF wider
<1>3. /\ f \in DOMAIN FramesSeen /\ array \in Values!NonEmpty(DOMAIN SeriesValues)
      /\ Values!WellFormed(wider)
  BY Seen, SameShapes, SameArguments, Zenon DEF wider, added
<1>4. Values!IsWider(wider)
  BY <1>2, <1>3, Zenon DEF Values!IsWider, FramesSeen, SeriesValues
<1> QED
  BY <1>4 DEF wider, added

\* A frame with a column added or replaced.
LEMMA WithColumnAllowed ==
  ASSUME NEW f \in Usable, NEW s \in DOMAIN series, CanTake(FrameValue(f), SeriesValue(s))
  PROVE  Values!IsWithColumn(WithColumnValue(FrameValue(f), SeriesValue(s)))
<1>1. /\ f \in DOMAIN FramesSeen /\ s \in DOMAIN SeriesValues
      /\ Values!CanTake(FramesSeen[f], SeriesValues[s])
      /\ WithColumnValue(FrameValue(f), SeriesValue(s))
           = Values!WithColumnValue(FramesSeen[f], SeriesValues[s])
  BY Seen, SameShapes, Zenon
<1> QED
  BY <1>1, Zenon DEF Values!IsWithColumn, FramesSeen, SeriesValues

\* A frame of the rows of both.
LEMMA StackedAllowed ==
  ASSUME NEW f \in Usable, NEW other \in Usable, Stackable(FrameValue(f), FrameValue(other))
  PROVE  Values!IsStacked(Stacked(FrameValue(f), FrameValue(other)))
<1>1. /\ f \in DOMAIN FramesSeen /\ other \in DOMAIN FramesSeen
      /\ Values!Stackable(FramesSeen[f], FramesSeen[other])
      /\ Stacked(FrameValue(f), FrameValue(other))
           = Values!Stacked(FramesSeen[f], FramesSeen[other])
  BY Seen, SameShapes, Zenon
<1> QED
  BY <1>1, Zenon DEF Values!IsStacked, FramesSeen

\* In place: a column inserted, a column replaced, columns renamed.
IsInserted(f, value) ==
  \E s \in DOMAIN series, k \in 1 .. Len(FrameValue(f)) + 1 :
    Fits(FrameValue(f), SeriesValue(s)) /\ value = InsertAt(FrameValue(f), k, SeriesValue(s))
IsReplaced(f, value) ==
  \E s \in DOMAIN series, k \in DOMAIN FrameValue(f) :
    /\ Len(SeriesValue(s).vals) = Height(FrameValue(f))
    /\ value[k] \in {SeriesValue(s), Renamed(SeriesValue(s), FrameValue(f)[k].name)}
    /\ value = [FrameValue(f) EXCEPT ![k] = value[k]]
IsNamed(f, value) ==
  /\ WellFormed(value)
  /\ Len(value) = Len(FrameValue(f))
  /\ value = WithNames(FrameValue(f), NamesOf(value))

\* A call in place changes the value of a frame as ValueStore allows.
LEMMA FrameCallInPlaceSeen ==
  ASSUME NEW f \in Usable, NEW value, FrameTakes(f, value),
         IsInserted(f, value) \/ IsReplaced(f, value) \/ IsNamed(f, value)
  PROVE  Values!FrameCallInPlace
<1>1. /\ f \in DOMAIN FramesSeen /\ FramesSeen[f] = FrameValue(f) /\ f \in FrameVar
  BY Seen DEF Usable
<1>2. /\ SeriesValues' = SeriesValues
      /\ f \in DOMAIN FramesSeen' /\ FramesSeen'[f] = value
      /\ FramesSeen' = Override([v \in {f} |-> value], FramesSeen)
  BY <1>1, FrameSeen
<1>3. FramesSeen' = Values!Holding(FramesSeen, f, FramesSeen'[f])
  BY <1>2, SameArguments, Zenon DEF Values!Holding
<1>4. \/ \E s \in DOMAIN SeriesValues, k \in 1 .. Len(FramesSeen[f]) + 1 :
           /\ Values!Fits(FramesSeen[f], SeriesValues[s])
           /\ FramesSeen'[f] = Values!InsertAt(FramesSeen[f], k, SeriesValues[s])
      \/ \E s \in DOMAIN SeriesValues, k \in DOMAIN FramesSeen[f] :
           /\ Len(SeriesValues[s].vals) = Values!Height(FramesSeen[f])
           /\ FramesSeen'[f][k] \in {SeriesValues[s],
                                    Values!Renamed(SeriesValues[s], FramesSeen[f][k].name)}
           /\ FramesSeen'[f] = [FramesSeen[f] EXCEPT ![k] = FramesSeen'[f][k]]
      \/ /\ Values!WellFormed(FramesSeen'[f])
         /\ Len(FramesSeen'[f]) = Len(FramesSeen[f])
         /\ FramesSeen'[f] = Values!WithNames(FramesSeen[f], Values!NamesOf(FramesSeen'[f]))
  <2>1. CASE IsInserted(f, value)
    BY <1>1, <1>2, <2>1, Seen, SameShapes, Zenon DEF IsInserted
  <2>2. CASE IsReplaced(f, value)
    <3>1. PICK s \in DOMAIN series, k \in DOMAIN FrameValue(f) :
            /\ Len(SeriesValue(s).vals) = Height(FrameValue(f))
            /\ value[k] \in {SeriesValue(s), Renamed(SeriesValue(s), FrameValue(f)[k].name)}
            /\ value = [FrameValue(f) EXCEPT ![k] = value[k]]
      BY <2>2 DEF IsReplaced
    <3>2. /\ s \in DOMAIN SeriesValues /\ k \in DOMAIN FramesSeen[f]
          /\ Len(SeriesValues[s].vals) = Values!Height(FramesSeen[f])
          /\ FramesSeen'[f] = [FramesSeen[f] EXCEPT ![k] = FramesSeen'[f][k]]
      BY <1>1, <1>2, <3>1, Seen, SameShapes, Zenon
    <3>3. Values!Renamed(SeriesValues[s], FramesSeen[f][k].name)
            = Renamed(SeriesValue(s), FrameValue(f)[k].name)
      BY <1>1, Seen, SameColumns, Zenon
    <3>4. FramesSeen'[f][k] \in {SeriesValues[s],
                                 Values!Renamed(SeriesValues[s], FramesSeen[f][k].name)}
      BY <1>2, <3>1, <3>3, Seen, Zenon
    <3> QED
      BY <3>2, <3>4, Zenon
  <2>3. CASE IsNamed(f, value)
    BY <1>1, <1>2, <2>3, Seen, SameShapes, Zenon DEF IsNamed
  <2> QED
    BY <2>1, <2>2, <2>3
<1> QED
  BY <1>1, <1>2, <1>3, <1>4, Zenon
  DEF Values!FrameCallInPlace, Values!FrameGiven, FramesSeen, SeriesValues

\* The two outcomes of extend, for these frames.
Extended(f, other, x) ==
  /\ Values!Stackable(FramesSeen[f], FramesSeen[other])
  /\ FramesSeen' = Values!Forgetting(Values!Holding(FramesSeen, f,
                     Values!Stacked(FramesSeen[f], FramesSeen[other])), x)
ExtendedHalf(f, other) ==
  /\ Len(FramesSeen[f]) = Len(FramesSeen[other])
  /\ ~Values!Stackable(FramesSeen[f], FramesSeen[other])
  /\ \E upTo \in Values!AgreeingColumns(FramesSeen[f], FramesSeen[other]) \ {0} :
       FramesSeen' = Values!Holding(FramesSeen, f,
                       Values!ExtendedUpTo(FramesSeen[f], FramesSeen[other], upTo))

\* Extend of ValueStore, with its two outcomes named.
LEMMA ExtendOutcomes ==
  Values!Extend <=>
    \E f, other \in DOMAIN FramesSeen :
      /\ f # other
      /\ SeriesValues' = SeriesValues
      /\ \/ \E x \in FrameVar : Extended(f, other, x)
         \/ ExtendedHalf(f, other)
BY Zenon DEF Values!Extend, Extended, ExtendedHalf, FramesSeen, SeriesValues

\* An extend that returns is one that ValueStore allows.
LEMMA ExtendSeen ==
  ASSUME NEW f \in Usable, NEW other \in Usable, NEW x \in FrameVar, f # other,
         Stackable(FrameValue(f), FrameValue(other)),
         ExtendTakes(f, Stacked(FrameValue(f), FrameValue(other)), x)
  PROVE  Values!Extend
<1> DEFINE value  == Stacked(FrameValue(f), FrameValue(other))
           held   == Override([v \in {f} |-> value], FramesSeen)
<1>1. /\ DOMAIN series' = DOMAIN series /\ DOMAIN frames' = DOMAIN frames \ {x}
      /\ f # x => FrameValue(f)' = value
      /\ \A s \in DOMAIN series : SeriesValue(s)' = SeriesValue(s)
      /\ \A g \in DOMAIN frames \ {f, x} : FrameValue(g)' = FrameValue(g)
  BY DEF ExtendTakes
<1> HIDE DEF value
<1>2. SeriesValues' = SeriesValues
  BY <1>1 DEF SeriesValues
<1>3. /\ DOMAIN held = DOMAIN FramesSeen /\ held[f] = value
      /\ \A g \in DOMAIN FramesSeen \ {f} : held[g] = FramesSeen[g]
      /\ f \in DOMAIN FramesSeen /\ other \in DOMAIN FramesSeen
  BY Seen DEF Override
<1> HIDE DEF held
<1>4. FramesSeen' = [g \in DOMAIN held \ {x} |-> held[g]]
  <2>1. DOMAIN frames' \cap FrameVar = DOMAIN held \ {x}
    BY <1>1, <1>3 DEF FramesSeen
  <2>2. \A g \in DOMAIN held \ {x} : FrameValue(g)' = held[g]
    BY <1>1, <1>3 DEF FramesSeen
  <2>3. FramesSeen' = [g \in DOMAIN frames' \cap FrameVar |-> FrameValue(g)']
    BY DEF FramesSeen
  <2> QED
    BY <2>1, <2>2, <2>3
<1>5. FramesSeen' = Restrict(held, DOMAIN held \ {x})
  BY <1>4 DEF Restrict
<1>6. value = Values!Stacked(FramesSeen[f], FramesSeen[other])
  BY Seen, SameShapes, Zenon DEF value
<1>7. Values!Stackable(FramesSeen[f], FramesSeen[other])
  BY Seen, SameShapes, Zenon
<1>8. held = Values!Holding(FramesSeen, f, Values!Stacked(FramesSeen[f], FramesSeen[other]))
  BY <1>6, SameArguments, Zenon DEF held, Values!Holding
<1>9. FramesSeen' = Values!Forgetting(held, x)
  BY <1>5, SameArguments, Zenon DEF Values!Forgetting
<1>10. /\ f \in DOMAIN FramesSeen /\ other \in DOMAIN FramesSeen
       /\ SeriesValues' = SeriesValues
       /\ Values!Stackable(FramesSeen[f], FramesSeen[other])
       /\ FramesSeen' = Values!Forgetting(Values!Holding(FramesSeen, f,
                          Values!Stacked(FramesSeen[f], FramesSeen[other])), x)
  BY <1>2, <1>3, <1>7, <1>8, <1>9, Zenon
<1>11. Extended(f, other, x)
  BY <1>10 DEF Extended
<1> QED
  BY <1>10, <1>11, ExtendOutcomes, Zenon

\* So is one that throws half-way.
LEMMA ExtendThrowsSeen ==
  ASSUME NEW f \in Usable, NEW other \in Usable, f # other,
         Len(FrameValue(f)) = Len(FrameValue(other)),
         ~Stackable(FrameValue(f), FrameValue(other)),
         NEW upTo \in AgreeingColumns(FrameValue(f), FrameValue(other)) \ {0},
         FrameTakes(f, ExtendedUpTo(FrameValue(f), FrameValue(other), upTo))
  PROVE  Values!Extend
<1>1. /\ f \in DOMAIN FramesSeen /\ FramesSeen[f] = FrameValue(f) /\ f \in FrameVar
      /\ other \in DOMAIN FramesSeen /\ FramesSeen[other] = FrameValue(other)
  BY Seen DEF Usable
<1>2. /\ SeriesValues' = SeriesValues
      /\ FramesSeen' = Override([v \in {f} |->
                                  ExtendedUpTo(FrameValue(f), FrameValue(other), upTo)],
                                FramesSeen)
  BY <1>1, FrameSeen
<1>3. /\ FramesSeen' = Values!Holding(FramesSeen, f,
                          Values!ExtendedUpTo(FramesSeen[f], FramesSeen[other], upTo))
      /\ Len(FramesSeen[f]) = Len(FramesSeen[other])
      /\ ~Values!Stackable(FramesSeen[f], FramesSeen[other])
      /\ upTo \in Values!AgreeingColumns(FramesSeen[f], FramesSeen[other]) \ {0}
  BY <1>1, <1>2, SameArguments, SameShapes, Zenon DEF Values!Holding
<1>4. ExtendedHalf(f, other)
  BY <1>3 DEF ExtendedHalf
<1> QED
  BY <1>1, <1>2, <1>3, <1>4, ExtendOutcomes, Zenon

\* The constructor gives its arguments and its frame the values ValueStore
\* allows.
LEMMA ConstructFrameSeen ==
  ASSUME NEW x \in FrameVar, NEW array \in NonEmpty(DOMAIN series),
         NEW columns \in {<<>>} \cup NonEmpty(GivenName),
         ConstructTakes(x, array, columns, NamesLeft(array, columns, SeriesValues))
  PROVE  Values!ConstructFrame
<1> DEFINE named == NamesLeft(array, columns, SeriesValues)
           frame == [k \in DOMAIN array |-> named[array[k]]]
<1>1. /\ DOMAIN named = Range(array) /\ Range(array) \subseteq DOMAIN series
  BY NonEmptySeq DEF NamesLeft, Range
<1>2. /\ DOMAIN series' = DOMAIN series
      /\ \A s \in Range(array) : SeriesValue(s)' = named[s]
      /\ \A s \in DOMAIN series \ Range(array) : SeriesValue(s)' = SeriesValue(s)
  BY DEF ConstructTakes, NamesTaken
<1>3. /\ DOMAIN frames' = IF Constructs(array, columns, frame)
                          THEN DOMAIN frames \cup {x} ELSE DOMAIN frames
      /\ Constructs(array, columns, frame) => FrameValue(x)' = frame
      /\ \A f \in DOMAIN frames :
           (Constructs(array, columns, frame) => f # x) => FrameValue(f)' = FrameValue(f)
  BY Zenon DEF ConstructTakes
<1>4. named = Values!NamesLeft(array, columns, SeriesValues)
  BY SameNames
<1> HIDE DEF named
<1>5. SeriesValues' = Override(named, SeriesValues)
  BY <1>1, <1>2 DEF SeriesValues, Override
<1>6. frame = [k \in DOMAIN array |-> named[array[k]]]
  OBVIOUS
<1> HIDE DEF frame
<1>7. FramesSeen' = IF Constructs(array, columns, frame)
                    THEN Override([v \in {x} |-> frame], FramesSeen) ELSE FramesSeen
  <2>1. CASE Constructs(array, columns, frame)
    <3>1. FramesSeen' = Override([v \in {x} |-> frame], FramesSeen)
      BY <1>3, <2>1 DEF FramesSeen, Override
    <3> QED
      BY <2>1, <3>1
  <2>2. CASE ~Constructs(array, columns, frame)
    <3>1. FramesSeen' = FramesSeen
      BY <1>3, <2>2 DEF FramesSeen
    <3> QED
      BY <2>2, <3>1
  <2> QED
    BY <2>1, <2>2
<1>8. /\ array \in Values!NonEmpty(DOMAIN SeriesValues)
      /\ columns \in {<<>>} \cup Values!NonEmpty(Values!GivenName)
      /\ SeriesValues' = Values!Override(named, SeriesValues)
      /\ FramesSeen' = IF Values!Constructs(array, columns, frame)
                       THEN Values!Holding(FramesSeen, x, frame) ELSE FramesSeen
  BY <1>5, <1>7, Seen, SameArguments, SameNames, Zenon DEF Values!Holding
<1>9. /\ SeriesValues' = Values!Override(Values!NamesLeft(array, columns, SeriesValues),
                                         SeriesValues)
      /\ FramesSeen' =
           IF Values!Constructs(array, columns,
                [k \in DOMAIN array |->
                   Values!NamesLeft(array, columns, SeriesValues)[array[k]]])
           THEN Values!Holding(FramesSeen, x,
                  [k \in DOMAIN array |->
                     Values!NamesLeft(array, columns, SeriesValues)[array[k]]])
           ELSE FramesSeen
  BY <1>4, <1>6, <1>8, Zenon
<1> QED
  BY <1>8, <1>9, Zenon DEF Values!ConstructFrame, FramesSeen, SeriesValues

\* A call changes one object: a frame, while series keep their rows, or a series.
OneObject ==
  \/ /\ \E f : \A g \in DOMAIN frames \cap DOMAIN frames' :
                 g # f => FrameValue(g)' = FrameValue(g)
     /\ \A s \in DOMAIN series \cap DOMAIN series' : SeriesValue(s)'.vals = SeriesValue(s).vals
  \/ /\ \A g \in DOMAIN frames \cap DOMAIN frames' : FrameValue(g)' = FrameValue(g)
     /\ \E t : \A s \in DOMAIN series \cap DOMAIN series' :
                 s # t => SeriesValue(s)' = SeriesValue(s)

\* Whatever the call, it changes one object.
LEMMA TakesOneObject ==
  /\ \A t, value : SeriesTakes(t, value) => OneObject
  /\ \A x, value : FrameTakes(x, value) => OneObject
  /\ \A f, value, x : ExtendTakes(f, value, x) => OneObject
  /\ \A x, array, columns, named : ConstructTakes(x, array, columns, named) => OneObject
<1>1. ASSUME NEW t, NEW value, SeriesTakes(t, value) PROVE OneObject
  BY <1>1 DEF SeriesTakes, OneObject
<1>2. ASSUME NEW x, NEW value, FrameTakes(x, value) PROVE OneObject
  BY <1>2 DEF FrameTakes, OneObject
<1>3. ASSUME NEW f, NEW value, NEW x, ExtendTakes(f, value, x) PROVE OneObject
  <2>1. \A g \in DOMAIN frames \cap DOMAIN frames' : g # f => FrameValue(g)' = FrameValue(g)
    BY <1>3 DEF ExtendTakes
  <2>2. \A s \in DOMAIN series \cap DOMAIN series' : SeriesValue(s)'.vals = SeriesValue(s).vals
    BY <1>3 DEF ExtendTakes
  <2> QED
    BY <2>1, <2>2 DEF OneObject
<1>4. ASSUME NEW x, NEW array, NEW columns, NEW named,
             ConstructTakes(x, array, columns, named)
      PROVE  OneObject
  <2>1. \A g \in DOMAIN frames \cap DOMAIN frames' : g # x => FrameValue(g)' = FrameValue(g)
    BY <1>4 DEF ConstructTakes
  <2>2. \A s \in DOMAIN series \cap DOMAIN series' : SeriesValue(s)'.vals = SeriesValue(s).vals
    <3> TAKE s \in DOMAIN series \cap DOMAIN series'
    <3>1. CASE s \in Range(array)
      BY <1>4, <3>1 DEF ConstructTakes, NamesTaken
    <3>2. CASE s \notin Range(array)
      BY <1>4, <3>2 DEF ConstructTakes, NamesTaken
    <3> QED
      BY <3>1, <3>2
  <2> QED
    BY <2>1, <2>2 DEF OneObject
<1> QED
  BY <1>1, <1>2, <1>3, <1>4

\* A call that makes a frame, or moves one.
LEMMA FrameCallsStep ==
  ASSUME StoreInv, Unused # {}, FrameCalls
  PROVE  StoreInv' /\ Values!Next /\ OneObject
<1>1. PICK x \in FrameVar :
        \/ \E array \in NonEmpty(DOMAIN series), columns \in {<<>>} \cup NonEmpty(GivenName) :
             ConstructFrame(x, array, columns)
        \/ \E s \in DOMAIN series : ToFrame(s, x)
        \/ \E f \in Usable :
             \/ Clone(f, x)
             \/ \E mapping \in Mappings : Rename(f, x, mapping)
             \/ \E names \in NonEmpty(GivenName) : Drop(f, x, names)
             \/ \E array \in NonEmpty(DOMAIN series) : Hstack(f, x, array)
             \/ \E s \in DOMAIN series : WithColumn(f, x, s)
             \/ \E other \in Usable : Vstack(f, other, x) \/ Extend(f, other, x)
  BY DEF FrameCalls
<1>2. CASE \E array \in NonEmpty(DOMAIN series), columns \in {<<>>} \cup NonEmpty(GivenName) :
             ConstructFrame(x, array, columns)
  <2>1. PICK array \in NonEmpty(DOMAIN series), columns \in {<<>>} \cup NonEmpty(GivenName) :
          ConstructFrame(x, array, columns)
    BY <1>2
  <2>2. StoreInv' /\ ConstructTakes(x, array, columns, NamesLeft(array, columns, SeriesValues))
    BY <2>1, ConstructFrameStep
  <2> QED
    BY <2>2, ConstructFrameSeen, TakesOneObject DEF Values!Next
<1>3. ASSUME NEW value, FrameTakes(x, value),
             \/ Values!IsCopy(value) \/ Values!IsSeriesFrame(value) \/ Values!IsRenamed(value)
             \/ Values!IsDropped(value) \/ Values!IsWider(value) \/ Values!IsWithColumn(value)
             \/ Values!IsStacked(value)
      PROVE  Values!Next /\ OneObject
  BY <1>3, FrameCallSeen, TakesOneObject DEF Values!Next
<1>4. CASE \E s \in DOMAIN series : ToFrame(s, x)
  <2>1. PICK s \in DOMAIN series : ToFrame(s, x)
    BY <1>4
  <2>2. StoreInv' /\ FrameTakes(x, <<SeriesValue(s)>>)
    BY <2>1, ToFrameStep
  <2>3. Values!IsSeriesFrame(<<SeriesValue(s)>>)
    BY SeriesFrameAllowed
  <2> QED
    BY <1>3, <2>2, <2>3
<1>5. ASSUME NEW f \in Usable, Clone(f, x) PROVE StoreInv' /\ Values!Next /\ OneObject
  <2>1. StoreInv' /\ FrameTakes(x, FrameValue(f))
    BY <1>5, CloneStep
  <2>2. Values!IsCopy(FrameValue(f))
    BY CopyAllowed
  <2> QED
    BY <1>3, <2>1, <2>2
<1>6. ASSUME NEW f \in Usable, NEW mapping \in Mappings, Rename(f, x, mapping)
      PROVE  StoreInv' /\ Values!Next /\ OneObject
  <2> DEFINE value == WithNames(FrameValue(f), RenameEach(FrameValue(f), mapping).names)
  <2>1. /\ StoreInv' /\ RenameEach(FrameValue(f), mapping).ok
        /\ FrameTakes(x, value)
    BY <1>6, RenameStep
  <2>2. Values!IsRenamed(value)
    BY <2>1, RenamedAllowed
  <2> HIDE DEF value
  <2> QED
    BY <1>3, <2>1, <2>2
<1>7. ASSUME NEW f \in Usable, NEW names \in NonEmpty(GivenName), Drop(f, x, names)
      PROVE  StoreInv' /\ Values!Next /\ OneObject
  <2> DEFINE value == Without(FrameValue(f), names)
  <2>1. StoreInv' /\ CanDrop(FrameValue(f), names) /\ FrameTakes(x, value)
    BY <1>7, DropStep
  <2>2. Values!IsDropped(value)
    BY <2>1, DroppedAllowed
  <2> HIDE DEF value
  <2> QED
    BY <1>3, <2>1, <2>2
<1>8. ASSUME NEW f \in Usable, NEW array \in NonEmpty(DOMAIN series), Hstack(f, x, array)
      PROVE  StoreInv' /\ Values!Next /\ OneObject
  <2> DEFINE value == FrameValue(f) \o [k \in DOMAIN array |-> SeriesValue(array[k])]
  <2>1. StoreInv' /\ WellFormed(value) /\ FrameTakes(x, value)
    BY <1>8, HstackStep
  <2>2. Values!IsWider(value)
    BY <2>1, WiderAllowed
  <2> HIDE DEF value
  <2> QED
    BY <1>3, <2>1, <2>2
<1>9. ASSUME NEW f \in Usable, NEW s \in DOMAIN series, WithColumn(f, x, s)
      PROVE  StoreInv' /\ Values!Next /\ OneObject
  <2> DEFINE value == WithColumnValue(FrameValue(f), SeriesValue(s))
  <2>1. StoreInv' /\ CanTake(FrameValue(f), SeriesValue(s)) /\ FrameTakes(x, value)
    BY <1>9, WithColumnStep
  <2>2. Values!IsWithColumn(value)
    BY <2>1, WithColumnAllowed
  <2> HIDE DEF value
  <2> QED
    BY <1>3, <2>1, <2>2
<1>10. ASSUME NEW f \in Usable, NEW other \in Usable, Vstack(f, other, x)
       PROVE  StoreInv' /\ Values!Next /\ OneObject
  <2> DEFINE value == Stacked(FrameValue(f), FrameValue(other))
  <2>1. /\ StoreInv' /\ Stackable(FrameValue(f), FrameValue(other))
        /\ FrameTakes(x, value)
    BY <1>10, VstackStep
  <2>2. Values!IsStacked(value)
    BY <2>1, StackedAllowed
  <2> HIDE DEF value
  <2> QED
    BY <1>3, <2>1, <2>2
<1>11. ASSUME NEW f \in Usable, NEW other \in Usable, Extend(f, other, x)
       PROVE  StoreInv' /\ Values!Next /\ OneObject
  <2>1. /\ StoreInv' /\ f # other /\ Stackable(FrameValue(f), FrameValue(other))
        /\ ExtendTakes(f, Stacked(FrameValue(f), FrameValue(other)), x)
    BY <1>11, ExtendStep
  <2> QED
    BY <2>1, ExtendSeen, TakesOneObject DEF Values!Next
<1> QED
  BY <1>1, <1>2, <1>4, <1>5, <1>6, <1>7, <1>8, <1>9, <1>10, <1>11

\* A call that changes a frame in place.
LEMMA FrameCallsInPlaceStep ==
  ASSUME StoreInv, Unused # {}, FrameCallsInPlace
  PROVE  StoreInv' /\ Values!Next /\ OneObject
<1>1. PICK f \in Usable :
        \/ \E s \in DOMAIN series :
             \/ \E k \in 1 .. Len(frames[f]) + 1 : InsertAtIdx(f, k, s)
             \/ \E k \in DOMAIN frames[f] : ReplaceAtIdx(f, k, s) \/ AssignColumn(f, k, s)
        \/ \E names \in [DOMAIN frames[f] -> GivenName] : SetColumns(f, names)
        \/ \E other \in Usable : ExtendThrows(f, other)
  BY DEF FrameCallsInPlace
<1>2. ASSUME NEW value, FrameTakes(f, value),
             IsInserted(f, value) \/ IsReplaced(f, value) \/ IsNamed(f, value)
      PROVE  Values!Next /\ OneObject
  BY <1>2, FrameCallInPlaceSeen, TakesOneObject DEF Values!Next
<1>3. /\ DOMAIN frames[f] = 1 .. Len(frames[f]) /\ Len(FrameValue(f)) = Len(frames[f])
      /\ DOMAIN FrameValue(f) = DOMAIN frames[f]
  BY UsableFrame, FrameColumns
<1>4. ASSUME NEW s \in DOMAIN series, NEW k \in 1 .. Len(frames[f]) + 1, InsertAtIdx(f, k, s)
      PROVE  StoreInv' /\ Values!Next /\ OneObject
  <2> DEFINE value == InsertAt(FrameValue(f), k, SeriesValue(s))
  <2>1. StoreInv' /\ Fits(FrameValue(f), SeriesValue(s)) /\ FrameTakes(f, value)
    BY <1>4, InsertAtIdxStep
  <2>2. IsInserted(f, value)
    BY <1>3, <2>1, Zenon DEF IsInserted
  <2> HIDE DEF value
  <2> QED
    BY <1>2, <2>1, <2>2
<1>5. ASSUME NEW s \in DOMAIN series, NEW k \in DOMAIN frames[f],
             NEW column \in {SeriesValue(s), Renamed(SeriesValue(s), FrameValue(f)[k].name)},
             Len(SeriesValue(s).vals) = Height(FrameValue(f))
      PROVE  IsReplaced(f, [FrameValue(f) EXCEPT ![k] = column])
  <2> DEFINE value == [FrameValue(f) EXCEPT ![k] = column]
  <2>1. k \in DOMAIN FrameValue(f) /\ value[k] = column
    BY <1>3
  <2>2. value = [FrameValue(f) EXCEPT ![k] = value[k]]
    BY <2>1, Zenon
  <2> HIDE DEF value
  <2>3. IsReplaced(f, value)
    BY <1>5, <2>1, <2>2, Zenon DEF IsReplaced
  <2> QED
    BY <2>3 DEF value
<1>6. ASSUME NEW s \in DOMAIN series, NEW k \in DOMAIN frames[f], ReplaceAtIdx(f, k, s)
      PROVE  StoreInv' /\ Values!Next /\ OneObject
  <2> DEFINE value == [FrameValue(f) EXCEPT ![k] = SeriesValue(s)]
  <2>1. StoreInv' /\ Len(SeriesValue(s).vals) = Height(FrameValue(f)) /\ FrameTakes(f, value)
    BY <1>6, ReplaceAtIdxStep
  <2>2. IsReplaced(f, value)
    BY <1>5, <2>1
  <2> HIDE DEF value
  <2> QED
    BY <1>2, <2>1, <2>2
<1>7. ASSUME NEW s \in DOMAIN series, NEW k \in DOMAIN frames[f], AssignColumn(f, k, s)
      PROVE  StoreInv' /\ Values!Next /\ OneObject
  <2> DEFINE column == Renamed(SeriesValue(s), FrameValue(f)[k].name)
             value  == [FrameValue(f) EXCEPT ![k] = column]
  <2>1. StoreInv' /\ Len(SeriesValue(s).vals) = Height(FrameValue(f)) /\ FrameTakes(f, value)
    BY <1>7, AssignColumnStep
  <2>2. IsReplaced(f, value)
    <3> HIDE DEF column
    <3>1. column \in {SeriesValue(s), Renamed(SeriesValue(s), FrameValue(f)[k].name)}
      BY DEF column
    <3> QED
      BY <1>5, <2>1, <3>1
  <2> HIDE DEF value
  <2> QED
    BY <1>2, <2>1, <2>2
<1>8. ASSUME NEW names \in [DOMAIN frames[f] -> GivenName], SetColumns(f, names)
      PROVE  StoreInv' /\ Values!Next /\ OneObject
  <2> DEFINE value == WithNames(FrameValue(f), names)
  <2>1. /\ StoreInv' /\ FrameTakes(f, value)
        /\ WellFormed(value) /\ Len(value) = Len(FrameValue(f)) /\ NamesOf(value) = names
    BY <1>8, SetColumnsStep
  <2>2. value = WithNames(FrameValue(f), NamesOf(value))
    BY <2>1
  <2> HIDE DEF value
  <2>3. IsNamed(f, value)
    BY <2>1, <2>2 DEF IsNamed
  <2> QED
    BY <1>2, <2>1, <2>3
<1>9. ASSUME NEW other \in Usable, ExtendThrows(f, other)
      PROVE  StoreInv' /\ Values!Next /\ OneObject
  <2>1. /\ StoreInv' /\ f # other
        /\ Len(FrameValue(f)) = Len(FrameValue(other))
        /\ ~Stackable(FrameValue(f), FrameValue(other))
        /\ \E upTo \in AgreeingColumns(FrameValue(f), FrameValue(other)) \ {0} :
             FrameTakes(f, ExtendedUpTo(FrameValue(f), FrameValue(other), upTo))
    BY <1>9, ExtendThrowsStep
  <2>2. PICK upTo \in AgreeingColumns(FrameValue(f), FrameValue(other)) \ {0} :
          FrameTakes(f, ExtendedUpTo(FrameValue(f), FrameValue(other), upTo))
    BY <2>1
  <2>3. Values!Extend
    BY <2>1, <2>2, ExtendThrowsSeen
  <2> QED
    BY <2>1, <2>2, <2>3, TakesOneObject DEF Values!Next
<1> QED
  BY <1>1, <1>4, <1>6, <1>7, <1>8, <1>9
-----------------------------------------------------------------------------
(* The theorems.                                                           *)

\* A program starts without any object.
LEMMA StoreInit == ASSUME Init PROVE StoreInv /\ Values!Init
<1>1. /\ DOMAIN heap = {} /\ DOMAIN series = {} /\ DOMAIN frames = {}
      /\ hollow = {} /\ unchecked = {}
  BY DEF Init
<1>2. TypeOK
  BY <1>1 DEF TypeOK, References, Range
<1>3. FramesWellFormed
  BY <1>1 DEF FramesWellFormed, Usable
<1>4. FinitelyMany
  BY <1>1, FS_EmptySet DEF FinitelyMany
<1>5. Values!Init
  <2>1. [s \in DOMAIN series |-> SeriesValue(s)] = <<>>
    BY <1>1
  <2>2. [f \in DOMAIN frames \cap FrameVar |-> FrameValue(f)] = <<>>
    BY <1>1
  <2> QED
    BY <2>1, <2>2, Zenon DEF Values!Init
<1> QED
  BY <1>2, <1>3, <1>4, <1>5 DEF StoreInv

\* A call keeps the invariant, is one that ValueStore allows and changes one
\* object.
LEMMA StoreStep == ASSUME StoreInv, Next PROVE StoreInv' /\ Values!Next /\ OneObject
<1>1. Unused # {} /\ (SeriesCalls \/ SeriesCallsInPlace \/ FrameCalls \/ FrameCallsInPlace)
  BY DEF Next
<1>2. CASE SeriesCalls \/ SeriesCallsInPlace
  BY <1>1, <1>2, SeriesCallsStep, TakesOneObject
<1>3. CASE FrameCalls
  BY <1>1, <1>3, FrameCallsStep
<1>4. CASE FrameCallsInPlace
  BY <1>1, <1>4, FrameCallsInPlaceStep
<1> QED
  BY <1>1, <1>2, <1>3, <1>4

\* A step of something else changes nothing.
LEMMA StoreStutter ==
  ASSUME UNCHANGED vars
  PROVE  /\ StoreInv => StoreInv'
         /\ UNCHANGED Values!values
<1>1. /\ heap' = heap /\ series' = series /\ frames' = frames
      /\ hollow' = hollow /\ unchecked' = unchecked
  BY DEF vars
<1>2. (\A s : SeriesValue(s)' = SeriesValue(s)) /\ (\A f : FrameValue(f)' = FrameValue(f))
  BY <1>1 DEF SeriesValue, FrameValue
<1>3. TypeOK => TypeOK'
  BY <1>1 DEF TypeOK, References
<1>4. FramesWellFormed => FramesWellFormed'
  BY <1>1, <1>2 DEF FramesWellFormed, Usable, WellFormed, Height
<1>5. FinitelyMany => FinitelyMany'
  BY <1>1 DEF FinitelyMany
<1>6. UNCHANGED Values!values
  BY <1>1, <1>2 DEF Values!values
<1> QED
  BY <1>3, <1>4, <1>5, <1>6 DEF StoreInv

\* After any sequence of calls, returned or thrown, the references are as
\* TypeOK says and the frames that can be called are well formed, for any set
\* of variables and addresses.
THEOREM StoreInvariant == Spec => []StoreInv
<1>1. Init => StoreInv
  BY StoreInit
<1>2. StoreInv /\ [Next]_vars => StoreInv'
  BY StoreStep, StoreStutter
<1> QED
  BY <1>1, <1>2, PTL DEF Spec

\* Every address that a Series or a DataFrame holds is live, and every live
\* column has an owner.
THEOREM StoreTyped == Spec => []TypeOK
<1>1. StoreInv => TypeOK
  BY DEF StoreInv
<1> QED
  BY <1>1, StoreInvariant, PTL

\* The columns of a frame have one height and distinct names, unless
\* replaceAtIdx was given a name that was taken or an extend threw half-way.
THEOREM StoreFramesWellFormed == Spec => []FramesWellFormed
<1>1. StoreInv => FramesWellFormed
  BY DEF StoreInv
<1> QED
  BY <1>1, StoreInvariant, PTL

\* Sharing of native columns between Series and DataFrame objects is never
\* seen: the store implements ValueStore, in which each object has its value.
THEOREM StoreKeepsValues == Spec => KeepsValues
<1>1. Init => Values!Init
  BY StoreInit
<1>2. StoreInv /\ [Next]_vars => [Values!Next]_(Values!values)
  BY StoreStep, StoreStutter
<1> QED
  BY <1>1, <1>2, StoreInvariant, PTL DEF Spec, KeepsValues, Values!Spec

\* A set within a set of one element has at most one.
LEMMA OneOf ==
  ASSUME NEW S, NEW e, S \subseteq {e}
  PROVE  Cardinality(S) <= 1
<1>1. CASE S = {}
  BY <1>1, FS_EmptySet
<1>2. CASE S # {}
  <2>1. S = {e}
    BY <1>2
  <2> QED
    BY <2>1, FS_Singleton
<1> QED
  BY <1>1, <1>2

\* A call that changes one object writes the rows of at most one.
LEMMA OneObjectWritten == ASSUME OneObject PROVE OneWritten
<1> DEFINE changedSeries == {s \in DOMAIN series \cap DOMAIN series' :
                               SeriesValue(s)' # SeriesValue(s)}
           changedFrames == {f \in DOMAIN frames \cap DOMAIN frames' :
                               FrameValue(f)' # FrameValue(f)}
           changedRows   == {s \in changedSeries : SeriesValue(s)'.vals # SeriesValue(s).vals}
<1>1. CASE /\ \E f : \A g \in DOMAIN frames \cap DOMAIN frames' :
                       g # f => FrameValue(g)' = FrameValue(g)
           /\ \A s \in DOMAIN series \cap DOMAIN series' :
                SeriesValue(s)'.vals = SeriesValue(s).vals
  <2>1. PICK f : changedFrames \subseteq {f}
    BY <1>1
  <2>2. /\ changedRows \subseteq {f}
        /\ \A s \in changedSeries : SeriesValue(s)'.vals = SeriesValue(s).vals
    BY <1>1
  <2> HIDE DEF changedFrames, changedRows
  <2>3. Cardinality(changedFrames) <= 1 /\ Cardinality(changedRows) <= 1
    BY <2>1, <2>2, OneOf
  <2> QED
    BY <2>2, <2>3 DEF OneWritten, changedFrames, changedRows
<1>2. CASE /\ \A g \in DOMAIN frames \cap DOMAIN frames' : FrameValue(g)' = FrameValue(g)
           /\ \E t : \A s \in DOMAIN series \cap DOMAIN series' :
                       s # t => SeriesValue(s)' = SeriesValue(s)
  <2>1. PICK t : changedSeries \subseteq {t}
    BY <1>2
  <2>2. changedFrames = {} /\ changedFrames \subseteq {t} /\ changedRows \subseteq {t}
    BY <1>2, <2>1
  <2> HIDE DEF changedFrames, changedRows
  <2>3. Cardinality(changedFrames) <= 1 /\ Cardinality(changedRows) <= 1
    BY <2>2, OneOf
  <2> QED
    BY <2>2, <2>3 DEF OneWritten, changedFrames, changedRows
<1> QED
  BY <1>1, <1>2 DEF OneObject

\* No call writes the rows of two objects, though they share native columns.
THEOREM StoreNoSharedWrites == Spec => NoSharedWrites
<1>1. StoreInv /\ [Next]_vars => [OneWritten]_vars
  BY StoreStep, OneObjectWritten
<1> QED
  BY <1>1, StoreInvariant, PTL DEF Spec, NoSharedWrites
=============================================================================
