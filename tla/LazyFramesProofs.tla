-------------------------- MODULE LazyFramesProofs --------------------------
(***************************************************************************)
(* LazyFrames, for any variables, addresses, options and bounds: what a    *)
(* query owns stays well-formed, and a plan is a value.                    *)
(***************************************************************************)
EXTENDS LazyFrames, ColumnStoreProofs

\* The frames a program may use, and the outcomes of queries.
GoodFrames == {frame \in NonEmpty(ColumnType) : WellFormed(frame) /\ Height(frame) > 0}
Answers    == {Failure} \cup {Done(frame) : frame \in GoodFrames}

-----------------------------------------------------------------------------
(* What queries compute.                                                   *)

\* A frame is as wide as its sequence is long.
LEMMA FrameGood ==
  ASSUME NEW frame \in GoodFrames
  PROVE  Len(frame) \in 1 .. MaxWidth /\ GoodFrame(Len(frame), frame)
<1>1. frame \in NonEmpty(ColumnType) /\ WellFormed(frame) /\ Height(frame) > 0
  BY DEF GoodFrames
<1>2. PICK n \in 1 .. MaxWidth : frame \in [1 .. n -> ColumnType]
  BY <1>1 DEF NonEmpty
<1>3. Len(frame) = n
  BY <1>2, Bounds
<1> QED
  BY <1>1, <1>2, <1>3 DEF GoodFrame

\* And a sequence of well-formed columns is a frame.
LEMMA GoodIsFrame ==
  ASSUME NEW n \in 1 .. MaxWidth, NEW frame, GoodFrame(n, frame)
  PROVE  frame \in GoodFrames /\ Len(frame) = n
<1>1. frame \in [1 .. n -> ColumnType] /\ WellFormed(frame) /\ Height(frame) > 0
  BY DEF GoodFrame
<1>2. frame \in NonEmpty(ColumnType)
  BY <1>1, SeqNonEmpty
<1> QED
  BY <1>1, <1>2, GoodParts DEF GoodFrames

\* Other rows, the same number of them in every column.
LEMMA RowsGood ==
  ASSUME NEW n \in 1 .. MaxWidth, NEW frame, GoodFrame(n, frame),
         NEW height \in 1 .. MaxRows, NEW rows,
         \A k \in 1 .. n : rows[k] \in Seq(Value) /\ Len(rows[k]) = height
  PROVE  GoodFrame(n, [k \in 1 .. n |-> [frame[k] EXCEPT !.vals = rows[k]]])
<1> DEFINE other == [k \in 1 .. n |-> [frame[k] EXCEPT !.vals = rows[k]]]
<1>1. /\ \A k \in 1 .. n : frame[k] \in ColumnType
      /\ \A j, k \in 1 .. n : frame[j].name = frame[k].name => j = k
  BY GoodParts
<1>2. ASSUME NEW k \in 1 .. n
      PROVE  /\ other[k] \in ColumnType /\ other[k].name = frame[k].name
             /\ Len(other[k].vals) = height
  <2>1. other[k] = [name |-> frame[k].name, vals |-> rows[k]]
    BY <1>1, WithRowsOf
  <2>2. frame[k].name \in ColumnName /\ Len(rows[k]) <= MaxRows /\ rows[k] \in Seq(Value)
    BY <1>1, ColumnRows, Bounds
  <2> QED
    BY <2>1, <2>2, RowsColumn
<1>3. other \in [1 .. n -> ColumnType]
  BY <1>2
<1>4. height \in Nat \ {0}
  BY Bounds
<1>5. \A j, k \in 1 .. n : other[j].name = other[k].name => j = k
  BY <1>1, <1>2
<1> HIDE DEF other
<1>6. GoodFrame(n, other)
  BY <1>2, <1>3, <1>4, <1>5, PartsGood
<1> QED
  BY <1>6 DEF other

\* The first rows of a frame, at least one of them.
LEMMA FirstRowsGood ==
  ASSUME NEW frame \in GoodFrames, NEW rows \in 1 .. MaxRows
  PROVE  FirstRows(frame, rows) \in GoodFrames
<1> DEFINE n == Len(frame)
           height == IF rows < Height(frame) THEN rows ELSE Height(frame)
           first == [k \in 1 .. n |-> SubSeq(frame[k].vals, 1, height)]
<1>1. n \in 1 .. MaxWidth /\ GoodFrame(n, frame)
  BY FrameGood
<1>2. /\ DOMAIN frame = 1 .. n /\ Height(frame) \in 1 .. MaxRows
      /\ \A k \in 1 .. n : frame[k] \in ColumnType /\ Len(frame[k].vals) = Height(frame)
  BY <1>1, GoodParts
<1>3. height \in 1 .. MaxRows /\ height \in 1 .. Height(frame)
  BY <1>2, Bounds
<1>4. FirstRows(frame, rows) = [k \in 1 .. n |-> [frame[k] EXCEPT !.vals = first[k]]]
  BY <1>2 DEF FirstRows, WithRows
<1> HIDE DEF height, n
<1>5. ASSUME NEW k \in 1 .. n PROVE first[k] \in Seq(Value) /\ Len(first[k]) = height
  <2>1. frame[k].vals \in Seq(Value) /\ Len(frame[k].vals) = Height(frame)
    BY <1>2, ColumnRows
  <2>2. \A i \in 1 .. height : frame[k].vals[i] \in Value
    BY <1>2, <1>3, <2>1
  <2>3. 1 \in Int /\ height \in Int /\ 1 <= height
    BY <1>3
  <2>4. /\ SubSeq(frame[k].vals, 1, height) \in Seq(Value)
        /\ Len(SubSeq(frame[k].vals, 1, height)) = IF 1 <= height THEN height - 1 + 1 ELSE 0
    BY <2>2, <2>3, SubSeqProperties
  <2> QED
    BY <2>3, <2>4
<1> HIDE DEF first
<1>6. GoodFrame(n, FirstRows(frame, rows))
  <2>1. GoodFrame(n, [k \in 1 .. n |-> [frame[k] EXCEPT !.vals = first[k]]])
    BY <1>1, <1>3, <1>5, RowsGood, Zenon
  <2> QED
    BY <1>4, <2>1, Zenon
<1> QED
  BY <1>1, <1>6, GoodIsFrame

\* All rows are the frame itself.
LEMMA AllRowsOfFrame ==
  ASSUME NEW frame \in GoodFrames
  PROVE  FirstRows(frame, AllRows) = frame
<1> DEFINE n == Len(frame)
<1>1. n \in 1 .. MaxWidth /\ GoodFrame(n, frame)
  BY FrameGood
<1>2. /\ DOMAIN frame = 1 .. n /\ frame \in [1 .. n -> ColumnType]
      /\ \A k \in 1 .. n : frame[k] \in ColumnType
  BY <1>1, GoodParts
<1> DEFINE first(k) == [frame[k] EXCEPT !.vals =
                          SubSeq(@, 1, IF AllRows < Len(@) THEN AllRows ELSE Len(@))]
<1>3. FirstRows(frame, AllRows) = [k \in 1 .. n |-> first(k)]
  BY <1>2 DEF FirstRows, WithRows
<1>4. ASSUME NEW k \in 1 .. n PROVE first(k) = frame[k]
  <2> DEFINE rows == frame[k].vals
             upTo == IF AllRows < Len(rows) THEN AllRows ELSE Len(rows)
  <2>1. /\ frame[k] \in ColumnType /\ rows \in Seq(Value) /\ Len(rows) \in 0 .. MaxRows
        /\ frame[k] = [name |-> frame[k].name, vals |-> rows]
    BY <1>2, ColumnRows
  <2>2. upTo = Len(rows)
    BY <2>1, Bounds DEF AllRows
  <2>3. SubSeq(rows, 1, Len(rows)) = rows
    BY <2>1
  <2>4. first(k) = [frame[k] EXCEPT !.vals = rows]
    BY <2>2, <2>3
  <2>5. [frame[k] EXCEPT !.vals = rows] = [name |-> frame[k].name, vals |-> rows]
    BY <2>1, WithRowsOf
  <2> QED
    BY <2>1, <2>4, <2>5
<1> HIDE DEF first, n
<1> QED
  BY <1>2, <1>3, <1>4

\* A frame with its rows in reverse order.
LEMMA ReversedGood ==
  ASSUME NEW frame \in GoodFrames
  PROVE  WithRows(frame, Reverse) \in GoodFrames
<1> DEFINE n == Len(frame)
           rows == [k \in 1 .. n |-> Reverse(frame[k].vals)]
<1>1. n \in 1 .. MaxWidth /\ GoodFrame(n, frame)
  BY FrameGood
<1>2. /\ DOMAIN frame = 1 .. n /\ Height(frame) \in 1 .. MaxRows
      /\ \A k \in 1 .. n : frame[k] \in ColumnType /\ Len(frame[k].vals) = Height(frame)
  BY <1>1, GoodParts
<1>3. WithRows(frame, Reverse) = [k \in 1 .. n |-> [frame[k] EXCEPT !.vals = rows[k]]]
  BY <1>2 DEF WithRows
<1> HIDE DEF n
<1>4. ASSUME NEW k \in 1 .. n PROVE rows[k] \in Seq(Value) /\ Len(rows[k]) = Height(frame)
  <2>1. frame[k].vals \in Seq(Value) /\ Len(frame[k].vals) = Height(frame)
    BY <1>2, ColumnRows
  <2> DEFINE q == frame[k].vals
             m == Height(frame)
  <2>2. m \in Nat
    BY <1>2, Bounds
  <2>3. Reverse(q) = [i \in 1 .. m |-> q[(m - i) + 1]]
    BY <2>1 DEF Reverse
  <2>4. rows[k] = Reverse(q)
    OBVIOUS
  <2>5. q \in Seq(Value) /\ Len(q) = m
    BY <2>1
  <2> HIDE DEF q, m, rows
  <2>6. \A i \in 1 .. m : q[(m - i) + 1] \in Value
    BY <2>2, <2>5
  <2>7. Reverse(q) \in [1 .. m -> Value]
    BY <2>3, <2>6
  <2> QED
    BY <2>2, <2>4, <2>7 DEF m
<1> HIDE DEF rows
<1>5. GoodFrame(n, WithRows(frame, Reverse))
  <2>1. GoodFrame(n, [k \in 1 .. n |-> [frame[k] EXCEPT !.vals = rows[k]]])
    BY <1>1, <1>2, <1>4, RowsGood, Zenon
  <2> QED
    BY <1>3, <2>1, Zenon
<1> QED
  BY <1>1, <1>5, GoodIsFrame

\* The keys of a column: some of its rows, at least one, and no more than it has.
LEMMA DistinctRows ==
  ASSUME NEW rows \in Seq(Value), rows # <<>>
  PROVE  Distinct(rows) \in Seq(Value) /\ Len(Distinct(rows)) \in 1 .. Len(rows)
<1> DEFINE n == Len(rows)
           Known(k, q) == rows[k] \in ToSet(q)
           Unfolded(f) == [k \in 0 .. Len(rows) |->
                         IF k = 0 THEN <<>>
                         ELSE IF Known(k, f[k - 1]) THEN f[k - 1] ELSE Append(f[k - 1], rows[k])]
           step == [k \in 1 .. n |-> [q \in Seq(Value) |->
                                        IF Known(k, q) THEN q ELSE Append(q, rows[k])]]
           \* At most k keys, and one as soon as there is a row.
           Few(k, q) == q \in Seq(Value) /\ Len(q) <= k /\ (k > 0 => q # <<>>)
<1>1. n \in Nat /\ n > 0 /\ \A k \in 1 .. n : rows[k] \in Value
  OBVIOUS
<1>2. \A k \in 1 .. n : ~Known(k, <<>>)
  BY DEF ToSet
<1> HIDE DEF Known
<1>3. step \in [1 .. n -> [Seq(Value) -> Seq(Value)]]
  <2>1. ASSUME NEW k \in 1 .. n, NEW q \in Seq(Value)
        PROVE  (IF Known(k, q) THEN q ELSE Append(q, rows[k])) \in Seq(Value)
    BY <1>1
  <2> QED
    BY <2>1
<1>4. PICK g \in [0 .. n -> Seq(Value)] :
        g[0] = <<>> /\ \A k \in 1 .. n : g[k] = step[k][g[k - 1]]
  <2>1. <<>> \in Seq(Value) /\ n \in Nat
    BY <1>1
  <2> HIDE DEF step, n
  <2>2. Iterable(n, Seq(Value), <<>>, step)
    BY <1>3, <2>1, Iterates, Zenon
  <2> QED
    BY <2>2 DEF Iterable
<1>5. g = Unfolded(g)
  <2>1. \A k \in 0 .. n : k = 0 \/ (k \in 1 .. n /\ k # 0 /\ k - 1 \in 0 .. n)
    BY <1>1
  <2>2. \A k \in 1 .. n : g[k - 1] \in Seq(Value) =>
          g[k] = IF Known(k, g[k - 1]) THEN g[k - 1] ELSE Append(g[k - 1], rows[k])
    BY <1>4, Zenon
  <2> QED
    BY <1>4, <2>1, <2>2, Zenon
<1> HIDE DEF step
<1> DEFINE chosen == CHOOSE f : f = Unfolded(f)
<1>6. chosen = Unfolded(chosen)
  <2> HIDE DEF Unfolded
  <2> QED
    BY <1>5, Zenon
<1>7. Distinct(rows) = chosen[n]
  BY DEF Distinct, Known
<1> HIDE DEF chosen
<1>8. /\ chosen[0] = <<>>
      /\ \A k \in 1 .. n :
           chosen[k] = IF Known(k, chosen[k - 1]) THEN chosen[k - 1]
                       ELSE Append(chosen[k - 1], rows[k])
  <2>1. 0 \in 0 .. Len(rows) /\ \A k \in 1 .. n : k \in 0 .. Len(rows) /\ k # 0
    BY <1>1
  <2> QED
    BY <1>6, <2>1, Zenon
<1> DEFINE Reached == {k \in 0 .. n : Few(k, chosen[k])}
<1>9. 0 \in Reached
  <2>1. <<>> \in Seq(Value) /\ Len(<<>>) <= 0 /\ 0 \in 0 .. n /\ ~(0 > 0)
    BY <1>1
  <2> QED
    BY <1>8, <2>1
<1>10. ASSUME NEW k \in 1 .. n, k - 1 \in Reached PROVE k \in Reached
  <2> DEFINE q == chosen[k - 1]
  <2>1. q \in Seq(Value) /\ Len(q) <= k - 1 /\ k \in 0 .. n /\ k \in Nat
    BY <1>1, <1>10
  <2>2. chosen[k] = IF Known(k, q) THEN q ELSE Append(q, rows[k])
    BY <1>8
  <2> HIDE DEF q
  <2>3. CASE Known(k, q)
    <3>1. q # <<>>
      BY <1>2, <2>3
    <3>2. Few(k, q)
      BY <2>1, <3>1
    <3> QED
      BY <2>1, <2>2, <2>3, <3>2
  <2>4. CASE ~Known(k, q)
    <3> DEFINE longer == Append(q, rows[k])
    <3>1. longer \in Seq(Value) /\ Len(longer) = Len(q) + 1 /\ Len(q) \in Nat
      BY <1>1, <2>1
    <3> HIDE DEF longer
    <3>2. longer # <<>> /\ Len(longer) <= k
      BY <2>1, <3>1
    <3>3. Few(k, longer)
      BY <3>1, <3>2
    <3>4. chosen[k] = longer
      BY <2>2, <2>4 DEF longer
    <3> QED
      BY <2>1, <3>3, <3>4
  <2> QED
    BY <2>3, <2>4
<1> HIDE DEF Reached
<1>11. \A k \in 0 .. n : k \in Reached
  BY <1>1, <1>9, <1>10, FromZero
<1>12. n \in Reached
  BY <1>1, <1>11
<1>13. chosen[n] \in Seq(Value) /\ Len(chosen[n]) <= n /\ chosen[n] # <<>>
  BY <1>1, <1>12 DEF Reached
<1>14. Len(chosen[n]) \in 1 .. n
  BY <1>1, <1>13
<1> QED
  BY <1>7, <1>13, <1>14

\* The keys of a frame are a frame.
LEMMA KeysGood ==
  ASSUME NEW frame \in GoodFrames
  PROVE  Keys(frame) \in GoodFrames
<1> DEFINE n == Len(frame)
           keys == Distinct(frame[1].vals)
           column == [frame[1] EXCEPT !.vals = keys]
<1>1. n \in 1 .. MaxWidth /\ GoodFrame(n, frame)
  BY FrameGood
<1>2. /\ frame[1] \in ColumnType /\ Height(frame) = Len(frame[1].vals)
      /\ Height(frame) \in 1 .. MaxRows
  BY <1>1, GoodParts
<1>3. /\ frame[1].vals \in Seq(Value) /\ frame[1].name \in ColumnName
      /\ frame[1].vals # <<>>
  BY <1>2, ColumnRows
<1>4. keys \in Seq(Value) /\ Len(keys) \in 1 .. Height(frame)
  BY <1>2, <1>3, DistinctRows
<1> HIDE DEF keys
<1>5. column = [name |-> frame[1].name, vals |-> keys]
  BY <1>2, WithRowsOf
<1>6. Len(keys) <= MaxRows /\ keys # <<>>
  BY <1>2, <1>4, Bounds
<1>7. column \in ColumnType /\ column.vals # <<>>
  BY <1>3, <1>4, <1>5, <1>6, RowsColumn
<1>8. Keys(frame) = <<column>>
  BY DEF Keys, keys
<1> HIDE DEF column
<1>9. 1 \in 1 .. MaxWidth /\ GoodFrame(1, <<column>>)
  BY <1>7, SingleGood
<1> QED
  BY <1>8, <1>9, GoodIsFrame

\* An outcome is a frame, or the failure.
LEMMA AnswerParts ==
  /\ Failure \in Answers /\ Failure.ok = FALSE
  /\ \A frame \in GoodFrames : Done(frame) \in Answers
  /\ \A frame : Done(frame).ok = TRUE /\ Done(frame).frame = frame
  /\ \A answer \in Answers :
       /\ answer.ok => answer.frame \in GoodFrames /\ answer = Done(answer.frame)
       /\ ~answer.ok => answer = Failure
<1>1. Failure \in Answers /\ Failure.ok = FALSE
  BY DEF Answers, Failure
<1>2. \A frame : Done(frame).ok = TRUE /\ Done(frame).frame = frame
  BY DEF Done
<1>3. \A frame \in GoodFrames : Done(frame) \in Answers
  BY DEF Answers
<1>4. ASSUME NEW answer \in Answers
      PROVE  /\ answer.ok => answer.frame \in GoodFrames /\ answer = Done(answer.frame)
             /\ ~answer.ok => answer = Failure
  <2>1. CASE answer = Failure
    BY <1>1, <2>1
  <2>2. CASE \E frame \in GoodFrames : answer = Done(frame)
    BY <1>2, <2>2
  <2> QED
    BY <2>1, <2>2 DEF Answers
<1> QED
  BY <1>1, <1>2, <1>3, <1>4

\* A step makes another outcome of one.
LEMMA RunStepAnswers ==
  ASSUME NEW answer \in Answers, NEW step \in Steps
  PROVE  RunStep(answer, step) \in Answers
<1>1. CASE ~answer.ok
  BY <1>1 DEF RunStep
<1>2. CASE answer.ok
  <2>1. answer.frame \in GoodFrames
    BY <1>2, AnswerParts
  <2>2. CASE step = "reverse"
    <3>1. RunStep(answer, step) = Done(WithRows(answer.frame, Reverse))
      BY <1>2, <2>2 DEF RunStep, GroupStep, WithRows
    <3>2. WithRows(answer.frame, Reverse) \in GoodFrames
      BY <2>1, ReversedGood
    <3> QED
      BY <3>1, <3>2, AnswerParts
  <2>3. CASE step = GroupStep
    <3>1. RunStep(answer, step) = Done(Keys(answer.frame))
      BY <1>2, <2>3 DEF RunStep, GroupStep
    <3>2. Keys(answer.frame) \in GoodFrames
      BY <2>1, KeysGood
    <3> QED
      BY <3>1, <3>2, AnswerParts
  <2>4. CASE step = "missing"
    <3>1. RunStep(answer, step) = Failure
      BY <1>2, <2>4 DEF RunStep, GroupStep
    <3> QED
      BY <3>1, AnswerParts
  <2> QED
    BY <2>2, <2>3, <2>4 DEF Steps, FrameStep
<1> QED
  BY <1>1, <1>2

\* A query on a well-formed frame finds another one, or fails.
LEMMA OutcomeAnswers ==
  ASSUME NEW frame \in GoodFrames, NEW steps \in Seq(Steps), NEW rows \in 1 .. MaxRows
  PROVE  Outcome(frame, steps, rows) \in Answers
<1> DEFINE n == Len(steps)
           first == Done(FirstRows(frame, rows))
           Unfolded(f) == [k \in 0 .. Len(steps) |->
                         IF k = 0 THEN first ELSE RunStep(f[k - 1], steps[k])]
           step == [k \in 1 .. n |-> [answer \in Answers |-> RunStep(answer, steps[k])]]
<1>1. n \in Nat /\ \A k \in 1 .. n : steps[k] \in Steps
  OBVIOUS
<1>2. first \in Answers
  BY FirstRowsGood, AnswerParts
<1>3. Outcome(frame, steps, rows) = (CHOOSE f : f = Unfolded(f))[n]
  BY DEF Outcome
<1> HIDE DEF n, first
<1>4. step \in [1 .. n -> [Answers -> Answers]]
  BY <1>1, RunStepAnswers
<1>5. PICK g \in [0 .. n -> Answers] :
        g[0] = first /\ \A k \in 1 .. n : g[k] = step[k][g[k - 1]]
  <2> HIDE DEF step
  <2>1. Iterable(n, Answers, first, step)
    BY <1>1, <1>2, <1>4, Iterates, Zenon
  <2> QED
    BY <2>1 DEF Iterable
<1>6. g = Unfolded(g)
  <2>1. \A k \in 0 .. n : k = 0 \/ (k \in 1 .. n /\ k # 0 /\ k - 1 \in 0 .. n)
    BY <1>1
  <2>2. \A k \in 1 .. n : g[k - 1] \in Answers => g[k] = RunStep(g[k - 1], steps[k])
    BY <1>5
  <2> QED
    BY <1>5, <2>1, <2>2, Zenon DEF n
<1> HIDE DEF step
<1> DEFINE chosen == CHOOSE f : f = Unfolded(f)
<1>7. chosen = Unfolded(chosen)
  <2> HIDE DEF Unfolded
  <2> QED
    BY <1>6, Zenon
<1> HIDE DEF chosen
<1>8. /\ chosen[0] = first
      /\ \A k \in 1 .. n : chosen[k] = RunStep(chosen[k - 1], steps[k])
  <2>1. 0 \in 0 .. Len(steps) /\ \A k \in 1 .. n : k \in 0 .. Len(steps) /\ k # 0
    BY <1>1 DEF n
  <2> QED
    BY <1>7, <2>1, Zenon
<1> DEFINE Reached == {k \in 0 .. n : chosen[k] \in Answers}
<1>9. 0 \in Reached
  BY <1>1, <1>2, <1>8
<1>10. ASSUME NEW k \in 1 .. n, k - 1 \in Reached PROVE k \in Reached
  <2>1. chosen[k - 1] \in Answers /\ k \in 0 .. n
    BY <1>1, <1>10
  <2>2. RunStep(chosen[k - 1], steps[k]) \in Answers
    BY <1>1, <2>1, RunStepAnswers
  <2> QED
    BY <1>8, <2>1, <2>2
<1> HIDE DEF Reached
<1>11. \A k \in 0 .. n : k \in Reached
  BY <1>1, <1>9, <1>10, FromZero
<1>12. n \in Reached
  BY <1>1, <1>11
<1>13. chosen[n] \in Answers
  BY <1>12 DEF Reached
<1> QED
  BY <1>3, <1>13 DEF chosen

\* A plan without steps, asked for all rows, finds the frame itself.
LEMMA OutcomeOfNothing ==
  ASSUME NEW frame \in GoodFrames
  PROVE  Outcome(frame, <<>>, AllRows) = Done(frame)
<1> DEFINE Unfolded(f) == [k \in 0 .. Len(<<>>) |->
                         IF k = 0 THEN Done(FirstRows(frame, AllRows))
                         ELSE RunStep(f[k - 1], <<>>[k])]
           g == [k \in 0 .. 0 |-> Done(frame)]
           chosen == CHOOSE f : f = Unfolded(f)
<1>1. Len(<<>>) = 0 /\ 0 \in 0 .. 0 /\ \A k \in 0 .. 0 : k = 0
  OBVIOUS
<1>2. Outcome(frame, <<>>, AllRows) = chosen[0]
  BY <1>1 DEF Outcome
<1>3. g = Unfolded(g)
  BY <1>1, AllRowsOfFrame, Zenon
<1>4. chosen = Unfolded(chosen)
  <2> HIDE DEF Unfolded, g
  <2> QED
    BY <1>3, Zenon
<1> HIDE DEF chosen
<1>5. chosen[0] = Done(FirstRows(frame, AllRows))
  BY <1>1, <1>4, Zenon
<1> QED
  BY <1>2, <1>5, AllRowsOfFrame

-----------------------------------------------------------------------------
(* The invariant.                                                          *)

\* Every frame in the store may be used, whoever holds it.
FramesOK == unchecked = {} /\ \A h \in DOMAIN frames : FrameValue(h) \in GoodFrames

CallType == [query : {"collect", "fetch"}, plan : Plan,
             rows : 1 .. MaxRows, status : CallStatus]

\* The parts of LazyTypeOK: what the objects above the store hold,
PlansOK ==
  /\ DOMAIN plans \subseteq LazyVar /\ \A l \in DOMAIN plans : plans[l] \in Plan
  /\ DOMAIN groups \subseteq GroupVar /\ \A g \in DOMAIN groups : groups[g] \in Plan
  /\ options \in [OptionsVar -> SUBSET OptionName]
  /\ DOMAIN calls \subseteq Call /\ \A c \in DOMAIN calls : calls[c] \in CallType
  /\ panicked \in BOOLEAN

\* and which of them own a frame.
OwnersOK ==
  /\ DOMAIN plans = DOMAIN frames \cap LazyVar
  /\ DOMAIN frames \cap GroupVar \subseteq DOMAIN groups
  /\ DOMAIN calls = DOMAIN frames \cap Call

LazyInv == StoreInv /\ FramesOK /\ PlansOK /\ OwnersOK

\* The invariant says what LazyTypeOK says.
LEMMA LazyTypes == LazyInv => LazyTypeOK
BY DEF LazyInv, LazyTypeOK, StoreInv, PlansOK, OwnersOK, CallType, Range

\* A variable is of one kind.
LEMMA Kinds ==
  /\ LazyVar \subseteq Holder /\ GroupVar \subseteq Holder /\ Call \subseteq Holder
  /\ LazyVar \cap FrameVar = {} /\ GroupVar \cap FrameVar = {} /\ Call \cap FrameVar = {}
  /\ LazyVar \cap GroupVar = {} /\ LazyVar \cap Call = {} /\ GroupVar \cap Call = {}
BY HolderAssumption, LazyHolderAssumption

\* Plans stay plans with a step more, or with other switches.
LEMMA PlanParts ==
  /\ [steps |-> <<>>, off |-> {}] \in Plan
  /\ \A plan \in Plan :
       /\ plan.steps \in Seq(Steps) /\ plan.off \subseteq Switch
       /\ plan = [steps |-> plan.steps, off |-> plan.off]
       /\ \A off \in SUBSET Switch : [plan EXCEPT !.off = off] \in Plan
<1>1. MaxSteps \in Nat
  BY MaxStepsAssumption
<1>2. [steps |-> <<>>, off |-> {}] \in Plan
  <2>1. <<>> \in [1 .. 0 -> Steps] /\ 0 \in 0 .. MaxSteps
    BY <1>1
  <2>2. <<>> \in UNION {[1 .. n -> Steps] : n \in 0 .. MaxSteps}
    BY <2>1
  <2> QED
    BY <2>2 DEF Plan
<1>3. ASSUME NEW plan \in Plan
      PROVE  /\ plan.steps \in Seq(Steps) /\ plan.off \subseteq Switch
             /\ plan = [steps |-> plan.steps, off |-> plan.off]
             /\ \A off \in SUBSET Switch : [plan EXCEPT !.off = off] \in Plan
  <2>1. PICK n \in 0 .. MaxSteps : plan.steps \in [1 .. n -> Steps]
    BY DEF Plan
  <2>2. plan.steps \in Seq(Steps)
    BY <1>1, <2>1
  <2> QED
    BY <2>2 DEF Plan
<1> QED
  BY <1>2, <1>3

\* A plan shorter than the longest has room for a step.
LEMMA PlanAppended ==
  ASSUME NEW plan \in Plan, NEW step \in Steps, Len(plan.steps) < MaxSteps
  PROVE  [plan EXCEPT !.steps = Append(@, step)] \in Plan
<1> DEFINE steps == plan.steps
<1>1. PICK n \in 0 .. MaxSteps : steps \in [1 .. n -> Steps]
  BY DEF Plan
<1>2. n \in Nat /\ steps \in Seq(Steps) /\ Len(steps) = n
  BY <1>1, MaxStepsAssumption
<1>3. n + 1 \in 0 .. MaxSteps
  BY <1>2, MaxStepsAssumption
<1>4. plan = [steps |-> steps, off |-> plan.off] /\ plan.off \subseteq Switch
  BY DEF Plan
<1> DEFINE longer == Append(steps, step)
<1>5. longer \in Seq(Steps) /\ Len(longer) = n + 1
  BY <1>2
<1>6. [plan EXCEPT !.steps = Append(@, step)] = [steps |-> longer, off |-> plan.off]
  BY <1>4
<1> HIDE DEF longer, steps
<1>7. longer \in [1 .. n + 1 -> Steps]
  BY <1>2, <1>5
<1>8. longer \in UNION {[1 .. m -> Steps] : m \in 0 .. MaxSteps}
  BY <1>3, <1>7
<1> QED
  BY <1>4, <1>6, <1>8 DEF Plan

\* The same of the frames in the program's variables alone,
VariablesOK == \A f \in DOMAIN frames \cap FrameVar : FrameValue(f) \in GoodFrames

\* which the invariant of the store implies,
LEMMA UsableGood == StoreInv /\ unchecked = {} => VariablesOK
<1> SUFFICES ASSUME StoreInv, unchecked = {}, NEW f \in DOMAIN frames \cap FrameVar
             PROVE  FrameValue(f) \in GoodFrames
  BY DEF VariablesOK
<1>1. f \in Usable
  BY DEF Usable
<1>2. f \in DOMAIN frames /\ GoodFrame(Len(frames[f]), FrameValue(f))
  BY <1>1, UsableFrame
<1>3. Len(frames[f]) \in 1 .. MaxWidth
  BY <1>2, FrameColumns
<1> QED
  BY <1>2, <1>3, GoodIsFrame

\* also after a step.
LEMMA UsableGoodAfter == StoreInv' /\ (unchecked = {})' => VariablesOK'
BY UsableGood, PTL

\* What is known of a frame in the store.
LEMMA HeldFrame ==
  ASSUME StoreInv, FramesOK, NEW h \in DOMAIN frames
  PROVE  /\ FrameValue(h) \in GoodFrames /\ h \in FrameVar \cup Holder
         /\ Len(FrameValue(h)) = Len(frames[h]) /\ Len(frames[h]) \in 1 .. MaxWidth
         /\ GoodFrame(Len(frames[h]), FrameValue(h))
         /\ AllRows \in 1 .. MaxRows
<1>1. FrameValue(h) \in GoodFrames
  BY DEF FramesOK
<1>2. Len(FrameValue(h)) = Len(frames[h]) /\ Len(frames[h]) \in 1 .. MaxWidth
  BY FrameColumns
<1>3. GoodFrame(Len(frames[h]), FrameValue(h))
  BY <1>1, <1>2, FrameGood
<1>4. Height(FrameValue(h)) \in 1 .. MaxRows
  BY <1>2, <1>3, GoodParts
<1>5. h \in FrameVar \cup Holder
  BY TypeParts DEF StoreInv, ReferencesOK
<1> QED
  BY <1>1, <1>2, <1>3, <1>4, <1>5, Bounds DEF AllRows

-----------------------------------------------------------------------------
(* Where the columns of a frame are that is shared, or made.               *)

\* Columns at new addresses, or at those that have them already.
Apart(n, addresses, columns) ==
  /\ addresses \in [1 .. n -> Address] /\ columns \in [1 .. n -> ColumnType]
  /\ \A j, k \in 1 .. n : addresses[j] = addresses[k] => columns[j] = columns[k]
  /\ \A k \in 1 .. n :
       \/ addresses[k] \notin DOMAIN heap
       \/ addresses[k] \in DOMAIN heap /\ heap[addresses[k]] = columns[k]

\* Any frame may keep them there.
LEMMA ApartPlaced ==
  ASSUME NEW x, NEW n, NEW addresses, NEW columns, Apart(n, addresses, columns)
  PROVE  Placed(x, n, addresses, columns)
BY DEF Apart, Placed

\* A clone shares the columns.
LEMMA SharedApart ==
  ASSUME StoreInv, NEW h \in DOMAIN frames
  PROVE  Apart(Len(frames[h]), frames[h], FrameValue(h))
<1>1. /\ frames[h] \in [1 .. Len(frames[h]) -> Address]
      /\ FrameValue(h) \in [1 .. Len(frames[h]) -> ColumnType]
      /\ \A k \in 1 .. Len(frames[h]) :
           frames[h][k] \in DOMAIN heap /\ FrameValue(h)[k] = heap[frames[h][k]]
  BY FrameColumns
<1> QED
  BY <1>1 DEF Apart

\* A frame that is made has columns of its own.
LEMMA NewApart ==
  ASSUME Unused # {}, NEW n \in 1 .. MaxWidth, NEW columns \in [1 .. n -> ColumnType]
  PROVE  Apart(n, [k \in 1 .. n |-> New(k)], columns)
<1>1. \A k \in 1 .. n : k \in 1 .. MaxWidth
  BY Bounds
<1>2. /\ \A k \in 1 .. n : New(k) \in Address \ DOMAIN heap
      /\ \A j, k \in 1 .. n : New(j) = New(k) => j = k
  BY <1>1, Fresh
<1> QED
  BY <1>2 DEF Apart

\* The result of a query: the frame it ran on, or a new one.
LEMMA ResultApart ==
  ASSUME StoreInv, FramesOK, Unused # {}, NEW h \in DOMAIN frames,
         NEW steps \in Seq(Steps), NEW rows \in 1 .. MaxRows,
         NEW answer, answer = Outcome(FrameValue(h), steps, rows), answer.ok
  PROVE  /\ answer.frame \in GoodFrames
         /\ Apart(Len(answer.frame), ResultColumns(h, steps, rows, answer.frame), answer.frame)
<1>1. FrameValue(h) \in GoodFrames
  BY DEF FramesOK
<1>2. answer \in Answers
  BY <1>1, OutcomeAnswers
<1>3. answer.frame \in GoodFrames
  BY <1>2, AnswerParts
<1>4. CASE steps = <<>> /\ rows = AllRows
  <2>1. answer = Done(FrameValue(h))
    BY <1>1, <1>4, OutcomeOfNothing
  <2>2. answer.frame = FrameValue(h)
    BY <2>1, AnswerParts
  <2>3. ResultColumns(h, steps, rows, answer.frame) = frames[h]
    BY <1>4 DEF ResultColumns
  <2>4. Apart(Len(frames[h]), frames[h], FrameValue(h)) /\ Len(FrameValue(h)) = Len(frames[h])
    BY SharedApart, FrameColumns
  <2> QED
    BY <1>3, <2>2, <2>3, <2>4
<1>5. CASE ~(steps = <<>> /\ rows = AllRows)
  <2> DEFINE n == Len(answer.frame)
  <2>1. n \in 1 .. MaxWidth /\ GoodFrame(n, answer.frame)
    BY <1>3, FrameGood
  <2>2. DOMAIN answer.frame = 1 .. n /\ answer.frame \in [1 .. n -> ColumnType]
    BY <2>1, GoodParts
  <2>3. ResultColumns(h, steps, rows, answer.frame) = [k \in 1 .. n |-> New(k)]
    BY <1>5, <2>2 DEF ResultColumns
  <2> HIDE DEF n
  <2>4. Apart(n, [k \in 1 .. n |-> New(k)], answer.frame)
    BY <2>1, <2>2, NewApart
  <2> QED
    BY <1>3, <2>3, <2>4 DEF n
<1> QED
  BY <1>4, <1>5

-----------------------------------------------------------------------------
(* What a step makes of the store.                                         *)

\* `to` holds `value`, `from` nothing any more, every other holder what it held.
FrameMoves(from, to, value) ==
  /\ DOMAIN series' = DOMAIN series /\ DOMAIN frames' = (DOMAIN frames \ {from}) \cup {to}
  /\ FrameValue(to)' = value
  /\ \A s \in DOMAIN series : SeriesValue(s)' = SeriesValue(s)
  /\ \A f \in DOMAIN frames \ {from, to} : FrameValue(f)' = FrameValue(f)

\* `from` holds nothing any more, every other holder what it held.
FrameLeaves(from) ==
  /\ DOMAIN series' = DOMAIN series /\ DOMAIN frames' = DOMAIN frames \ {from}
  /\ \A s \in DOMAIN series : SeriesValue(s)' = SeriesValue(s)
  /\ \A f \in DOMAIN frames \ {from} : FrameValue(f)' = FrameValue(f)

\* A frame that is cloned, or made, is assigned to a variable or a holder.
LEMMA GivenFrame ==
  ASSUME StoreInv, FramesOK, NEW x \in FrameVar \cup Holder, NEW frame \in GoodFrames,
         NEW addresses, Apart(Len(frame), addresses, frame), AssignFrame(x, addresses, frame)
  PROVE  StoreInv' /\ FramesOK' /\ FrameTakes(x, frame)
<1> DEFINE n == Len(frame)
<1>1. n \in 1 .. MaxWidth /\ GoodFrame(n, frame)
  BY FrameGood
<1>2. Placed(x, n, addresses, frame)
  BY ApartPlaced
<1>3. WellFormed(frame) /\ Height(frame) > 0
  BY DEF GoodFrames
<1> HIDE DEF n
<1>4. StoreInv' /\ FrameTakes(x, frame)
  BY <1>1, <1>2, <1>3, FrameAssigned
<1>5. unchecked' = {}
  BY DEF AssignFrame, FramesOK
<1>6. ASSUME NEW h \in DOMAIN frames' PROVE FrameValue(h)' \in GoodFrames
  <2>1. CASE h = x
    BY <1>4, <2>1 DEF FrameTakes
  <2>2. CASE h # x
    BY <1>4, <2>2 DEF FrameTakes, FramesOK
  <2> QED
    BY <2>1, <2>2
<1> QED
  BY <1>4, <1>5, <1>6 DEF FramesOK

\* Columns that are apart are stored for one holder; no other sees them.
LEMMA ApartStored ==
  ASSUME ReferencesOK, NEW n \in 1 .. MaxWidth, NEW addresses, NEW columns,
         Apart(n, addresses, columns),
         NEW ff, NEW to \in DOMAIN ff, DOMAIN ff \subseteq FrameVar \cup Holder,
         ff[to] = addresses,
         \A f \in DOMAIN ff \ {to} : f \in DOMAIN frames /\ ff[f] = frames[f],
         Store(Contents(addresses, columns), series, ff)
  PROVE  /\ series' = series /\ frames' = ff
         /\ ReferencesOK'
         /\ FrameValue(to)' = columns
         /\ \A s \in DOMAIN series : SeriesValue(s)' = SeriesValue(s)
         /\ \A f \in DOMAIN ff \ {to} : FrameValue(f)' = FrameValue(f)
<1> DEFINE written == Contents(addresses, columns)
<1>1. Placed(to, n, addresses, columns)
  BY ApartPlaced
<1>2. /\ DOMAIN written = Range(addresses)
      /\ \A k \in 1 .. n : addresses[k] \in DOMAIN written /\ written[addresses[k]] = columns[k]
  BY <1>1, ContentsFound
<1>3. Store(written, series, ff)
  OBVIOUS
<1> HIDE DEF written
<1>4. /\ DOMAIN addresses = 1 .. n /\ addresses \in [1 .. n -> Address]
      /\ columns \in [1 .. n -> ColumnType]
      /\ \A k \in 1 .. n :
           \/ addresses[k] \notin DOMAIN heap
           \/ addresses[k] \in DOMAIN heap /\ heap[addresses[k]] = columns[k]
  BY DEF Apart
<1>5. \A a \in DOMAIN written : \E k \in 1 .. n : a = addresses[k]
  BY <1>2, <1>4 DEF Range
<1>6. /\ DOMAIN written \subseteq Address
      /\ \A a \in DOMAIN written : written[a] \in ColumnType
  BY <1>2, <1>4, <1>5
<1>7. /\ DOMAIN series \subseteq SeriesVar
      /\ \A s \in DOMAIN series : series[s] \in DOMAIN written \cup DOMAIN heap
  BY OwnedIsLive DEF ReferencesOK
<1>8. ASSUME NEW f \in DOMAIN ff PROVE ff[f] \in NonEmpty(DOMAIN written \cup DOMAIN heap)
  <2>1. CASE f = to
    <3>1. addresses \in [1 .. n -> DOMAIN written \cup DOMAIN heap]
      BY <1>2, <1>4
    <3> QED
      BY <2>1, <3>1, SeqNonEmpty
  <2>2. CASE f # to
    <3>1. PICK m \in 1 .. MaxWidth : frames[f] \in [1 .. m -> DOMAIN heap]
      BY <2>2 DEF ReferencesOK, NonEmpty
    <3>2. frames[f] \in [1 .. m -> DOMAIN written \cup DOMAIN heap]
      BY <3>1
    <3> QED
      BY <2>2, <3>2, SeqNonEmpty
  <2> QED
    BY <2>1, <2>2
<1>9. \A a \in DOMAIN written \cap DOMAIN heap : written[a] = heap[a]
  BY <1>2, <1>4, <1>5
<1>10. /\ series' = series /\ frames' = ff
       /\ ReferencesOK'
       /\ \A f \in DOMAIN ff :
            FrameValue(f)' = [k \in DOMAIN ff[f] |-> Found(written, ff[f][k])]
       /\ \A s \in DOMAIN series \ {} : SeriesValue(s)' = SeriesValue(s)
       /\ \A f \in DOMAIN ff \ {to} : FrameValue(f)' = FrameValue(f)
  <2>1. \A s \in DOMAIN series \ {} : s \in DOMAIN series /\ series[s] = series[s]
    OBVIOUS
  <2>2. Assigns(written, series, ff, {}, {to})
    BY <1>6, <1>7, <1>8, <1>9, <2>1 DEF Assigns
  <2> QED
    BY <1>3, <2>2, Stored
<1>11. FrameValue(to)' = columns
  <2>1. FrameValue(to)' = [k \in 1 .. n |-> Found(written, addresses[k])]
    BY <1>4, <1>10
  <2>2. \A k \in 1 .. n : Found(written, addresses[k]) = columns[k]
    BY <1>2 DEF Found
  <2> QED
    BY <1>4, <2>1, <2>2
<1> QED
  BY <1>10, <1>11

\* A step that leaves the invariant of the store to be seen from its frames.
LEMMA FramesLeft ==
  ASSUME ReferencesOK', unchecked' = {}, hollow' \subseteq FrameVar \ DOMAIN frames',
         IsFiniteSet(DOMAIN series'), IsFiniteSet(DOMAIN frames'),
         \A h \in DOMAIN frames' : FrameValue(h)' \in GoodFrames
  PROVE  StoreInv' /\ FramesOK'
<1>1. TypeOK'
  BY TypePartsAfter
<1>2. \A f \in Usable' : WellFormed(FrameValue(f)') /\ Height(FrameValue(f)') > 0
  BY DEF Usable, GoodFrames
<1>3. FramesWellFormed'
  BY <1>2 DEF FramesWellFormed, WellFormed, Height
<1> QED
  BY <1>1, <1>3 DEF StoreInv, FinitelyMany, FramesOK

\* The frame of a holder moves: to a DataFrame, to a LazyFrame, or stays while
\* it takes another value.
LEMMA TakenOver ==
  ASSUME StoreInv, FramesOK, NEW from \in DOMAIN frames \cap Holder,
         NEW to \in FrameVar \cup Holder, NEW frame \in GoodFrames, NEW addresses,
         Apart(Len(frame), addresses, frame), TakeOver(from, to, addresses, frame)
  PROVE  StoreInv' /\ FramesOK' /\ FrameMoves(from, to, frame)
<1> DEFINE n == Len(frame)
           ff == Hold(Restrict(frames, DOMAIN frames \ {from}), to, addresses)
<1>1. n \in 1 .. MaxWidth
  BY FrameGood
<1>2. /\ ReferencesOK /\ unchecked = {} /\ hollow \subseteq FrameVar \ DOMAIN frames
      /\ DOMAIN frames \subseteq FrameVar \cup Holder
  BY TypeParts DEF StoreInv, FramesOK, ReferencesOK
<1>3. /\ Store(Contents(addresses, frame), series, ff)
      /\ hollow' = hollow \ {to} /\ unchecked' = unchecked \ {to}
  BY DEF TakeOver
<1>4. /\ DOMAIN ff = (DOMAIN frames \ {from}) \cup {to} /\ ff[to] = addresses
      /\ \A f \in DOMAIN ff \ {to} : f \in DOMAIN frames /\ ff[f] = frames[f]
  BY DEF Hold, Override, Restrict
<1> HIDE DEF ff, n
<1>5. /\ series' = series /\ frames' = ff
      /\ ReferencesOK'
      /\ FrameValue(to)' = frame
      /\ \A s \in DOMAIN series : SeriesValue(s)' = SeriesValue(s)
      /\ \A f \in DOMAIN ff \ {to} : FrameValue(f)' = FrameValue(f)
  <2>1. to \in DOMAIN ff /\ DOMAIN ff \subseteq FrameVar \cup Holder
    BY <1>2, <1>4
  <2>2. Apart(n, addresses, frame)
    BY DEF n
  <2> QED
    BY <1>1, <1>2, <1>3, <1>4, <2>1, <2>2, ApartStored
<1>6. FrameMoves(from, to, frame)
  BY <1>4, <1>5 DEF FrameMoves
<1>7. \A h \in DOMAIN frames' : FrameValue(h)' \in GoodFrames
  BY <1>4, <1>5 DEF FramesOK
<1>8. unchecked' = {} /\ hollow' \subseteq FrameVar \ DOMAIN frames'
  BY <1>2, <1>3, <1>4, <1>5
<1>9. IsFiniteSet(DOMAIN series') /\ IsFiniteSet(DOMAIN frames')
  <2>1. IsFiniteSet(DOMAIN frames \ {from})
    BY FS_Subset DEF StoreInv, FinitelyMany
  <2>2. IsFiniteSet((DOMAIN frames \ {from}) \cup {to})
    BY <2>1, FS_AddElement
  <2> QED
    BY <1>4, <1>5, <2>2 DEF StoreInv, FinitelyMany
<1> QED
  BY <1>5, <1>6, <1>7, <1>8, <1>9, FramesLeft

\* The frame of a holder is dropped.
LEMMA Dropped ==
  ASSUME StoreInv, FramesOK, NEW from,
         Store(<<>>, series, Restrict(frames, DOMAIN frames \ {from})),
         UNCHANGED <<hollow, unchecked>>
  PROVE  StoreInv' /\ FramesOK' /\ FrameLeaves(from)
<1> DEFINE ff == Restrict(frames, DOMAIN frames \ {from})
           written == [a \in {} |-> 0]
<1>1. /\ ReferencesOK /\ unchecked = {} /\ hollow \subseteq FrameVar \ DOMAIN frames
      /\ DOMAIN frames \subseteq FrameVar \cup Holder /\ DOMAIN series \subseteq SeriesVar
      /\ \A f \in DOMAIN frames : frames[f] \in NonEmpty(DOMAIN heap)
  BY TypeParts DEF StoreInv, FramesOK, ReferencesOK
<1>2. DOMAIN ff = DOMAIN frames \ {from} /\ \A f \in DOMAIN ff : ff[f] = frames[f]
  BY DEF Restrict
<1>3. Store(written, series, ff) /\ DOMAIN written = {}
  <2>1. written = <<>>
    OBVIOUS
  <2> QED
    BY <2>1
<1> HIDE DEF ff, written
<1>4. /\ series' = series /\ frames' = ff
      /\ ReferencesOK'
      /\ \A s \in DOMAIN series \ {} : SeriesValue(s)' = SeriesValue(s)
      /\ \A f \in DOMAIN ff \ {} : FrameValue(f)' = FrameValue(f)
  <2>1. /\ DOMAIN written \cup DOMAIN heap = DOMAIN heap /\ DOMAIN written \cap DOMAIN heap = {}
        /\ DOMAIN written \subseteq Address
        /\ \A a \in DOMAIN written : written[a] \in ColumnType
    BY <1>3
  <2>2. \A s \in DOMAIN series : series[s] \in DOMAIN heap
    BY <1>1, OwnedIsLive
  <2>3. Assigns(written, series, ff, {}, {})
    BY <1>1, <1>2, <2>1, <2>2 DEF Assigns
  <2> QED
    BY <1>1, <1>3, <2>3, Stored
<1>5. FrameLeaves(from)
  BY <1>2, <1>4 DEF FrameLeaves
<1>6. \A h \in DOMAIN frames' : FrameValue(h)' \in GoodFrames
  BY <1>2, <1>4 DEF FramesOK
<1>7. unchecked' = {} /\ hollow' \subseteq FrameVar \ DOMAIN frames'
  BY <1>1, <1>2, <1>4
<1>8. IsFiniteSet(DOMAIN series') /\ IsFiniteSet(DOMAIN frames')
  <2>1. IsFiniteSet(DOMAIN frames \ {from})
    BY FS_Subset DEF StoreInv, FinitelyMany
  <2> QED
    BY <1>2, <1>4, <2>1 DEF StoreInv, FinitelyMany
<1> QED
  BY <1>4, <1>5, <1>6, <1>7, <1>8, FramesLeft

-----------------------------------------------------------------------------
(* Calls on DataFrames keep the invariant.                                 *)

\* Calls on DataFrames leave the holders their frames.
LEMMA OwnersLeft ==
  ASSUME LazyInv, UNCHANGED lazyVars,
         DOMAIN frames' \cap Holder = DOMAIN frames \cap Holder
  PROVE  PlansOK' /\ OwnersOK'
<1>1. /\ plans' = plans /\ groups' = groups /\ options' = options
      /\ calls' = calls /\ panicked' = panicked
  BY DEF lazyVars
<1>2. /\ DOMAIN frames' \cap LazyVar = DOMAIN frames \cap LazyVar
      /\ DOMAIN frames' \cap GroupVar = DOMAIN frames \cap GroupVar
      /\ DOMAIN frames' \cap Call = DOMAIN frames \cap Call
  BY Kinds
<1> QED
  BY <1>1, <1>2 DEF LazyInv, PlansOK, OwnersOK

\* The constructor of DataFrame: one column of its own.
LEMMA NewFrameInv ==
  ASSUME LazyInv, Unused # {}, NEW x \in FrameVar, NEW column \in Given,
         NewFrame(x, column), UNCHANGED lazyVars
  PROVE  LazyInv' /\ FrameTakes(x, <<column>>)
<1>1. column \in ColumnType /\ column.vals # <<>>
  <2>1. column \in [name : GivenName, vals : Rows]
    BY LazyHolderAssumption
  <2>2. <<>> \notin Rows
    BY Bounds DEF Rows
  <2> QED
    BY <2>1, <2>2 DEF ColumnType, GivenName
<1>2. 1 \in 1 .. MaxWidth /\ GoodFrame(1, <<column>>)
  BY <1>1, SingleGood
<1>3. <<column>> \in GoodFrames /\ Len(<<column>>) = 1 /\ <<column>> \in [1 .. 1 -> ColumnType]
  BY <1>1, <1>2, GoodIsFrame
<1>4. <<New(1)>> = [k \in 1 .. 1 |-> New(k)]
  OBVIOUS
<1>5. Apart(Len(<<column>>), <<New(1)>>, <<column>>)
  BY <1>2, <1>3, <1>4, NewApart
<1>6. AssignFrame(x, <<New(1)>>, <<column>>)
  BY DEF NewFrame
<1>7. StoreInv' /\ FramesOK' /\ FrameTakes(x, <<column>>)
  BY <1>3, <1>5, <1>6, GivenFrame DEF LazyInv
<1>8. DOMAIN frames' \cap Holder = DOMAIN frames \cap Holder
  BY <1>7, HolderAssumption DEF FrameTakes
<1> QED
  BY <1>7, <1>8, OwnersLeft DEF LazyInv

\* DataFrame.extend: only DataFrames change.
LEMMA ExtendInv ==
  ASSUME LazyInv, Unused # {}, NEW f \in Usable, NEW other \in Usable, NEW x \in FrameVar,
         Extend(f, other, x), UNCHANGED lazyVars
  PROVE  /\ LazyInv' /\ f # other /\ Stackable(FrameValue(f), FrameValue(other))
         /\ ExtendTakes(f, Stacked(FrameValue(f), FrameValue(other)), x)
<1>1. /\ StoreInv' /\ f # other /\ Stackable(FrameValue(f), FrameValue(other))
      /\ ExtendTakes(f, Stacked(FrameValue(f), FrameValue(other)), x)
  BY ExtendStep DEF LazyInv
<1>2. unchecked' = {}
  BY DEF Extend, LazyInv, FramesOK
<1>3. /\ DOMAIN frames' = DOMAIN frames \ {x} /\ f \in FrameVar
      /\ \A g \in DOMAIN frames \ {f, x} : FrameValue(g)' = FrameValue(g)
  BY <1>1 DEF ExtendTakes, Usable
<1>4. \A h \in DOMAIN frames' \cap FrameVar : FrameValue(h)' \in GoodFrames
  BY <1>1, <1>2, UsableGoodAfter DEF VariablesOK
<1>5. \A h \in DOMAIN frames' \ FrameVar : FrameValue(h)' \in GoodFrames
  BY <1>3 DEF LazyInv, FramesOK
<1>6. FramesOK'
  BY <1>2, <1>4, <1>5 DEF FramesOK
<1>7. DOMAIN frames' \cap Holder = DOMAIN frames \cap Holder
  BY <1>3, HolderAssumption
<1> QED
  BY <1>1, <1>6, <1>7, OwnersLeft DEF LazyInv

\* The setter of DataFrame.columns: the columns that holders share keep their
\* names.
LEMMA SetColumnsInv ==
  ASSUME LazyInv, Unused # {}, NEW f \in Usable, NEW names \in NonEmpty(GivenName),
         Len(names) = Len(frames[f]), SetColumns(f, names), UNCHANGED lazyVars
  PROVE  LET columns == WithNames(FrameValue(f), names)
         IN  /\ LazyInv' /\ FrameTakes(f, columns)
             /\ WellFormed(columns) /\ Len(columns) = Len(FrameValue(f))
             /\ NamesOf(columns) = names
<1> DEFINE columns == WithNames(FrameValue(f), names)
<1>1. f \in DOMAIN frames /\ f \in FrameVar
  BY DEF Usable
<1>2. names \in [DOMAIN frames[f] -> GivenName]
  <2>1. /\ DOMAIN names = 1 .. Len(names) /\ names = [k \in DOMAIN names |-> names[k]]
        /\ \A k \in DOMAIN names : names[k] \in GivenName
    BY NonEmptySeq
  <2>2. DOMAIN frames[f] = 1 .. Len(frames[f])
    BY <1>1, FrameColumns DEF LazyInv
  <2> QED
    BY <2>1, <2>2
<1>3. /\ StoreInv' /\ FrameTakes(f, columns)
      /\ WellFormed(columns) /\ Len(columns) = Len(FrameValue(f)) /\ NamesOf(columns) = names
  BY <1>2, SetColumnsStep DEF LazyInv
<1> HIDE DEF columns
<1>4. unchecked' = {}
  BY DEF SetColumns, LazyInv, FramesOK
<1>5. /\ DOMAIN frames' = DOMAIN frames
      /\ \A g \in DOMAIN frames \ {f} : FrameValue(g)' = FrameValue(g)
  BY <1>1, <1>3 DEF FrameTakes
<1>6. \A h \in DOMAIN frames' \cap FrameVar : FrameValue(h)' \in GoodFrames
  BY <1>3, <1>4, UsableGoodAfter DEF VariablesOK
<1>7. \A h \in DOMAIN frames' \ FrameVar : FrameValue(h)' \in GoodFrames
  BY <1>1, <1>5 DEF LazyInv, FramesOK
<1>8. FramesOK'
  BY <1>4, <1>6, <1>7 DEF FramesOK
<1>9. PlansOK' /\ OwnersOK'
  BY <1>5, OwnersLeft
<1> QED
  BY <1>3, <1>8, <1>9 DEF LazyInv, columns

-----------------------------------------------------------------------------
(* Calls on LazyFrames keep it.                                            *)

\* A LazyFrame is given a plan.
LEMMA PlanHeld ==
  ASSUME PlansOK, NEW l \in LazyVar, NEW plan \in Plan, plans' = Hold(plans, l, plan),
         UNCHANGED <<groups, options, calls, panicked>>
  PROVE  /\ PlansOK' /\ DOMAIN plans' = DOMAIN plans \cup {l} /\ plans'[l] = plan
         /\ \A m \in DOMAIN plans \ {l} : plans'[m] = plans[m]
<1>1. /\ DOMAIN plans' = DOMAIN plans \cup {l} /\ plans'[l] = plan
      /\ \A m \in DOMAIN plans \ {l} : plans'[m] = plans[m]
  BY DEF Hold, Override
<1>2. DOMAIN plans' \subseteq LazyVar /\ \A m \in DOMAIN plans' : plans'[m] \in Plan
  BY <1>1 DEF PlansOK
<1> QED
  BY <1>1, <1>2 DEF PlansOK

\* What a LazyFrame holds.
LEMMA HeldPlan ==
  ASSUME LazyInv, NEW l \in DOMAIN plans
  PROVE  /\ l \in DOMAIN frames /\ l \in LazyVar /\ l \in Holder
         /\ plans[l] \in Plan /\ plans[l].steps \in Seq(Steps)
         /\ FrameValue(l) \in GoodFrames /\ AllRows \in 1 .. MaxRows
<1>1. l \in DOMAIN frames /\ l \in LazyVar /\ plans[l] \in Plan
  BY DEF LazyInv, PlansOK, OwnersOK
<1> QED
  BY <1>1, Kinds, PlanParts, HeldFrame DEF LazyInv

\* A holder is given a clone of the frame of another.
LEMMA ClonedFrame ==
  ASSUME LazyInv, NEW h \in DOMAIN frames, NEW x \in FrameVar \cup Holder,
         AssignFrame(x, frames[h], FrameValue(h))
  PROVE  StoreInv' /\ FramesOK' /\ FrameTakes(x, FrameValue(h))
<1>1. /\ FrameValue(h) \in GoodFrames /\ Len(FrameValue(h)) = Len(frames[h])
      /\ Apart(Len(frames[h]), frames[h], FrameValue(h))
  BY HeldFrame, SharedApart DEF LazyInv
<1> QED
  BY <1>1, GivenFrame DEF LazyInv

\* DataFrame.lazy: a plan without steps over a clone of the frame.
LEMMA LazyStep ==
  ASSUME LazyInv, NEW f \in Usable, NEW l \in LazyVar, Lazy(f, l)
  PROVE  /\ LazyInv' /\ FrameTakes(l, FrameValue(f))
         /\ DOMAIN plans' = DOMAIN plans \cup {l} /\ plans'[l] = [steps |-> <<>>, off |-> {}]
         /\ \A m \in DOMAIN plans \ {l} : plans'[m] = plans[m]
<1>1. /\ AssignFrame(l, frames[f], FrameValue(f))
      /\ plans' = Hold(plans, l, [steps |-> <<>>, off |-> {}])
      /\ UNCHANGED <<groups, options, calls, panicked>>
  BY DEF Lazy
<1>2. StoreInv' /\ FramesOK' /\ FrameTakes(l, FrameValue(f))
  BY <1>1, Kinds, ClonedFrame DEF Usable
<1>3. /\ PlansOK' /\ DOMAIN plans' = DOMAIN plans \cup {l}
      /\ plans'[l] = [steps |-> <<>>, off |-> {}]
      /\ \A m \in DOMAIN plans \ {l} : plans'[m] = plans[m]
  BY <1>1, PlanParts, PlanHeld DEF LazyInv
<1>4. OwnersOK'
  BY <1>1, <1>2, <1>3, Kinds DEF LazyInv, OwnersOK, FrameTakes
<1> QED
  BY <1>2, <1>3, <1>4 DEF LazyInv

\* A method of LazyFrame: one step more over a clone of its frame.
LEMMA AddStepStep ==
  ASSUME LazyInv, NEW l \in DOMAIN plans, NEW m \in LazyVar, NEW step \in FrameStep,
         AddStep(l, m, step)
  PROVE  /\ LazyInv' /\ FrameTakes(m, FrameValue(l))
         /\ DOMAIN plans' = DOMAIN plans \cup {m}
         /\ plans'[m] = [plans[l] EXCEPT !.steps = Append(@, step)]
         /\ \A k \in DOMAIN plans \ {m} : plans'[k] = plans[k]
<1> DEFINE plan == [plans[l] EXCEPT !.steps = Append(@, step)]
<1>1. /\ Len(plans[l].steps) < MaxSteps
      /\ AssignFrame(m, frames[l], FrameValue(l))
      /\ plans' = Hold(plans, m, plan)
      /\ UNCHANGED <<groups, options, calls, panicked>>
  BY DEF AddStep
<1>2. l \in DOMAIN frames /\ plans[l] \in Plan /\ step \in Steps
  BY HeldPlan DEF Steps
<1>3. plan \in Plan
  BY <1>1, <1>2, PlanAppended
<1> HIDE DEF plan
<1>4. StoreInv' /\ FramesOK' /\ FrameTakes(m, FrameValue(l))
  BY <1>1, <1>2, Kinds, ClonedFrame
<1>5. /\ PlansOK' /\ DOMAIN plans' = DOMAIN plans \cup {m} /\ plans'[m] = plan
      /\ \A k \in DOMAIN plans \ {m} : plans'[k] = plans[k]
  BY <1>1, <1>3, PlanHeld DEF LazyInv
<1>6. OwnersOK'
  BY <1>1, <1>4, <1>5, Kinds DEF LazyInv, OwnersOK, FrameTakes
<1> QED
  BY <1>4, <1>5, <1>6 DEF LazyInv, plan

\* LazyDataFrame.deserialize: the plan without its switches, over columns of its
\* own.
LEMMA ReloadStep ==
  ASSUME LazyInv, Unused # {}, NEW l \in DOMAIN plans, NEW m \in LazyVar, Reload(l, m)
  PROVE  /\ LazyInv' /\ FrameTakes(m, FrameValue(l))
         /\ DOMAIN plans' = DOMAIN plans \cup {m} /\ plans'[m] = [plans[l] EXCEPT !.off = {}]
         /\ \A k \in DOMAIN plans \ {m} : plans'[k] = plans[k]
<1> DEFINE plan == [plans[l] EXCEPT !.off = {}]
           n == Len(frames[l])
<1>1. /\ AssignFrame(m, [k \in DOMAIN frames[l] |-> New(k)], FrameValue(l))
      /\ plans' = Hold(plans, m, plan)
      /\ UNCHANGED <<groups, options, calls, panicked>>
  BY DEF Reload
<1>2. l \in DOMAIN frames /\ plans[l] \in Plan /\ FrameValue(l) \in GoodFrames
  BY HeldPlan
<1>3. plan \in Plan
  BY <1>2, PlanParts
<1> HIDE DEF plan
<1>4. /\ n \in 1 .. MaxWidth /\ DOMAIN frames[l] = 1 .. n /\ Len(FrameValue(l)) = n
      /\ FrameValue(l) \in [1 .. n -> ColumnType]
  BY <1>2, FrameColumns DEF LazyInv
<1> HIDE DEF n
<1>5. Apart(Len(FrameValue(l)), [k \in DOMAIN frames[l] |-> New(k)], FrameValue(l))
  <2>1. Apart(n, [k \in 1 .. n |-> New(k)], FrameValue(l))
    BY <1>4, NewApart
  <2> QED
    BY <1>4, <2>1
<1>6. StoreInv' /\ FramesOK' /\ FrameTakes(m, FrameValue(l))
  BY <1>1, <1>2, <1>5, Kinds, GivenFrame DEF LazyInv
<1>7. /\ PlansOK' /\ DOMAIN plans' = DOMAIN plans \cup {m} /\ plans'[m] = plan
      /\ \A k \in DOMAIN plans \ {m} : plans'[k] = plans[k]
  BY <1>1, <1>3, PlanHeld DEF LazyInv
<1>8. OwnersOK'
  BY <1>1, <1>6, <1>7, Kinds DEF LazyInv, OwnersOK, FrameTakes
<1> QED
  BY <1>6, <1>7, <1>8 DEF LazyInv, plan

\* LazyFrame.groupBy: the plan over a clone of its frame.
LEMMA GroupByStep ==
  ASSUME LazyInv, NEW l \in DOMAIN plans, NEW g \in GroupVar, GroupBy(l, g)
  PROVE  /\ LazyInv' /\ FrameTakes(g, FrameValue(l))
         /\ DOMAIN groups' = DOMAIN groups \cup {g} /\ groups'[g] = plans[l]
         /\ \A h \in DOMAIN groups \ {g} : groups'[h] = groups[h]
<1>1. /\ AssignFrame(g, frames[l], FrameValue(l))
      /\ groups' = Hold(groups, g, plans[l])
      /\ UNCHANGED <<plans, options, calls, panicked>>
  BY DEF GroupBy
<1>2. l \in DOMAIN frames /\ plans[l] \in Plan
  BY HeldPlan
<1>3. StoreInv' /\ FramesOK' /\ FrameTakes(g, FrameValue(l))
  BY <1>1, <1>2, Kinds, ClonedFrame
<1>4. /\ DOMAIN groups' = DOMAIN groups \cup {g} /\ groups'[g] = plans[l]
      /\ \A h \in DOMAIN groups \ {g} : groups'[h] = groups[h]
  BY <1>1 DEF Hold, Override
<1>5. DOMAIN groups' \subseteq GroupVar /\ \A h \in DOMAIN groups' : groups'[h] \in Plan
  BY <1>2, <1>4 DEF LazyInv, PlansOK
<1>6. PlansOK'
  BY <1>1, <1>5 DEF LazyInv, PlansOK
<1>7. OwnersOK'
  BY <1>1, <1>3, <1>4, Kinds DEF LazyInv, OwnersOK, FrameTakes
<1> QED
  BY <1>3, <1>4, <1>6, <1>7 DEF LazyInv

\* LazyGroupBy.agg: the plan moves out of the group-by, with one step more.
LEMMA AggStep ==
  ASSUME LazyInv, NEW g \in DOMAIN groups, NEW m \in LazyVar, Agg(g, m)
  PROVE  /\ LazyInv' /\ g \in DOMAIN frames /\ FrameMoves(g, m, FrameValue(g))
         /\ DOMAIN plans' = DOMAIN plans \cup {m}
         /\ plans'[m] = [groups[g] EXCEPT !.steps = Append(@, GroupStep)]
         /\ \A k \in DOMAIN plans \ {m} : plans'[k] = plans[k]
<1> DEFINE plan == [groups[g] EXCEPT !.steps = Append(@, GroupStep)]
<1>1. /\ g \in DOMAIN frames /\ Len(groups[g].steps) < MaxSteps
      /\ TakeOver(g, m, frames[g], FrameValue(g))
      /\ plans' = Hold(plans, m, plan)
      /\ UNCHANGED <<groups, options, calls, panicked>>
  BY DEF Agg
<1>2. groups[g] \in Plan /\ GroupStep \in Steps /\ g \in GroupVar /\ g \in Holder
  BY Kinds DEF Steps, LazyInv, PlansOK
<1>3. plan \in Plan
  BY <1>1, <1>2, PlanAppended
<1> HIDE DEF plan
<1>4. StoreInv' /\ FramesOK' /\ FrameMoves(g, m, FrameValue(g))
  <2>1. /\ FrameValue(g) \in GoodFrames
        /\ Apart(Len(FrameValue(g)), frames[g], FrameValue(g))
    BY <1>1, HeldFrame, SharedApart DEF LazyInv
  <2> QED
    BY <1>1, <1>2, <2>1, Kinds, TakenOver DEF LazyInv
<1>5. /\ PlansOK' /\ DOMAIN plans' = DOMAIN plans \cup {m} /\ plans'[m] = plan
      /\ \A k \in DOMAIN plans \ {m} : plans'[k] = plans[k]
  BY <1>1, <1>3, PlanHeld DEF LazyInv
<1>6. OwnersOK'
  BY <1>1, <1>2, <1>4, <1>5, Kinds DEF LazyInv, OwnersOK, FrameMoves
<1> QED
  BY <1>1, <1>4, <1>5, <1>6 DEF LazyInv, plan

-----------------------------------------------------------------------------
(* Queries keep it.                                                        *)

\* What fetch leaves of a plan and of the options it was given: other switches.
LEMMA ToggledPlan ==
  ASSUME LazyInv, NEW l \in DOMAIN plans, NEW o \in OptionsVar \cup {NoOptions}
  PROVE  /\ Toggled(l, o) \in Plan /\ Toggled(l, o).steps = plans[l].steps
         /\ \E off \in SUBSET Switch : Toggled(l, o) = [plans[l] EXCEPT !.off = off]
<1>1. plans[l] \in Plan
  BY HeldPlan
<1>2. PICK off \in SUBSET Switch : Toggled(l, o) = [plans[l] EXCEPT !.off = off]
  <2>1. CASE o = NoOptions
    <3>1. /\ plans[l].off \in SUBSET Switch
          /\ plans[l] = [steps |-> plans[l].steps, off |-> plans[l].off]
      BY <1>1, PlanParts
    <3>2. [plans[l] EXCEPT !.off = plans[l].off] = plans[l]
      BY <3>1
    <3>3. Toggled(l, o) = plans[l]
      BY <2>1 DEF Toggled
    <3> QED
      BY <3>1, <3>2, <3>3
  <2>2. CASE o # NoOptions
    BY <2>2 DEF Toggled
  <2> QED
    BY <2>1, <2>2
<1>3. [plans[l] EXCEPT !.off = off].steps = plans[l].steps
  BY <1>1 DEF Plan
<1> QED
  BY <1>1, <1>2, <1>3, PlanParts

\* The options a fetch was given.
OptionsWritten(o) ==
  options' = IF o = NoOptions THEN options ELSE [options EXCEPT ![o] = Written(@)]

\* They stay options.
LEMMA WrittenOptions ==
  ASSUME LazyInv, NEW o \in OptionsVar \cup {NoOptions}, OptionsWritten(o)
  PROVE  options' \in [OptionsVar -> SUBSET OptionName]
<1>1. options \in [OptionsVar -> SUBSET OptionName]
  BY DEF LazyInv, PlansOK
<1>2. \A names \in SUBSET OptionName : Written(names) \in SUBSET OptionName
  BY DEF Written, OptionName
<1>3. CASE o = NoOptions
  BY <1>1, <1>3 DEF OptionsWritten
<1>4. CASE o # NoOptions
  <2>1. o \in OptionsVar /\ Written(options[o]) \in SUBSET OptionName
    BY <1>1, <1>2, <1>4
  <2>2. options' = [options EXCEPT ![o] = Written(options[o])]
    BY <1>4 DEF OptionsWritten
  <2> QED
    BY <1>1, <2>1, <2>2
<1> QED
  BY <1>3, <1>4

\* The plans after a fetch: that of l with other switches.
LEMMA TogglesPlans ==
  ASSUME LazyInv, NEW l \in DOMAIN plans, NEW o \in OptionsVar \cup {NoOptions},
         plans' = [plans EXCEPT ![l] = Toggled(l, o)]
  PROVE  /\ DOMAIN plans' = DOMAIN plans /\ plans'[l] = Toggled(l, o)
         /\ \A m \in DOMAIN plans \ {l} : plans'[m] = plans[m]
         /\ \A m \in DOMAIN plans' : plans'[m] \in Plan
<1>1. /\ DOMAIN plans' = DOMAIN plans /\ plans'[l] = Toggled(l, o)
      /\ \A m \in DOMAIN plans \ {l} : plans'[m] = plans[m]
  OBVIOUS
<1>2. Toggled(l, o) \in Plan /\ \A m \in DOMAIN plans : plans[m] \in Plan
  BY ToggledPlan DEF LazyInv, PlansOK
<1> QED
  BY <1>1, <1>2

\* The object a program passes as options.
LEMMA SetOptionsStep ==
  ASSUME LazyInv, NEW o \in OptionsVar, NEW names \in Options, SetOptions(o, names)
  PROVE  LazyInv' /\ UNCHANGED <<storeVars, plans, groups, calls>>
<1>1. /\ options' = [options EXCEPT ![o] = names]
      /\ UNCHANGED <<storeVars, plans, groups, calls, panicked>>
  BY DEF SetOptions
<1>2. names \in SUBSET OptionName
  BY LazyHolderAssumption
<1>3. PlansOK'
  BY <1>1, <1>2 DEF LazyInv, PlansOK
<1>4. UNCHANGED vars /\ UNCHANGED storeVars
  BY <1>1 DEF storeVars, vars
<1>5. StoreInv'
  BY <1>4, StoreStutter DEF LazyInv
<1>6. FramesOK' /\ OwnersOK'
  BY <1>1, <1>4 DEF LazyInv, FramesOK, OwnersOK, FrameValue, vars
<1> QED
  BY <1>1, <1>3, <1>5, <1>6 DEF LazyInv

\* A task is made over a clone of the plan's frame.
LEMMA EnqueueStep ==
  ASSUME LazyInv, NEW l \in DOMAIN plans, NEW c \in Call, NEW call \in CallType,
         Enqueue(l, c, call)
  PROVE  /\ StoreInv' /\ FramesOK' /\ FrameTakes(c, FrameValue(l))
         /\ c \notin DOMAIN calls
         /\ DOMAIN calls' = DOMAIN calls \cup {c} /\ calls'[c] = call
         /\ \A d \in DOMAIN calls : calls'[d] = calls[d]
         /\ DOMAIN calls' \subseteq Call /\ \A d \in DOMAIN calls' : calls'[d] \in CallType
<1>1. /\ c \notin DOMAIN calls
      /\ AssignFrame(c, frames[l], FrameValue(l))
      /\ calls' = Hold(calls, c, call)
  BY DEF Enqueue
<1>2. StoreInv' /\ FramesOK' /\ FrameTakes(c, FrameValue(l))
  BY <1>1, HeldPlan, Kinds, ClonedFrame
<1>3. /\ DOMAIN calls' = DOMAIN calls \cup {c} /\ calls'[c] = call
      /\ \A d \in DOMAIN calls : calls'[d] = calls[d]
  BY <1>1 DEF Hold, Override
<1>4. DOMAIN calls' \subseteq Call /\ \A d \in DOMAIN calls' : calls'[d] \in CallType
  BY <1>3 DEF LazyInv, PlansOK
<1> QED
  BY <1>1, <1>2, <1>3, <1>4

\* LazyFrame.collect: a task for all rows.
LEMMA CollectStep ==
  ASSUME LazyInv, NEW l \in DOMAIN plans, NEW c \in Call, Collect(l, c)
  PROVE  /\ LazyInv' /\ FrameTakes(c, FrameValue(l)) /\ c \notin DOMAIN calls
         /\ DOMAIN calls' = DOMAIN calls \cup {c} /\ calls'[c].status = "queued"
         /\ calls'[c].plan.steps = plans[l].steps /\ calls'[c].rows = AllRows
         /\ \A d \in DOMAIN calls : calls'[d] = calls[d]
         /\ UNCHANGED <<plans, groups>>
<1> DEFINE call == [query |-> "collect", plan |-> plans[l], rows |-> AllRows, status |-> "queued"]
<1>1. Enqueue(l, c, call) /\ UNCHANGED <<plans, groups, options, panicked>>
  BY DEF Collect
<1>2. call \in CallType
  BY HeldPlan DEF CallType, CallStatus
<1>3. /\ call.status = "queued" /\ call.plan = plans[l] /\ call.rows = AllRows
  OBVIOUS
<1> HIDE DEF call
<1>4. /\ StoreInv' /\ FramesOK' /\ FrameTakes(c, FrameValue(l))
      /\ c \notin DOMAIN calls
      /\ DOMAIN calls' = DOMAIN calls \cup {c} /\ calls'[c] = call
      /\ \A d \in DOMAIN calls : calls'[d] = calls[d]
      /\ DOMAIN calls' \subseteq Call /\ \A d \in DOMAIN calls' : calls'[d] \in CallType
  BY <1>1, <1>2, EnqueueStep
<1>5. PlansOK'
  BY <1>1, <1>4 DEF LazyInv, PlansOK
<1>6. OwnersOK'
  BY <1>1, <1>4, Kinds DEF LazyInv, OwnersOK, FrameTakes
<1> QED
  BY <1>1, <1>3, <1>4, <1>5, <1>6 DEF LazyInv

\* LazyFrame.fetch: a task for some rows; the LazyFrame gets other switches.
LEMMA FetchStep ==
  ASSUME LazyInv, NEW l \in DOMAIN plans, NEW o \in OptionsVar \cup {NoOptions},
         NEW rows \in 1 .. MaxRows, NEW c \in Call, Fetch(l, o, rows, c)
  PROVE  /\ LazyInv' /\ FrameTakes(c, FrameValue(l)) /\ c \notin DOMAIN calls
         /\ DOMAIN calls' = DOMAIN calls \cup {c} /\ calls'[c].status = "queued"
         /\ calls'[c].plan.steps = plans[l].steps /\ calls'[c].rows = rows
         /\ \A d \in DOMAIN calls : calls'[d] = calls[d]
         /\ plans' = [plans EXCEPT ![l] = Toggled(l, o)] /\ groups' = groups
<1> DEFINE call == [query |-> "fetch", plan |-> Toggled(l, o), rows |-> rows, status |-> "queued"]
<1>1. /\ Enqueue(l, c, call) /\ plans' = [plans EXCEPT ![l] = Toggled(l, o)]
      /\ OptionsWritten(o) /\ UNCHANGED <<groups, panicked>>
  BY DEF Fetch, OptionsWritten
<1>2. Toggled(l, o) \in Plan /\ Toggled(l, o).steps = plans[l].steps
  BY ToggledPlan
<1>3. call \in CallType
  BY <1>2 DEF CallType, CallStatus
<1>4. call.status = "queued" /\ call.plan.steps = plans[l].steps /\ call.rows = rows
  BY <1>2
<1> HIDE DEF call
<1>5. /\ StoreInv' /\ FramesOK' /\ FrameTakes(c, FrameValue(l))
      /\ c \notin DOMAIN calls
      /\ DOMAIN calls' = DOMAIN calls \cup {c} /\ calls'[c] = call
      /\ \A d \in DOMAIN calls : calls'[d] = calls[d]
      /\ DOMAIN calls' \subseteq Call /\ \A d \in DOMAIN calls' : calls'[d] \in CallType
  BY <1>1, <1>3, EnqueueStep
<1>6. DOMAIN plans' = DOMAIN plans /\ \A m \in DOMAIN plans' : plans'[m] \in Plan
  BY <1>1, TogglesPlans
<1>7. options' \in [OptionsVar -> SUBSET OptionName]
  BY <1>1, WrittenOptions
<1>8. PlansOK'
  BY <1>1, <1>5, <1>6, <1>7 DEF LazyInv, PlansOK
<1>9. OwnersOK'
  BY <1>1, <1>5, <1>6, Kinds DEF LazyInv, OwnersOK, FrameTakes
<1> QED
  BY <1>1, <1>4, <1>5, <1>8, <1>9 DEF LazyInv

\* The frame a query finds is given to a DataFrame variable.
LEMMA FoundFrame ==
  ASSUME LazyInv, Unused # {}, NEW l \in DOMAIN plans, NEW rows \in 1 .. MaxRows,
         NEW x \in FrameVar, NEW answer,
         answer = Outcome(FrameValue(l), plans[l].steps, rows), answer.ok,
         AssignFrame(x, ResultColumns(l, plans[l].steps, rows, answer.frame), answer.frame)
  PROVE  StoreInv' /\ FramesOK' /\ FrameTakes(x, answer.frame)
<1>1. l \in DOMAIN frames /\ plans[l].steps \in Seq(Steps)
  BY HeldPlan
<1>2. /\ answer.frame \in GoodFrames
      /\ Apart(Len(answer.frame), ResultColumns(l, plans[l].steps, rows, answer.frame),
               answer.frame)
  BY <1>1, ResultApart DEF LazyInv
<1> QED
  BY <1>2, GivenFrame DEF LazyInv

\* LazyFrame.collectSync that returns.
LEMMA CollectSyncStep ==
  ASSUME LazyInv, Unused # {}, NEW l \in DOMAIN plans, NEW x \in FrameVar, CollectSync(l, x)
  PROVE  LET answer == Outcome(FrameValue(l), plans[l].steps, AllRows)
         IN  LazyInv' /\ answer.ok /\ FrameTakes(x, answer.frame) /\ UNCHANGED lazyVars
<1> DEFINE answer == Outcome(FrameValue(l), plans[l].steps, AllRows)
<1>1. /\ answer.ok
      /\ AssignFrame(x, ResultColumns(l, plans[l].steps, AllRows, answer.frame), answer.frame)
      /\ UNCHANGED lazyVars
  BY DEF CollectSync
<1>2. AllRows \in 1 .. MaxRows
  BY HeldPlan
<1>3. StoreInv' /\ FramesOK' /\ FrameTakes(x, answer.frame)
  BY <1>1, <1>2, FoundFrame
<1> HIDE DEF answer
<1>4. DOMAIN frames' \cap Holder = DOMAIN frames \cap Holder
  BY <1>3, HolderAssumption DEF FrameTakes
<1>5. PlansOK' /\ OwnersOK'
  BY <1>1, <1>4, OwnersLeft
<1> QED
  BY <1>1, <1>3, <1>5 DEF LazyInv, answer

\* LazyFrame.fetchSync: the LazyFrame gets other switches, also when it throws.
LEMMA FetchSyncStep ==
  ASSUME LazyInv, Unused # {}, NEW l \in DOMAIN plans, NEW o \in OptionsVar \cup {NoOptions},
         NEW rows \in 1 .. MaxRows, NEW x \in FrameVar, FetchSync(l, o, rows, x)
  PROVE  LET answer == Outcome(FrameValue(l), plans[l].steps, rows)
         IN  /\ LazyInv'
             /\ IF answer.ok THEN FrameTakes(x, answer.frame) ELSE UNCHANGED storeVars
             /\ plans' = [plans EXCEPT ![l] = Toggled(l, o)] /\ UNCHANGED <<groups, calls>>
<1> DEFINE answer == Outcome(FrameValue(l), plans[l].steps, rows)
<1>1. /\ IF answer.ok
         THEN AssignFrame(x, ResultColumns(l, plans[l].steps, rows, answer.frame), answer.frame)
         ELSE UNCHANGED storeVars
      /\ plans' = [plans EXCEPT ![l] = Toggled(l, o)]
      /\ OptionsWritten(o) /\ UNCHANGED <<groups, calls, panicked>>
  BY DEF FetchSync, OptionsWritten
<1>2. /\ StoreInv' /\ FramesOK' /\ DOMAIN frames' \cap Holder = DOMAIN frames \cap Holder
      /\ IF answer.ok THEN FrameTakes(x, answer.frame) ELSE UNCHANGED storeVars
  <2>1. CASE answer.ok
    <3>1. StoreInv' /\ FramesOK' /\ FrameTakes(x, answer.frame)
      BY <1>1, <2>1, FoundFrame
    <3> HIDE DEF answer
    <3>2. DOMAIN frames' \cap Holder = DOMAIN frames \cap Holder
      BY <3>1, HolderAssumption DEF FrameTakes
    <3> QED
      BY <2>1, <3>1, <3>2
  <2>2. CASE ~answer.ok
    <3>1. UNCHANGED storeVars
      BY <1>1, <2>2
    <3>2. UNCHANGED vars
      BY <3>1 DEF storeVars, vars
    <3>3. StoreInv'
      BY <3>2, StoreStutter DEF LazyInv
    <3>4. FramesOK' /\ frames' = frames
      BY <3>2 DEF LazyInv, FramesOK, FrameValue, vars
    <3> HIDE DEF answer
    <3> QED
      BY <2>2, <3>1, <3>3, <3>4
  <2> QED
    BY <2>1, <2>2
<1> HIDE DEF answer
<1>3. DOMAIN plans' = DOMAIN plans /\ \A m \in DOMAIN plans' : plans'[m] \in Plan
  BY <1>1, TogglesPlans
<1>4. options' \in [OptionsVar -> SUBSET OptionName]
  BY <1>1, WrittenOptions
<1>5. PlansOK'
  BY <1>1, <1>3, <1>4 DEF LazyInv, PlansOK
<1>6. OwnersOK'
  <2>1. /\ DOMAIN frames' \cap LazyVar = DOMAIN frames \cap LazyVar
        /\ DOMAIN frames' \cap GroupVar = DOMAIN frames \cap GroupVar
        /\ DOMAIN frames' \cap Call = DOMAIN frames \cap Call
    BY <1>2, Kinds
  <2> QED
    BY <1>1, <1>3, <2>1 DEF LazyInv, OwnersOK
<1> QED
  BY <1>1, <1>2, <1>5, <1>6 DEF LazyInv, answer

-----------------------------------------------------------------------------
(* What worker threads and the event loop do keeps it.                     *)

\* What the step of a task leaves it.
CallLeft(c, status) ==
  /\ DOMAIN calls' = DOMAIN calls /\ calls'[c] = [calls[c] EXCEPT !.status = status]
  /\ \A d \in DOMAIN calls \ {c} : calls'[d] = calls[d]

\* What a task holds.
LEMMA HeldCall ==
  ASSUME LazyInv, NEW c \in DOMAIN calls
  PROVE  /\ c \in DOMAIN frames /\ c \in Call /\ c \in Holder /\ c \notin FrameVar
         /\ calls[c] \in CallType /\ calls[c].plan.steps \in Seq(Steps)
         /\ calls[c].rows \in 1 .. MaxRows
         /\ FrameValue(c) \in GoodFrames
<1>1. c \in DOMAIN frames /\ c \in Call /\ calls[c] \in CallType
  BY DEF LazyInv, PlansOK, OwnersOK
<1>2. calls[c].plan \in Plan /\ calls[c].rows \in 1 .. MaxRows
  BY <1>1 DEF CallType
<1> QED
  BY <1>1, <1>2, Kinds, PlanParts, HeldFrame DEF LazyInv

\* The status of a task changes.
LEMMA CallStays ==
  ASSUME LazyInv, NEW c \in DOMAIN calls, NEW status \in CallStatus,
         calls' = [calls EXCEPT ![c].status = status],
         UNCHANGED <<plans, groups, options, panicked>>
  PROVE  PlansOK' /\ CallLeft(c, status)
<1> DEFINE call == [calls[c] EXCEPT !.status = status]
<1>1. call \in CallType
  BY HeldCall DEF CallType
<1>2. CallLeft(c, status) /\ calls'[c] = call
  BY DEF CallLeft
<1> HIDE DEF call
<1>3. DOMAIN calls' \subseteq Call /\ \A d \in DOMAIN calls' : calls'[d] \in CallType
  BY <1>1, <1>2 DEF CallLeft, LazyInv, PlansOK
<1>4. PlansOK'
  BY <1>3 DEF LazyInv, PlansOK
<1> QED
  BY <1>2, <1>4

\* A worker thread computes a task.
LEMMA ComputeStep ==
  ASSUME LazyInv, Unused # {}, NEW c \in DOMAIN calls, Compute(c)
  PROVE  LET answer == Outcome(FrameValue(c), calls[c].plan.steps, calls[c].rows)
         IN  /\ LazyInv' /\ calls[c].status = "queued" /\ answer \in Answers
             /\ IF answer.ok
                THEN FrameMoves(c, c, answer.frame) /\ CallLeft(c, "computed")
                ELSE UNCHANGED storeVars /\ CallLeft(c, "failed")
             /\ UNCHANGED <<plans, groups>>
<1> DEFINE steps == calls[c].plan.steps
           rows == calls[c].rows
           answer == Outcome(FrameValue(c), steps, rows)
           columns == ResultColumns(c, steps, rows, answer.frame)
<1>1. /\ calls[c].status = "queued"
      /\ IF answer.ok
         THEN /\ calls' = [calls EXCEPT ![c].status = "computed"]
              /\ TakeOver(c, c, columns, answer.frame)
         ELSE /\ calls' = [calls EXCEPT ![c].status = "failed"]
              /\ UNCHANGED storeVars
      /\ UNCHANGED <<plans, groups, options, panicked>>
  BY DEF Compute
<1>2. /\ c \in DOMAIN frames /\ c \in Call /\ c \in Holder
      /\ steps \in Seq(Steps) /\ rows \in 1 .. MaxRows /\ FrameValue(c) \in GoodFrames
  BY HeldCall
<1>3. answer \in Answers
  BY <1>2, OutcomeAnswers
<1>4. CASE answer.ok
  <2>1. answer.frame \in GoodFrames /\ Apart(Len(answer.frame), columns, answer.frame)
    BY <1>2, <1>4, ResultApart DEF LazyInv
  <2>2. TakeOver(c, c, columns, answer.frame)
    BY <1>1, <1>4
  <2>3. StoreInv' /\ FramesOK' /\ FrameMoves(c, c, answer.frame)
    BY <1>2, <2>1, <2>2, TakenOver DEF LazyInv
  <2>4. PlansOK' /\ CallLeft(c, "computed")
    <3>1. calls' = [calls EXCEPT ![c].status = "computed"]
      BY <1>1, <1>4
    <3> QED
      BY <1>1, <3>1, CallStays DEF CallStatus
  <2> HIDE DEF answer, columns, steps, rows
  <2>5. DOMAIN frames' = DOMAIN frames /\ DOMAIN calls' = DOMAIN calls
    BY <1>2, <2>3, <2>4 DEF FrameMoves, CallLeft
  <2>6. OwnersOK'
    BY <1>1, <2>5 DEF LazyInv, OwnersOK
  <2>7. LazyInv'
    BY <2>3, <2>4, <2>6 DEF LazyInv
  <2> QED
    BY <1>1, <1>3, <1>4, <2>3, <2>4, <2>7 DEF answer, steps, rows
<1>5. CASE ~answer.ok
  <2>1. UNCHANGED storeVars /\ calls' = [calls EXCEPT ![c].status = "failed"]
    BY <1>1, <1>5
  <2>2. PlansOK' /\ CallLeft(c, "failed")
    BY <1>1, <2>1, CallStays DEF CallStatus
  <2> HIDE DEF answer, columns, steps, rows
  <2>3. UNCHANGED vars
    BY <2>1 DEF storeVars, vars
  <2>4. StoreInv'
    BY <2>3, StoreStutter DEF LazyInv
  <2>5. FramesOK' /\ OwnersOK'
    BY <1>1, <2>2, <2>3 DEF LazyInv, FramesOK, OwnersOK, FrameValue, vars, CallLeft
  <2>6. LazyInv'
    BY <2>2, <2>4, <2>5 DEF LazyInv
  <2> QED
    BY <1>1, <1>3, <1>5, <2>1, <2>2, <2>6 DEF answer, steps, rows
<1> QED
  BY <1>4, <1>5

\* What a promise that settles leaves of the tasks.
CallGone(c) ==
  /\ DOMAIN calls' = DOMAIN calls \ {c}
  /\ \A d \in DOMAIN calls \ {c} : calls'[d] = calls[d]

\* The others are as they were.
LEMMA CallLeaves ==
  ASSUME LazyInv, NEW c \in DOMAIN calls,
         calls' = Restrict(calls, DOMAIN calls \ {c}),
         UNCHANGED <<plans, groups, options, panicked>>
  PROVE  PlansOK' /\ CallGone(c)
<1>1. CallGone(c)
  BY DEF CallGone, Restrict
<1>2. DOMAIN calls' \subseteq Call /\ \A d \in DOMAIN calls' : calls'[d] \in CallType
  BY <1>1 DEF CallGone, LazyInv, PlansOK
<1>3. PlansOK'
  BY <1>2 DEF LazyInv, PlansOK
<1> QED
  BY <1>1, <1>3

\* The promise resolves to the frame of its task.
LEMMA ResolveStep ==
  ASSUME LazyInv, NEW c \in DOMAIN calls, NEW x \in FrameVar, Resolve(c, x)
  PROVE  /\ LazyInv' /\ calls[c].status = "computed" /\ FrameMoves(c, x, FrameValue(c))
         /\ CallGone(c) /\ UNCHANGED <<plans, groups>>
<1>1. /\ calls[c].status = "computed"
      /\ TakeOver(c, x, frames[c], FrameValue(c))
      /\ calls' = Restrict(calls, DOMAIN calls \ {c})
      /\ UNCHANGED <<plans, groups, options, panicked>>
  BY DEF Resolve
<1>2. c \in DOMAIN frames /\ c \in Call /\ c \in Holder /\ FrameValue(c) \in GoodFrames
  BY HeldCall
<1>3. Apart(Len(FrameValue(c)), frames[c], FrameValue(c))
  BY <1>2, HeldFrame, SharedApart DEF LazyInv
<1>4. StoreInv' /\ FramesOK' /\ FrameMoves(c, x, FrameValue(c))
  BY <1>1, <1>2, <1>3, TakenOver DEF LazyInv
<1>5. PlansOK' /\ CallGone(c)
  BY <1>1, CallLeaves
<1>6. OwnersOK'
  <2>1. /\ DOMAIN frames' \cap LazyVar = DOMAIN frames \cap LazyVar
        /\ DOMAIN frames' \cap GroupVar = DOMAIN frames \cap GroupVar
        /\ DOMAIN frames' \cap Call = (DOMAIN frames \cap Call) \ {c}
    BY <1>2, <1>4, Kinds DEF FrameMoves
  <2> QED
    BY <1>1, <1>5, <2>1 DEF LazyInv, OwnersOK, CallGone
<1> QED
  BY <1>1, <1>4, <1>5, <1>6 DEF LazyInv

\* The promise rejects; its task is dropped with the frame it ran on.
LEMMA RejectStep ==
  ASSUME LazyInv, NEW c \in DOMAIN calls, Reject(c)
  PROVE  /\ LazyInv' /\ calls[c].status = "failed" /\ FrameLeaves(c)
         /\ CallGone(c) /\ UNCHANGED <<plans, groups>>
<1>1. /\ calls[c].status = "failed"
      /\ Store(<<>>, series, Restrict(frames, DOMAIN frames \ {c}))
      /\ calls' = Restrict(calls, DOMAIN calls \ {c})
      /\ UNCHANGED <<hollow, unchecked, plans, groups, options, panicked>>
  BY DEF Reject
<1>2. StoreInv' /\ FramesOK' /\ FrameLeaves(c)
  BY <1>1, Dropped DEF LazyInv
<1>3. PlansOK' /\ CallGone(c)
  BY <1>1, CallLeaves
<1>4. OwnersOK'
  <2>1. /\ DOMAIN frames' \cap LazyVar = DOMAIN frames \cap LazyVar
        /\ DOMAIN frames' \cap GroupVar = DOMAIN frames \cap GroupVar
        /\ DOMAIN frames' \cap Call = (DOMAIN frames \cap Call) \ {c}
    BY <1>2, HeldCall, Kinds DEF FrameLeaves
  <2> QED
    BY <1>1, <1>3, <2>1 DEF LazyInv, OwnersOK, CallGone
<1> QED
  BY <1>1, <1>2, <1>3, <1>4 DEF LazyInv

\* A second agg ends the process; nothing else changes.
LEMMA AggAgainStep ==
  ASSUME LazyInv, NEW g \in DOMAIN groups, AggAgain(g)
  PROVE  LazyInv' /\ UNCHANGED <<storeVars, plans, groups, calls>>
<1>1. panicked' = TRUE /\ UNCHANGED <<storeVars, plans, groups, options, calls>>
  BY DEF AggAgain
<1>2. UNCHANGED vars
  BY <1>1 DEF storeVars, vars
<1>3. StoreInv'
  BY <1>2, StoreStutter DEF LazyInv
<1>4. FramesOK' /\ PlansOK' /\ OwnersOK'
  BY <1>1, <1>2 DEF LazyInv, FramesOK, PlansOK, OwnersOK, FrameValue, vars
<1> QED
  BY <1>1, <1>3, <1>4 DEF LazyInv

\* A step that changes nothing.
LEMMA LazyStutter == LazyInv /\ UNCHANGED allVars => LazyInv'
<1> SUFFICES ASSUME LazyInv, UNCHANGED allVars
             PROVE  LazyInv'
  OBVIOUS
<1>1. UNCHANGED vars /\ UNCHANGED lazyVars
  BY DEF allVars, storeVars, vars
<1>2. StoreInv'
  BY <1>1, StoreStutter DEF LazyInv
<1>3. FramesOK' /\ PlansOK' /\ OwnersOK'
  BY <1>1 DEF LazyInv, FramesOK, PlansOK, OwnersOK, FrameValue, vars, lazyVars
<1> QED
  BY <1>2, <1>3 DEF LazyInv

\* A program starts without any object.
LEMMA LazyStart == LazyInit => LazyInv
<1> SUFFICES ASSUME LazyInit
             PROVE  LazyInv
  OBVIOUS
<1>1. Init /\ plans = <<>> /\ groups = <<>> /\ calls = <<>> /\ panicked = FALSE
  BY DEF LazyInit
<1>2. options = [o \in OptionsVar |-> {}]
  BY DEF LazyInit
<1>3. StoreInv
  BY <1>1, StoreInit
<1>4. DOMAIN frames = {} /\ unchecked = {}
  BY <1>1 DEF Init
<1>5. FramesOK
  BY <1>4 DEF FramesOK
<1>6. DOMAIN plans = {} /\ DOMAIN groups = {} /\ DOMAIN calls = {}
  BY <1>1
<1>7. PlansOK
  BY <1>1, <1>2, <1>6 DEF PlansOK
<1>8. OwnersOK
  BY <1>4, <1>6 DEF OwnersOK
<1> QED
  BY <1>3, <1>5, <1>7, <1>8 DEF LazyInv

\* So does every call, every task and every promise.
LEMMA LazyNextInv == LazyInv /\ LazyNext => LazyInv'
<1> SUFFICES ASSUME LazyInv, LazyNext
             PROVE  LazyInv'
  OBVIOUS
<1>1. /\ Unused # {}
      /\ FrameCall \/ PlanCall \/ Query \/ (\E c \in DOMAIN calls : Compute(c)) \/ Settle
  BY DEF LazyNext
<1>2. CASE FrameCall
  <2>1. UNCHANGED lazyVars
    BY <1>2 DEF FrameCall
  <2>2. ASSUME NEW x \in FrameVar, NEW column \in Given, NewFrame(x, column) PROVE LazyInv'
    BY <1>1, <2>1, <2>2, NewFrameInv
  <2>3. ASSUME NEW x \in FrameVar, NEW f \in Usable, NEW other \in Usable, Extend(f, other, x)
        PROVE  LazyInv'
    BY <1>1, <2>1, <2>3, ExtendInv
  <2>4. ASSUME NEW f \in Usable, NEW names \in NonEmpty(GivenName),
               Len(names) = Len(frames[f]), SetColumns(f, names)
        PROVE  LazyInv'
    BY <1>1, <2>1, <2>4, SetColumnsInv
  <2> QED
    BY <1>2, <2>2, <2>3, <2>4 DEF FrameCall
<1>3. CASE PlanCall
  BY <1>1, <1>3, LazyStep, AddStepStep, ReloadStep, GroupByStep, AggStep, AggAgainStep
     DEF PlanCall
<1>4. CASE Query
  BY <1>1, <1>4, SetOptionsStep, CollectSyncStep, CollectStep, FetchStep, FetchSyncStep
     DEF Query
<1>5. CASE \E c \in DOMAIN calls : Compute(c)
  BY <1>1, <1>5, ComputeStep
<1>6. CASE Settle
  BY <1>6, RejectStep, ResolveStep DEF Settle
<1> QED
  BY <1>1, <1>2, <1>3, <1>4, <1>5, <1>6

\* Whatever is called, computed and settled in whatever order, every frame that
\* a variable, a plan or a pending query owns is well-formed and live, for any
\* variables, addresses, options and bounds.
THEOREM LazyInvariant == LazySpec => []LazyInv
<1>1. LazyInv /\ [LazyNext]_allVars => LazyInv'
  BY LazyNextInv, LazyStutter
<1> QED
  BY <1>1, LazyStart, PTL DEF LazySpec

\* A LazyFrame always owns the frame its plan is over, a pending query the frame
\* it runs on or has found, and whatever owns a frame as a group-by has a plan too.
THEOREM LazyTyped == LazySpec => []LazyTypeOK
BY LazyTypes, LazyInvariant, PTL

-----------------------------------------------------------------------------
(* LazyValues.  Its operators are those of this module,                    *)

\* those of queries,
LEMMA SameQueries ==
  /\ Lazies!FrameStep = FrameStep /\ Lazies!GroupStep = GroupStep /\ Lazies!Switch = Switch
  /\ Lazies!Failure = Failure
  /\ \A frame : Lazies!Done(frame) = Done(frame)
  /\ \A frame, steps, rows : Lazies!Outcome(frame, steps, rows) = Outcome(frame, steps, rows)
BY DEF Lazies!FrameStep, FrameStep, Lazies!GroupStep, GroupStep, Lazies!Switch, Switch,
   Lazies!Failure, Failure, Lazies!Done, Done, Lazies!Outcome, Outcome, Lazies!RunStep, RunStep,
   Lazies!FirstRows, FirstRows, Lazies!WithRows, WithRows, Lazies!Reverse, Reverse,
   Lazies!Keys, Keys, Lazies!Distinct, Distinct, Lazies!ToSet, ToSet

\* those that give a variable a value,
LEMMA SameHolding ==
  /\ \A f, S : Lazies!Restrict(f, S) = Restrict(f, S)
  /\ \A new, old : Lazies!Override(new, old) = Override(new, old)
BY DEF Lazies!Restrict, Restrict, Lazies!Override, Override

\* and the calls on DataFrames that it takes from ValueStore.
LEMMA SameFrameCalls ==
  /\ Values!FrameCallInPlace => Lazies!FrameCallInPlace
  /\ Values!Extend => Lazies!Extend
<1>1. Values!FrameCallInPlace => Lazies!FrameCallInPlace
  BY Zenon
  DEF Values!FrameCallInPlace, Lazies!FrameCallInPlace, Values!FrameGiven, Lazies!FrameGiven,
      Values!Fits, Lazies!Fits, Values!Has, Lazies!Has, Values!Height, Lazies!Height,
      Values!InsertAt, Lazies!InsertAt, Values!Renamed, Lazies!Renamed,
      Values!WellFormed, Lazies!WellFormed, Values!IsInjective, Lazies!IsInjective,
      Values!NamesOf, Lazies!NamesOf, Values!WithNames, Lazies!WithNames,
      Values!Holding, Lazies!Holding, Values!Override, Lazies!Override
<1>2. Values!Extend => Lazies!Extend
  BY Zenon
  DEF Values!Extend, Lazies!Extend, Values!Stackable, Lazies!Stackable,
      Values!Stacked, Lazies!Stacked, Values!ExtendedUpTo, Lazies!ExtendedUpTo,
      Values!AgreeingColumns, Lazies!AgreeingColumns, Values!Appended, Lazies!Appended,
      Values!NamesOf, Lazies!NamesOf, Values!Forgetting, Lazies!Forgetting,
      Values!Restrict, Lazies!Restrict, Values!Holding, Lazies!Holding,
      Values!Override, Lazies!Override
<1> QED
  BY <1>1, <1>2

-----------------------------------------------------------------------------
(* What LazyValues is given: beside the Series and the DataFrames, the     *)
(* plans, the group-bys and the outcomes of the pending queries.           *)

PlanSeen(l) == [frame |-> FrameValue(l), plan |-> plans[l]]
PlansSeen   == [l \in DOMAIN plans |-> PlanSeen(l)]

GroupSeen(g) == [frame |-> FrameValue(g), plan |-> groups[g]]
GroupsSeen   == [g \in DOMAIN groups \cap DOMAIN frames |-> GroupSeen(g)]

OutcomeSeen(c) ==
  CASE calls[c].status = "queued"   -> Outcome(FrameValue(c), calls[c].plan.steps, calls[c].rows)
    [] calls[c].status = "computed" -> Done(FrameValue(c))
    [] calls[c].status = "failed"   -> Failure

\* The outcomes of the pending queries, one by one, before and after a step.
LEMMA OutcomesSeen ==
  /\ Outcomes = [c \in DOMAIN calls |-> OutcomeSeen(c)]
  /\ Outcomes' = [c \in DOMAIN calls' |-> OutcomeSeen(c)']
BY DEF Outcomes, OutcomeSeen

\* Only frames that are held by others change: LazyFrames keep their values.
LEMMA PlansKept ==
  ASSUME plans' = plans, \A l \in DOMAIN plans : FrameValue(l)' = FrameValue(l)
  PROVE  PlansSeen' = PlansSeen
BY DEF PlansSeen, PlanSeen

\* Group-bys keep theirs, and which of them are still to be used.
LEMMA GroupsKept ==
  ASSUME LazyInv, groups' = groups, DOMAIN frames' \cap GroupVar = DOMAIN frames \cap GroupVar,
         \A g \in DOMAIN frames \cap GroupVar : FrameValue(g)' = FrameValue(g)
  PROVE  GroupsSeen' = GroupsSeen
<1>1. DOMAIN groups \subseteq GroupVar
  BY DEF LazyInv, PlansOK
<1>2. DOMAIN groups \cap DOMAIN frames' = DOMAIN groups \cap DOMAIN frames
  BY <1>1
<1>3. \A g \in DOMAIN groups \cap DOMAIN frames : GroupSeen(g)' = GroupSeen(g)
  BY <1>1 DEF GroupSeen
<1> QED
  BY <1>2, <1>3 DEF GroupsSeen

\* A pending query keeps its outcome.
LEMMA OutcomeKept ==
  ASSUME NEW c, calls'[c] = calls[c], FrameValue(c)' = FrameValue(c)
  PROVE  OutcomeSeen(c)' = OutcomeSeen(c)
BY DEF OutcomeSeen

\* And so do all, if nothing happens to any.
LEMMA OutcomesKept ==
  ASSUME calls' = calls, \A c \in DOMAIN calls : FrameValue(c)' = FrameValue(c)
  PROVE  Outcomes' = Outcomes
<1>1. \A c \in DOMAIN calls : OutcomeSeen(c)' = OutcomeSeen(c)
  BY OutcomeKept
<1> QED
  BY <1>1, OutcomesSeen

\* A call that gives a DataFrame a value, or takes it one, leaves the holders
\* theirs.
LEMMA HoldersKept ==
  ASSUME LazyInv, UNCHANGED <<plans, groups, calls>>,
         DOMAIN frames' \cap Holder = DOMAIN frames \cap Holder,
         \A h \in DOMAIN frames \cap Holder : FrameValue(h)' = FrameValue(h)
  PROVE  PlansSeen' = PlansSeen /\ GroupsSeen' = GroupsSeen /\ Outcomes' = Outcomes
<1>1. /\ DOMAIN plans = DOMAIN frames \cap LazyVar /\ DOMAIN calls = DOMAIN frames \cap Call
      /\ DOMAIN frames' \cap GroupVar = DOMAIN frames \cap GroupVar
  BY Kinds DEF LazyInv, OwnersOK
<1> QED
  BY <1>1, Kinds, PlansKept, GroupsKept, OutcomesKept

\* And what a holder takes, the program's Series and DataFrames do not see.
LEMMA StoreKept ==
  ASSUME DOMAIN series' = DOMAIN series, DOMAIN frames' \cap FrameVar = DOMAIN frames \cap FrameVar,
         \A s \in DOMAIN series : SeriesValue(s)' = SeriesValue(s),
         \A f \in DOMAIN frames \cap FrameVar : FrameValue(f)' = FrameValue(f)
  PROVE  SeriesValues' = SeriesValues /\ FramesSeen' = FramesSeen
BY DEF SeriesValues, FramesSeen

\* A DataFrame takes a value: what LazyValues sees of it.
LEMMA DataFrameTakes ==
  ASSUME LazyInv, NEW x \in FrameVar, NEW value, FrameTakes(x, value),
         UNCHANGED <<plans, groups, calls>>
  PROVE  /\ SeriesValues' = SeriesValues
         /\ x \in DOMAIN FramesSeen' /\ FramesSeen'[x] = value
         /\ FramesSeen' = Lazies!Holding(FramesSeen, x, value)
         /\ PlansSeen' = PlansSeen /\ GroupsSeen' = GroupsSeen /\ Outcomes' = Outcomes
<1>1. /\ SeriesValues' = SeriesValues
      /\ x \in DOMAIN FramesSeen' /\ FramesSeen'[x] = value
      /\ FramesSeen' = Override([v \in {x} |-> value], FramesSeen)
  BY FrameSeen
<1>2. FramesSeen' = Lazies!Holding(FramesSeen, x, value)
  BY <1>1, SameHolding, Zenon DEF Lazies!Holding
<1>3. x \notin Holder
  BY HolderAssumption
<1>4. /\ DOMAIN frames' \cap Holder = DOMAIN frames \cap Holder
      /\ \A h \in DOMAIN frames \cap Holder : FrameValue(h)' = FrameValue(h)
  BY <1>3 DEF FrameTakes
<1> QED
  BY <1>1, <1>2, <1>4, HoldersKept

\* Calls on DataFrames alone are those LazyValues allows.
LEMMA EagerSeen ==
  ASSUME PlansSeen' = PlansSeen, GroupsSeen' = GroupsSeen, Outcomes' = Outcomes,
         \/ \E x \in FrameVar : Lazies!FrameGiven(x, LAMBDA frame : Len(frame) = 1)
         \/ Lazies!FrameCallInPlace
         \/ Lazies!Extend
  PROVE  Lazies!LazyNext
<1>1. Lazies!EagerCall
  BY Zenon DEF Lazies!EagerCall, PlansSeen, PlanSeen, GroupsSeen, GroupSeen
<1> QED
  BY <1>1, Zenon DEF Lazies!LazyNext

\* The constructor of DataFrame.
LEMMA NewFrameSeen ==
  ASSUME LazyInv, Unused # {}, NEW x \in FrameVar, NEW column \in Given,
         NewFrame(x, column), UNCHANGED lazyVars
  PROVE  Lazies!LazyNext
<1>1. FrameTakes(x, <<column>>) /\ UNCHANGED <<plans, groups, calls>>
  BY NewFrameInv DEF lazyVars
<1>2. /\ SeriesValues' = SeriesValues
      /\ x \in DOMAIN FramesSeen' /\ FramesSeen'[x] = <<column>>
      /\ FramesSeen' = Lazies!Holding(FramesSeen, x, <<column>>)
      /\ PlansSeen' = PlansSeen /\ GroupsSeen' = GroupsSeen /\ Outcomes' = Outcomes
  BY <1>1, DataFrameTakes
<1>3. Len(FramesSeen'[x]) = 1 /\ FramesSeen' = Lazies!Holding(FramesSeen, x, FramesSeen'[x])
  <2>1. Len(<<column>>) = 1
    OBVIOUS
  <2> QED
    BY <1>2, <2>1, Zenon
<1>4. Lazies!FrameGiven(x, LAMBDA frame : Len(frame) = 1)
  BY <1>2, <1>3, Zenon DEF Lazies!FrameGiven, SeriesValues, FramesSeen
<1> QED
  BY <1>2, <1>4, EagerSeen, Zenon

\* The setter of DataFrame.columns.
LEMMA SetColumnsSeen ==
  ASSUME LazyInv, Unused # {}, NEW f \in Usable, NEW names \in NonEmpty(GivenName),
         Len(names) = Len(frames[f]), SetColumns(f, names), UNCHANGED lazyVars
  PROVE  Lazies!LazyNext
<1> DEFINE columns == WithNames(FrameValue(f), names)
<1>1. /\ FrameTakes(f, columns) /\ WellFormed(columns)
      /\ Len(columns) = Len(FrameValue(f)) /\ NamesOf(columns) = names
  BY SetColumnsInv
<1>2. IsNamed(f, columns)
  BY <1>1 DEF IsNamed
<1>3. f \in FrameVar /\ UNCHANGED <<plans, groups, calls>>
  BY DEF Usable, lazyVars
<1> HIDE DEF columns
<1>4. Lazies!FrameCallInPlace
  BY <1>1, <1>2, FrameCallInPlaceSeen, SameFrameCalls
<1>5. PlansSeen' = PlansSeen /\ GroupsSeen' = GroupsSeen /\ Outcomes' = Outcomes
  BY <1>1, <1>3, DataFrameTakes
<1> QED
  BY <1>4, <1>5, EagerSeen, Zenon

\* DataFrame.extend.
LEMMA ExtendsSeen ==
  ASSUME LazyInv, Unused # {}, NEW f \in Usable, NEW other \in Usable, NEW x \in FrameVar,
         Extend(f, other, x), UNCHANGED lazyVars
  PROVE  Lazies!LazyNext
<1>1. /\ f # other /\ Stackable(FrameValue(f), FrameValue(other))
      /\ ExtendTakes(f, Stacked(FrameValue(f), FrameValue(other)), x)
  BY ExtendInv
<1>2. Lazies!Extend
  BY <1>1, ExtendSeen, SameFrameCalls
<1>3. UNCHANGED <<plans, groups, calls>> /\ f \notin Holder /\ x \notin Holder
  BY HolderAssumption DEF lazyVars, Usable
<1>4. /\ DOMAIN frames' \cap Holder = DOMAIN frames \cap Holder
      /\ \A h \in DOMAIN frames \cap Holder : FrameValue(h)' = FrameValue(h)
  BY <1>1, <1>3 DEF ExtendTakes
<1>5. PlansSeen' = PlansSeen /\ GroupsSeen' = GroupsSeen /\ Outcomes' = Outcomes
  BY <1>3, <1>4, HoldersKept
<1> QED
  BY <1>2, <1>5, EagerSeen, Zenon

-----------------------------------------------------------------------------
(* Calls on LazyFrames, as the program sees them.                          *)

\* A LazyFrame takes a frame that no DataFrame and no query loses.
HolderTakes(m, frame) ==
  /\ DOMAIN series' = DOMAIN series
  /\ \A s \in DOMAIN series : SeriesValue(s)' = SeriesValue(s)
  /\ DOMAIN frames' \cap FrameVar = DOMAIN frames \cap FrameVar
  /\ FrameValue(m)' = frame
  /\ \A h \in DOMAIN frames \ (GroupVar \cup {m}) : FrameValue(h)' = FrameValue(h)

\* The program sees its plan, and nothing else changed.
LEMMA PlanTaken ==
  ASSUME LazyInv, NEW m \in LazyVar, NEW frame, NEW plan, HolderTakes(m, frame),
         DOMAIN plans' = DOMAIN plans \cup {m}, plans'[m] = plan,
         \A k \in DOMAIN plans \ {m} : plans'[k] = plans[k], calls' = calls
  PROVE  /\ SeriesValues' = SeriesValues /\ FramesSeen' = FramesSeen /\ Outcomes' = Outcomes
         /\ PlansSeen' = Lazies!Holding(PlansSeen, m, [frame |-> frame, plan |-> plan])
<1>1. m \notin FrameVar /\ m \notin Call
  BY Kinds
<1>2. /\ \A f \in DOMAIN frames \cap FrameVar : FrameValue(f)' = FrameValue(f)
      /\ \A c \in DOMAIN calls : FrameValue(c)' = FrameValue(c)
      /\ \A k \in DOMAIN plans \ {m} : FrameValue(k)' = FrameValue(k)
  BY <1>1, Kinds DEF HolderTakes, LazyInv, OwnersOK
<1>3. SeriesValues' = SeriesValues /\ FramesSeen' = FramesSeen
  BY <1>2, StoreKept DEF HolderTakes
<1>4. Outcomes' = Outcomes
  BY <1>2, OutcomesKept
<1>5. PlansSeen' = Override([v \in {m} |-> [frame |-> frame, plan |-> plan]], PlansSeen)
  <2>1. PlansSeen' = [k \in DOMAIN plans \cup {m} |-> PlanSeen(k)']
    BY DEF PlansSeen
  <2>2. PlanSeen(m)' = [frame |-> frame, plan |-> plan]
    BY DEF PlanSeen, HolderTakes
  <2>3. \A k \in DOMAIN plans \ {m} : PlanSeen(k)' = PlanSeen(k)
    BY <1>2 DEF PlanSeen
  <2>4. PlansSeen = [k \in DOMAIN plans |-> PlanSeen(k)]
    BY DEF PlansSeen
  <2> QED
    BY <2>1, <2>2, <2>3, <2>4 DEF Override
<1>6. PlansSeen' = Lazies!Holding(PlansSeen, m, [frame |-> frame, plan |-> plan])
  BY <1>5, SameHolding, Zenon DEF Lazies!Holding
<1> QED
  BY <1>3, <1>4, <1>6

\* A LazyFrame that takes a clone.
LEMMA CloneTaken ==
  ASSUME NEW m \in LazyVar, NEW frame, FrameTakes(m, frame)
  PROVE  /\ HolderTakes(m, frame)
         /\ DOMAIN frames' \cap GroupVar = DOMAIN frames \cap GroupVar
         /\ \A g \in DOMAIN frames \cap GroupVar : FrameValue(g)' = FrameValue(g)
<1>1. m \notin FrameVar /\ m \notin GroupVar
  BY Kinds
<1> QED
  BY <1>1 DEF FrameTakes, HolderTakes

\* What LazyValues is given of the plan of a LazyFrame.
LEMMA SeenPlan ==
  ASSUME NEW l \in DOMAIN plans
  PROVE  /\ l \in DOMAIN PlansSeen
         /\ PlansSeen[l].frame = FrameValue(l) /\ PlansSeen[l].plan = plans[l]
BY DEF PlansSeen, PlanSeen

\* DataFrame.lazy.
LEMMA LazySeen ==
  ASSUME LazyInv, NEW f \in Usable, NEW l \in LazyVar, Lazy(f, l)
  PROVE  Lazies!LazyNext
<1>1. /\ FrameTakes(l, FrameValue(f)) /\ groups' = groups /\ calls' = calls
      /\ DOMAIN plans' = DOMAIN plans \cup {l} /\ plans'[l] = [steps |-> <<>>, off |-> {}]
      /\ \A m \in DOMAIN plans \ {l} : plans'[m] = plans[m]
  BY LazyStep DEF Lazy
<1>2. GroupsSeen' = GroupsSeen
  BY <1>1, CloneTaken, GroupsKept
<1>3. /\ SeriesValues' = SeriesValues /\ FramesSeen' = FramesSeen /\ Outcomes' = Outcomes
      /\ PlansSeen' = Lazies!Holding(PlansSeen, l, [frame |-> FrameValue(f),
                                                   plan |-> [steps |-> <<>>, off |-> {}]])
  BY <1>1, CloneTaken, PlanTaken
<1>4. f \in DOMAIN FramesSeen /\ FramesSeen[f] = FrameValue(f)
  BY Seen
<1>5. PlansSeen' = Lazies!Holding(PlansSeen, l, [frame |-> FramesSeen[f],
                                                plan |-> [steps |-> <<>>, off |-> {}]])
  BY <1>3, <1>4, Zenon
<1>6. Lazies!PlanCall
  BY <1>2, <1>3, <1>4, <1>5, Zenon
  DEF Lazies!PlanCall, Lazies!SetPlan, Lazies!values, SeriesValues, FramesSeen,
      PlansSeen, PlanSeen, GroupsSeen, GroupSeen
<1> QED
  BY <1>6, Zenon DEF Lazies!LazyNext

\* The methods of LazyFrame that add a step.
LEMMA AddStepSeen ==
  ASSUME LazyInv, NEW l \in DOMAIN plans, NEW m \in LazyVar, NEW step \in FrameStep,
         AddStep(l, m, step)
  PROVE  Lazies!LazyNext
<1>0. PICK plan : plan = [plans[l] EXCEPT !.steps = Append(@, step)]
  OBVIOUS
<1>1. /\ FrameTakes(m, FrameValue(l)) /\ groups' = groups /\ calls' = calls
      /\ DOMAIN plans' = DOMAIN plans \cup {m} /\ plans'[m] = plan
      /\ \A k \in DOMAIN plans \ {m} : plans'[k] = plans[k]
  BY <1>0, AddStepStep DEF AddStep
<1>2. GroupsSeen' = GroupsSeen
  BY <1>1, CloneTaken, GroupsKept
<1>3. /\ SeriesValues' = SeriesValues /\ FramesSeen' = FramesSeen /\ Outcomes' = Outcomes
      /\ PlansSeen' = Lazies!Holding(PlansSeen, m, [frame |-> FrameValue(l), plan |-> plan])
  BY <1>1, CloneTaken, PlanTaken
<1>4. l \in DOMAIN PlansSeen /\ step \in Lazies!FrameStep
  BY SeenPlan, SameQueries
<1>5. PlansSeen' = Lazies!Holding(PlansSeen, m, [frame |-> PlansSeen[l].frame,
             plan |-> [PlansSeen[l].plan EXCEPT !.steps = Append(@, step)]])
  <2>1. plan = [PlansSeen[l].plan EXCEPT !.steps = Append(@, step)]
    BY <1>0, SeenPlan
  <2>2. FrameValue(l) = PlansSeen[l].frame
    BY SeenPlan
  <2> QED
    BY <1>3, <2>1, <2>2
<1>6. Lazies!PlanCall
  BY <1>2, <1>3, <1>4, <1>5, Zenon
  DEF Lazies!PlanCall, Lazies!SetPlan, Lazies!values, SeriesValues, FramesSeen,
      PlansSeen, PlanSeen, GroupsSeen, GroupSeen
<1> QED
  BY <1>6, Zenon DEF Lazies!LazyNext

\* A plan that is written out and read again.
LEMMA ReloadSeen ==
  ASSUME LazyInv, Unused # {}, NEW l \in DOMAIN plans, NEW m \in LazyVar, Reload(l, m)
  PROVE  Lazies!LazyNext
<1>0. PICK plan : plan = [plans[l] EXCEPT !.off = {}]
  OBVIOUS
<1>1. /\ FrameTakes(m, FrameValue(l)) /\ groups' = groups /\ calls' = calls
      /\ DOMAIN plans' = DOMAIN plans \cup {m} /\ plans'[m] = plan
      /\ \A k \in DOMAIN plans \ {m} : plans'[k] = plans[k]
  BY <1>0, ReloadStep DEF Reload
<1>2. GroupsSeen' = GroupsSeen
  BY <1>1, CloneTaken, GroupsKept
<1>3. /\ SeriesValues' = SeriesValues /\ FramesSeen' = FramesSeen /\ Outcomes' = Outcomes
      /\ PlansSeen' = Lazies!Holding(PlansSeen, m, [frame |-> FrameValue(l), plan |-> plan])
  BY <1>1, CloneTaken, PlanTaken
<1>4. l \in DOMAIN PlansSeen
  BY SeenPlan
<1>5. PlansSeen' = Lazies!Holding(PlansSeen, m, [frame |-> PlansSeen[l].frame,
             plan |-> [PlansSeen[l].plan EXCEPT !.off = {}]])
  <2>1. plan = [PlansSeen[l].plan EXCEPT !.off = {}]
    BY <1>0, SeenPlan
  <2>2. FrameValue(l) = PlansSeen[l].frame
    BY SeenPlan
  <2> QED
    BY <1>3, <2>1, <2>2
<1>6. Lazies!PlanCall
  BY <1>2, <1>3, <1>4, <1>5, Zenon
  DEF Lazies!PlanCall, Lazies!SetPlan, Lazies!values, SeriesValues, FramesSeen,
      PlansSeen, PlanSeen, GroupsSeen, GroupSeen
<1> QED
  BY <1>6, Zenon DEF Lazies!LazyNext

\* LazyGroupBy.agg: the group-by is used up.
LEMMA AggSeen ==
  ASSUME LazyInv, NEW g \in DOMAIN groups, NEW m \in LazyVar, Agg(g, m)
  PROVE  Lazies!LazyNext
<1>0. PICK plan : plan = [groups[g] EXCEPT !.steps = Append(@, GroupStep)]
  OBVIOUS
<1>1. /\ g \in DOMAIN frames /\ FrameMoves(g, m, FrameValue(g))
      /\ groups' = groups /\ calls' = calls
      /\ DOMAIN plans' = DOMAIN plans \cup {m} /\ plans'[m] = plan
      /\ \A k \in DOMAIN plans \ {m} : plans'[k] = plans[k]
  BY <1>0, AggStep DEF Agg
<1>2. g \in GroupVar /\ g \notin FrameVar /\ m \notin FrameVar /\ m \notin GroupVar
  BY Kinds DEF LazyInv, PlansOK
<1>3. HolderTakes(m, FrameValue(g))
  BY <1>1, <1>2 DEF FrameMoves, HolderTakes
<1>4. /\ SeriesValues' = SeriesValues /\ FramesSeen' = FramesSeen /\ Outcomes' = Outcomes
      /\ PlansSeen' = Lazies!Holding(PlansSeen, m, [frame |-> FrameValue(g), plan |-> plan])
  BY <1>1, <1>3, PlanTaken
<1>5. /\ g \in DOMAIN GroupsSeen
      /\ GroupsSeen[g].frame = FrameValue(g) /\ GroupsSeen[g].plan = groups[g]
  BY <1>1 DEF GroupsSeen, GroupSeen
<1>6. PlansSeen' = Lazies!Holding(PlansSeen, m, [frame |-> GroupsSeen[g].frame,
             plan |-> [GroupsSeen[g].plan EXCEPT !.steps = Append(@, Lazies!GroupStep)]])
  <2>1. plan = [GroupsSeen[g].plan EXCEPT !.steps = Append(@, Lazies!GroupStep)]
    BY <1>0, <1>5, SameQueries
  <2>2. FrameValue(g) = GroupsSeen[g].frame
    BY <1>5
  <2> QED
    BY <1>4, <2>1, <2>2
<1>7. GroupsSeen' = Restrict(GroupsSeen, DOMAIN GroupsSeen \ {g})
  <2>1. GroupsSeen' = [h \in DOMAIN groups \cap DOMAIN frames' |-> GroupSeen(h)']
    BY <1>1 DEF GroupsSeen
  <2>2. DOMAIN groups \cap DOMAIN frames' = (DOMAIN groups \cap DOMAIN frames) \ {g}
    BY <1>1, <1>2 DEF FrameMoves, LazyInv, PlansOK
  <2>3. \A h \in (DOMAIN groups \cap DOMAIN frames) \ {g} : GroupSeen(h)' = GroupSeen(h)
    BY <1>1, <1>2 DEF FrameMoves, LazyInv, PlansOK, GroupSeen
  <2> QED
    BY <2>1, <2>2, <2>3 DEF GroupsSeen, Restrict
<1>8. GroupsSeen' = Lazies!Forgetting(GroupsSeen, g)
  BY <1>7, SameHolding, Zenon DEF Lazies!Forgetting
<1>9. Lazies!PlanCall
  BY <1>4, <1>5, <1>6, <1>8, Zenon
  DEF Lazies!PlanCall, Lazies!SetPlan, Lazies!values, SeriesValues, FramesSeen,
      PlansSeen, PlanSeen, GroupsSeen, GroupSeen
<1> QED
  BY <1>9, Zenon DEF Lazies!LazyNext

\* LazyFrame.groupBy.
LEMMA GroupBySeen ==
  ASSUME LazyInv, NEW l \in DOMAIN plans, NEW g \in GroupVar, GroupBy(l, g)
  PROVE  Lazies!LazyNext
<1>1. /\ FrameTakes(g, FrameValue(l)) /\ plans' = plans /\ calls' = calls
      /\ DOMAIN groups' = DOMAIN groups \cup {g} /\ groups'[g] = plans[l]
      /\ \A h \in DOMAIN groups \ {g} : groups'[h] = groups[h]
  BY GroupByStep DEF GroupBy
<1>2. g \notin FrameVar /\ g \notin LazyVar /\ g \notin Call
  BY Kinds
<1>3. /\ SeriesValues' = SeriesValues /\ FramesSeen' = FramesSeen
      /\ PlansSeen' = PlansSeen /\ Outcomes' = Outcomes
  <2>1. /\ \A f \in DOMAIN frames \cap FrameVar : FrameValue(f)' = FrameValue(f)
        /\ \A c \in DOMAIN calls : FrameValue(c)' = FrameValue(c)
        /\ \A k \in DOMAIN plans : FrameValue(k)' = FrameValue(k)
        /\ DOMAIN frames' \cap FrameVar = DOMAIN frames \cap FrameVar
    BY <1>1, <1>2 DEF FrameTakes, LazyInv, OwnersOK
  <2> QED
    BY <1>1, <2>1, StoreKept, PlansKept, OutcomesKept DEF FrameTakes
<1>4. l \in DOMAIN PlansSeen /\ PlansSeen[l] = [frame |-> FrameValue(l), plan |-> plans[l]]
  BY DEF PlansSeen, PlanSeen
<1>5. GroupsSeen' = Override([v \in {g} |-> PlansSeen[l]], GroupsSeen)
  <2>1. GroupsSeen' = [h \in DOMAIN groups' \cap DOMAIN frames' |-> GroupSeen(h)']
    BY DEF GroupsSeen
  <2>2. DOMAIN groups' \cap DOMAIN frames' = {g} \cup (DOMAIN groups \cap DOMAIN frames)
    BY <1>1 DEF FrameTakes
  <2>3. GroupSeen(g)' = PlansSeen[l]
    BY <1>1, <1>4 DEF GroupSeen, FrameTakes
  <2>4. \A h \in (DOMAIN groups \cap DOMAIN frames) \ {g} : GroupSeen(h)' = GroupSeen(h)
    BY <1>1 DEF GroupSeen, FrameTakes
  <2>5. GroupsSeen = [h \in DOMAIN groups \cap DOMAIN frames |-> GroupSeen(h)]
    BY DEF GroupsSeen
  <2> QED
    BY <2>1, <2>2, <2>3, <2>4, <2>5 DEF Override
<1>6. GroupsSeen' = Lazies!Holding(GroupsSeen, g, PlansSeen[l])
  BY <1>5, SameHolding, Zenon DEF Lazies!Holding
<1>7. Lazies!GroupBy
  BY <1>3, <1>4, <1>6, Zenon
  DEF Lazies!GroupBy, Lazies!values, SeriesValues, FramesSeen, PlansSeen, PlanSeen,
      GroupsSeen, GroupSeen
<1> QED
  BY <1>7, Zenon DEF Lazies!LazyNext

-----------------------------------------------------------------------------
(* Queries, tasks and promises, as the program sees them.                  *)

\* A query may give its LazyFrame other switches; its steps and its frame stay.
LEMMA SwitchesSeen ==
  ASSUME LazyInv, NEW l \in DOMAIN plans, NEW o \in OptionsVar \cup {NoOptions},
         DOMAIN plans' = DOMAIN plans, plans'[l] = Toggled(l, o),
         \A k \in DOMAIN plans \ {l} : plans'[k] = plans[k],
         \A k \in DOMAIN plans : FrameValue(k)' = FrameValue(k)
  PROVE  Lazies!Switches(l)
<1>1. PICK off \in SUBSET Switch : Toggled(l, o) = [plans[l] EXCEPT !.off = off]
  BY ToggledPlan
<1>2. PlansSeen' = [PlansSeen EXCEPT ![l].plan.off = off]
  <2>1. PlansSeen' = [k \in DOMAIN plans |-> PlanSeen(k)']
    BY DEF PlansSeen
  <2>2. PlanSeen(l)' = [PlanSeen(l) EXCEPT !.plan.off = off]
    BY <1>1 DEF PlanSeen
  <2>3. \A k \in DOMAIN plans \ {l} : PlanSeen(k)' = PlanSeen(k)
    BY DEF PlanSeen
  <2>4. PlansSeen = [k \in DOMAIN plans |-> PlanSeen(k)]
    BY DEF PlansSeen
  <2>5. [PlansSeen EXCEPT ![l].plan.off = off]
          = [PlansSeen EXCEPT ![l] = [PlansSeen[l] EXCEPT !.plan.off = off]]
    OBVIOUS
  <2>6. PlansSeen[l] = PlanSeen(l)
    BY <2>4
  <2> QED
    BY <2>1, <2>2, <2>3, <2>4, <2>5, <2>6
<1>3. off \in SUBSET Lazies!Switch
  BY <1>1, SameQueries
<1> QED
  BY <1>2, <1>3, Zenon DEF Lazies!Switches, PlansSeen, PlanSeen

\* Without options it leaves them alone.
LEMMA NotSwitched ==
  ASSUME LazyInv, NEW l \in DOMAIN plans, plans' = plans,
         \A k \in DOMAIN plans : FrameValue(k)' = FrameValue(k)
  PROVE  Lazies!Switches(l)
<1>1. Toggled(l, NoOptions) = plans[l]
  BY DEF Toggled
<1> QED
  BY <1>1, SwitchesSeen

\* A query is made: its outcome is that of its plan now.
LEMMA AskSeen ==
  ASSUME LazyInv, NEW l \in DOMAIN plans, NEW c \in Call, NEW rows \in 1 .. MaxRows,
         FrameTakes(c, FrameValue(l)), c \notin DOMAIN calls,
         DOMAIN calls' = DOMAIN calls \cup {c}, calls'[c].status = "queued",
         calls'[c].plan.steps = plans[l].steps, calls'[c].rows = rows,
         \A d \in DOMAIN calls : calls'[d] = calls[d],
         groups' = groups, Lazies!Switches(l)
  PROVE  Lazies!LazyNext
<1>1. c \notin FrameVar /\ c \notin LazyVar /\ c \notin GroupVar
  BY Kinds
<1>2. /\ \A f \in DOMAIN frames \cap FrameVar : FrameValue(f)' = FrameValue(f)
      /\ \A g \in DOMAIN frames \cap GroupVar : FrameValue(g)' = FrameValue(g)
      /\ \A d \in DOMAIN calls : FrameValue(d)' = FrameValue(d)
      /\ DOMAIN frames' \cap FrameVar = DOMAIN frames \cap FrameVar
      /\ DOMAIN frames' \cap GroupVar = DOMAIN frames \cap GroupVar
  BY <1>1 DEF FrameTakes, LazyInv, OwnersOK
<1>3. SeriesValues' = SeriesValues /\ FramesSeen' = FramesSeen /\ GroupsSeen' = GroupsSeen
  BY <1>2, StoreKept, GroupsKept DEF FrameTakes
<1>4. OutcomeSeen(c)' = Outcome(FrameValue(l), plans[l].steps, rows)
  BY DEF OutcomeSeen, FrameTakes
<1>5. \A d \in DOMAIN calls : OutcomeSeen(d)' = OutcomeSeen(d)
  BY <1>2, OutcomeKept
<1>6. Outcomes' = Override([v \in {c} |-> Outcome(FrameValue(l), plans[l].steps, rows)], Outcomes)
  BY <1>4, <1>5, OutcomesSeen DEF Override
<1>7. /\ l \in DOMAIN PlansSeen /\ c \in Call \ DOMAIN Outcomes
      /\ PlansSeen[l].frame = FrameValue(l) /\ PlansSeen[l].plan.steps = plans[l].steps
  BY SeenPlan, OutcomesSeen
<1>8. Outcomes' = Lazies!Holding(Outcomes, c,
                    Lazies!Outcome(PlansSeen[l].frame, PlansSeen[l].plan.steps, rows))
  BY <1>6, <1>7, SameQueries, SameHolding, Zenon DEF Lazies!Holding
<1>9. Lazies!Ask
  BY <1>3, <1>7, <1>8, Zenon
  DEF Lazies!Ask, Lazies!values, SeriesValues, FramesSeen, PlansSeen, PlanSeen,
      GroupsSeen, GroupSeen
<1> QED
  BY <1>9, Zenon DEF Lazies!LazyNext

\* LazyFrame.collect.
LEMMA CollectSeen ==
  ASSUME LazyInv, NEW l \in DOMAIN plans, NEW c \in Call, Collect(l, c)
  PROVE  Lazies!LazyNext
<1>1. /\ FrameTakes(c, FrameValue(l)) /\ c \notin DOMAIN calls
      /\ DOMAIN calls' = DOMAIN calls \cup {c} /\ calls'[c].status = "queued"
      /\ calls'[c].plan.steps = plans[l].steps /\ calls'[c].rows = AllRows
      /\ \A d \in DOMAIN calls : calls'[d] = calls[d]
      /\ plans' = plans /\ groups' = groups
  BY CollectStep
<1>2. \A k \in DOMAIN plans : FrameValue(k)' = FrameValue(k)
  BY <1>1, Kinds DEF FrameTakes, LazyInv, OwnersOK
<1>3. Lazies!Switches(l) /\ AllRows \in 1 .. MaxRows
  BY <1>1, <1>2, NotSwitched, HeldPlan
<1> QED
  BY <1>1, <1>3, AskSeen

\* LazyFrame.fetch.
LEMMA FetchSeen ==
  ASSUME LazyInv, NEW l \in DOMAIN plans, NEW o \in OptionsVar \cup {NoOptions},
         NEW rows \in 1 .. MaxRows, NEW c \in Call, Fetch(l, o, rows, c)
  PROVE  Lazies!LazyNext
<1>1. /\ FrameTakes(c, FrameValue(l)) /\ c \notin DOMAIN calls
      /\ DOMAIN calls' = DOMAIN calls \cup {c} /\ calls'[c].status = "queued"
      /\ calls'[c].plan.steps = plans[l].steps /\ calls'[c].rows = rows
      /\ \A d \in DOMAIN calls : calls'[d] = calls[d]
  BY FetchStep
<1>2. plans' = [plans EXCEPT ![l] = Toggled(l, o)] /\ groups' = groups
  BY DEF Fetch
<1>3. \A k \in DOMAIN plans : FrameValue(k)' = FrameValue(k)
  BY <1>1, Kinds DEF FrameTakes, LazyInv, OwnersOK
<1>4. Lazies!Switches(l)
  BY <1>1, <1>2, <1>3, TogglesPlans, SwitchesSeen
<1> QED
  BY <1>1, <1>2, <1>4, AskSeen

\* A query that is answered at once, in failure or in a DataFrame.
LEMMA AskNowSeen ==
  ASSUME LazyInv, NEW l \in DOMAIN plans, NEW x \in FrameVar, NEW rows \in 1 .. MaxRows,
         NEW answer, answer = Outcome(FrameValue(l), plans[l].steps, rows),
         SeriesValues' = SeriesValues,
         FramesSeen' = IF answer.ok THEN Lazies!Holding(FramesSeen, x, answer.frame)
                       ELSE FramesSeen,
         GroupsSeen' = GroupsSeen, Outcomes' = Outcomes, Lazies!Switches(l)
  PROVE  Lazies!LazyNext
<1>1. /\ l \in DOMAIN PlansSeen
      /\ PlansSeen[l].frame = FrameValue(l) /\ PlansSeen[l].plan.steps = plans[l].steps
  BY SeenPlan
<1>2. answer = Lazies!Outcome(PlansSeen[l].frame, PlansSeen[l].plan.steps, rows)
  BY <1>1, SameQueries, Zenon
<1> DEFINE seen == Lazies!Outcome(PlansSeen[l].frame, PlansSeen[l].plan.steps, rows)
<1>3. answer = seen
  BY <1>2
<1> HIDE DEF seen
<1>4. FramesSeen' = IF seen.ok THEN Lazies!Holding(FramesSeen, x, seen.frame) ELSE FramesSeen
  BY <1>3, Zenon
<1>5. Lazies!AskNow
  BY <1>1, <1>4, Zenon
  DEF Lazies!AskNow, seen, SeriesValues, FramesSeen, PlansSeen, PlanSeen, GroupsSeen, GroupSeen
<1> QED
  BY <1>5, Zenon DEF Lazies!LazyNext

\* LazyFrame.collectSync that returns.
LEMMA CollectSyncSeen ==
  ASSUME LazyInv, Unused # {}, NEW l \in DOMAIN plans, NEW x \in FrameVar, CollectSync(l, x)
  PROVE  Lazies!LazyNext
<1>1. PICK answer : answer = Outcome(FrameValue(l), plans[l].steps, AllRows)
  OBVIOUS
<1>2. answer.ok /\ FrameTakes(x, answer.frame) /\ UNCHANGED <<plans, groups, calls>>
  BY <1>1, CollectSyncStep DEF lazyVars
<1>3. /\ SeriesValues' = SeriesValues /\ GroupsSeen' = GroupsSeen /\ Outcomes' = Outcomes
      /\ FramesSeen' = Lazies!Holding(FramesSeen, x, answer.frame)
  BY <1>2, DataFrameTakes
<1>4. \A k \in DOMAIN plans : FrameValue(k)' = FrameValue(k)
  BY <1>2, Kinds DEF FrameTakes, LazyInv, OwnersOK
<1>5. Lazies!Switches(l) /\ AllRows \in 1 .. MaxRows
  BY <1>2, <1>4, NotSwitched, HeldPlan
<1> QED
  BY <1>1, <1>2, <1>3, <1>5, AskNowSeen

\* LazyFrame.fetchSync, whether it returns or throws.
LEMMA FetchSyncSeen ==
  ASSUME LazyInv, Unused # {}, NEW l \in DOMAIN plans, NEW o \in OptionsVar \cup {NoOptions},
         NEW rows \in 1 .. MaxRows, NEW x \in FrameVar, FetchSync(l, o, rows, x)
  PROVE  Lazies!LazyNext
<1>1. PICK answer : answer = Outcome(FrameValue(l), plans[l].steps, rows)
  OBVIOUS
<1>2. /\ IF answer.ok THEN FrameTakes(x, answer.frame) ELSE UNCHANGED storeVars
      /\ groups' = groups /\ calls' = calls
  BY <1>1, FetchSyncStep
<1>3. plans' = [plans EXCEPT ![l] = Toggled(l, o)]
  BY DEF FetchSync
<1>4. /\ SeriesValues' = SeriesValues
      /\ FramesSeen' = IF answer.ok THEN Lazies!Holding(FramesSeen, x, answer.frame)
                       ELSE FramesSeen
      /\ \A h \in DOMAIN frames \cap Holder : FrameValue(h)' = FrameValue(h)
      /\ DOMAIN frames' \cap Holder = DOMAIN frames \cap Holder
  <2>1. CASE answer.ok
    <3>1. FrameTakes(x, answer.frame) /\ x \notin Holder
      BY <1>2, <2>1, HolderAssumption
    <3>2. /\ SeriesValues' = SeriesValues
          /\ FramesSeen' = Override([v \in {x} |-> answer.frame], FramesSeen)
      BY <3>1, FrameSeen
    <3>3. FramesSeen' = Lazies!Holding(FramesSeen, x, answer.frame)
      BY <3>2, SameHolding, Zenon DEF Lazies!Holding
    <3> QED
      BY <2>1, <3>1, <3>2, <3>3 DEF FrameTakes
  <2>2. CASE ~answer.ok
    <3>1. heap' = heap /\ series' = series /\ frames' = frames
      BY <1>2, <2>2 DEF storeVars
    <3>2. (\A s : SeriesValue(s)' = SeriesValue(s)) /\ (\A f : FrameValue(f)' = FrameValue(f))
      BY <3>1 DEF SeriesValue, FrameValue
    <3> QED
      BY <2>2, <3>1, <3>2 DEF SeriesValues, FramesSeen
  <2> QED
    BY <2>1, <2>2
<1>5. \A k \in DOMAIN plans : FrameValue(k)' = FrameValue(k)
  BY <1>4, Kinds DEF LazyInv, OwnersOK
<1>6. GroupsSeen' = GroupsSeen /\ Outcomes' = Outcomes
  <2>1. /\ DOMAIN frames' \cap GroupVar = DOMAIN frames \cap GroupVar
        /\ DOMAIN calls = DOMAIN frames \cap Call
    BY <1>4, Kinds DEF LazyInv, OwnersOK
  <2> QED
    BY <1>2, <1>4, <2>1, Kinds, GroupsKept, OutcomesKept
<1>7. Lazies!Switches(l)
  BY <1>3, <1>5, TogglesPlans, SwitchesSeen
<1> QED
  BY <1>1, <1>4, <1>6, <1>7, AskNowSeen

\* What LazyValues is given is one tuple.
LEMMA NothingSeen ==
  ASSUME SeriesValues' = SeriesValues, FramesSeen' = FramesSeen, PlansSeen' = PlansSeen,
         GroupsSeen' = GroupsSeen, Outcomes' = Outcomes
  PROVE  UNCHANGED Lazies!lazyValues
BY Zenon
DEF Lazies!lazyValues, Lazies!values, SeriesValues, FramesSeen, PlansSeen, PlanSeen,
    GroupsSeen, GroupSeen

\* A task that is computed has the outcome it had.
LEMMA ComputeSeen ==
  ASSUME LazyInv, Unused # {}, NEW c \in DOMAIN calls, Compute(c)
  PROVE  UNCHANGED Lazies!lazyValues
<1>1. PICK answer : answer = Outcome(FrameValue(c), calls[c].plan.steps, calls[c].rows)
  OBVIOUS
<1>2. /\ calls[c].status = "queued" /\ answer \in Answers
      /\ IF answer.ok
         THEN FrameMoves(c, c, answer.frame) /\ CallLeft(c, "computed")
         ELSE UNCHANGED storeVars /\ CallLeft(c, "failed")
      /\ plans' = plans /\ groups' = groups
  BY <1>1, ComputeStep
<1>3. /\ c \in DOMAIN frames /\ c \in Call /\ calls[c] \in CallType
      /\ c \notin FrameVar /\ c \notin LazyVar /\ c \notin GroupVar
  BY HeldCall, Kinds
<1>4. OutcomeSeen(c) = answer
  BY <1>1, <1>2 DEF OutcomeSeen
<1>5. /\ OutcomeSeen(c)' = answer
      /\ DOMAIN series' = DOMAIN series /\ DOMAIN frames' = DOMAIN frames
      /\ \A s \in DOMAIN series : SeriesValue(s)' = SeriesValue(s)
      /\ \A h \in DOMAIN frames \ {c} : FrameValue(h)' = FrameValue(h)
      /\ DOMAIN calls' = DOMAIN calls /\ \A d \in DOMAIN calls \ {c} : calls'[d] = calls[d]
  <2>1. CASE answer.ok
    <3>1. FrameMoves(c, c, answer.frame) /\ CallLeft(c, "computed")
      BY <1>2, <2>1
    <3>2. calls'[c].status = "computed" /\ FrameValue(c)' = answer.frame
      BY <1>3, <3>1 DEF CallLeft, FrameMoves, CallType
    <3>3. answer = Done(answer.frame)
      BY <1>2, <2>1, AnswerParts
    <3>4. OutcomeSeen(c)' = answer
      BY <3>2, <3>3 DEF OutcomeSeen
    <3> QED
      BY <1>3, <3>1, <3>4 DEF FrameMoves, CallLeft
  <2>2. CASE ~answer.ok
    <3>1. UNCHANGED storeVars /\ CallLeft(c, "failed")
      BY <1>2, <2>2
    <3>2. calls'[c].status = "failed"
      BY <1>3, <3>1 DEF CallLeft, CallType
    <3>3. answer = Failure
      BY <1>2, <2>2, AnswerParts
    <3>4. OutcomeSeen(c)' = answer
      BY <3>2, <3>3 DEF OutcomeSeen
    <3>5. heap' = heap /\ series' = series /\ frames' = frames
      BY <3>1 DEF storeVars
    <3>6. (\A s : SeriesValue(s)' = SeriesValue(s)) /\ (\A f : FrameValue(f)' = FrameValue(f))
      BY <3>5 DEF SeriesValue, FrameValue
    <3> QED
      BY <3>1, <3>4, <3>5, <3>6 DEF CallLeft
  <2> QED
    BY <2>1, <2>2
<1>6. Outcomes' = Outcomes
  <2>1. \A d \in DOMAIN calls \ {c} : FrameValue(d)' = FrameValue(d)
    BY <1>5 DEF LazyInv, OwnersOK
  <2>2. \A d \in DOMAIN calls \ {c} : OutcomeSeen(d)' = OutcomeSeen(d)
    BY <1>5, <2>1, OutcomeKept
  <2> QED
    BY <1>4, <1>5, <2>2, OutcomesSeen
<1>7. SeriesValues' = SeriesValues /\ FramesSeen' = FramesSeen
  BY <1>3, <1>5, StoreKept
<1>8. PlansSeen' = PlansSeen /\ GroupsSeen' = GroupsSeen
  <2>1. \A l \in DOMAIN plans : FrameValue(l)' = FrameValue(l)
    BY <1>3, <1>5 DEF LazyInv, OwnersOK
  <2> QED
    BY <1>2, <1>3, <1>5, <2>1, PlansKept, GroupsKept
<1> QED
  BY <1>6, <1>7, <1>8, NothingSeen

\* The outcomes that are left when a promise settles.
LEMMA OutcomeTold ==
  ASSUME LazyInv, NEW c \in DOMAIN calls, CallGone(c),
         \A d \in DOMAIN calls \ {c} : FrameValue(d)' = FrameValue(d)
  PROVE  Outcomes' = Lazies!Forgetting(Outcomes, c)
<1>1. \A d \in DOMAIN calls \ {c} : OutcomeSeen(d)' = OutcomeSeen(d)
  BY OutcomeKept DEF CallGone
<1>2. Outcomes' = Restrict(Outcomes, DOMAIN Outcomes \ {c})
  BY <1>1, OutcomesSeen DEF CallGone, Restrict
<1> QED
  BY <1>2, SameHolding, Zenon DEF Lazies!Forgetting

\* The promise resolves to the frame that its outcome is.
LEMMA ResolveSeen ==
  ASSUME LazyInv, NEW c \in DOMAIN calls, NEW x \in FrameVar, Resolve(c, x)
  PROVE  Lazies!LazyNext
<1>1. /\ calls[c].status = "computed" /\ FrameMoves(c, x, FrameValue(c))
      /\ CallGone(c) /\ plans' = plans /\ groups' = groups
  BY ResolveStep
<1>2. /\ c \in Call /\ c \in DOMAIN frames
      /\ c \notin FrameVar /\ c \notin LazyVar /\ c \notin GroupVar
      /\ x \notin LazyVar /\ x \notin GroupVar /\ x \notin Call
  BY HeldCall, Kinds
<1>3. /\ \A d \in DOMAIN calls \ {c} : FrameValue(d)' = FrameValue(d)
      /\ \A l \in DOMAIN plans : FrameValue(l)' = FrameValue(l)
      /\ \A g \in DOMAIN frames \cap GroupVar : FrameValue(g)' = FrameValue(g)
      /\ DOMAIN frames' \cap GroupVar = DOMAIN frames \cap GroupVar
  BY <1>1, <1>2 DEF FrameMoves, LazyInv, OwnersOK
<1>4. /\ Outcomes' = Lazies!Forgetting(Outcomes, c)
      /\ PlansSeen' = PlansSeen /\ GroupsSeen' = GroupsSeen
  BY <1>1, <1>3, OutcomeTold, PlansKept, GroupsKept
<1>5. /\ SeriesValues' = SeriesValues
      /\ x \in DOMAIN FramesSeen' /\ FramesSeen'[x] = FrameValue(c)
      /\ FramesSeen' = Override([v \in {x} |-> FrameValue(c)], FramesSeen)
  <2>1. SeriesValues' = SeriesValues
    BY <1>1 DEF FrameMoves, SeriesValues
  <2>2. /\ FramesSeen' = [f \in DOMAIN frames' \cap FrameVar |-> FrameValue(f)']
        /\ DOMAIN frames' \cap FrameVar = DOMAIN FramesSeen \cup {x}
        /\ \A f \in DOMAIN FramesSeen \ {x} : FramesSeen[f] = FrameValue(f)'
    BY <1>1, <1>2 DEF FramesSeen, FrameMoves
  <2>3. FrameValue(x)' = FrameValue(c)
    BY <1>1 DEF FrameMoves
  <2>4. FramesSeen' = Override([v \in {x} |-> FrameValue(c)], FramesSeen)
    BY <2>2, <2>3 DEF Override
  <2> QED
    BY <2>1, <2>2, <2>3, <2>4
<1>6. c \in DOMAIN Outcomes /\ Outcomes[c].ok /\ Outcomes[c].frame = FrameValue(c)
  <2>1. OutcomeSeen(c) = Done(FrameValue(c))
    BY <1>1 DEF OutcomeSeen
  <2> QED
    BY <2>1, OutcomesSeen DEF Done
<1>7. FramesSeen' = Lazies!Holding(FramesSeen, x, FramesSeen'[x])
  BY <1>5, SameHolding, Zenon DEF Lazies!Holding
<1>8. Lazies!FrameGiven(x, LAMBDA frame : frame = Outcomes[c].frame)
  BY <1>5, <1>6, <1>7, Zenon DEF Lazies!FrameGiven, SeriesValues, FramesSeen
<1>9. Lazies!Tell
  BY <1>4, <1>6, <1>8, Zenon DEF Lazies!Tell, PlansSeen, PlanSeen, GroupsSeen, GroupSeen
<1> QED
  BY <1>9, Zenon DEF Lazies!LazyNext

\* Or it rejects.
LEMMA RejectSeen ==
  ASSUME LazyInv, NEW c \in DOMAIN calls, Reject(c)
  PROVE  Lazies!LazyNext
<1>1. /\ calls[c].status = "failed" /\ FrameLeaves(c)
      /\ CallGone(c) /\ plans' = plans /\ groups' = groups
  BY RejectStep
<1>2. c \notin FrameVar /\ c \notin LazyVar /\ c \notin GroupVar
  BY HeldCall, Kinds
<1>3. /\ \A d \in DOMAIN calls \ {c} : FrameValue(d)' = FrameValue(d)
      /\ \A l \in DOMAIN plans : FrameValue(l)' = FrameValue(l)
      /\ \A g \in DOMAIN frames \cap GroupVar : FrameValue(g)' = FrameValue(g)
      /\ \A f \in DOMAIN frames \cap FrameVar : FrameValue(f)' = FrameValue(f)
      /\ DOMAIN frames' \cap GroupVar = DOMAIN frames \cap GroupVar
      /\ DOMAIN frames' \cap FrameVar = DOMAIN frames \cap FrameVar
  BY <1>1, <1>2 DEF FrameLeaves, LazyInv, OwnersOK
<1>4. /\ Outcomes' = Lazies!Forgetting(Outcomes, c)
      /\ PlansSeen' = PlansSeen /\ GroupsSeen' = GroupsSeen
  BY <1>1, <1>3, OutcomeTold, PlansKept, GroupsKept
<1>5. SeriesValues' = SeriesValues /\ FramesSeen' = FramesSeen
  BY <1>1, <1>3, StoreKept DEF FrameLeaves
<1>6. c \in DOMAIN Outcomes /\ ~Outcomes[c].ok
  <2>1. OutcomeSeen(c) = Failure
    BY <1>1 DEF OutcomeSeen
  <2> QED
    BY <2>1, OutcomesSeen DEF Failure
<1>7. Lazies!Tell
  BY <1>4, <1>5, <1>6, Zenon
  DEF Lazies!Tell, Lazies!values, SeriesValues, FramesSeen, PlansSeen, PlanSeen,
      GroupsSeen, GroupSeen
<1> QED
  BY <1>7, Zenon DEF Lazies!LazyNext

\* A step that leaves the store, the plans, the group-bys and the tasks alone.
LEMMA NothingChanged ==
  ASSUME LazyInv, UNCHANGED <<storeVars, plans, groups, calls>>
  PROVE  UNCHANGED Lazies!lazyValues
<1>1. /\ heap' = heap /\ series' = series /\ frames' = frames
      /\ plans' = plans /\ groups' = groups /\ calls' = calls
  BY DEF storeVars
<1>2. (\A s : SeriesValue(s)' = SeriesValue(s)) /\ (\A f : FrameValue(f)' = FrameValue(f))
  BY <1>1 DEF SeriesValue, FrameValue
<1>3. SeriesValues' = SeriesValues /\ FramesSeen' = FramesSeen
  BY <1>1, <1>2, StoreKept
<1>4. PlansSeen' = PlansSeen /\ GroupsSeen' = GroupsSeen /\ Outcomes' = Outcomes
  BY <1>1, <1>2, PlansKept, GroupsKept, OutcomesKept
<1> QED
  BY <1>3, <1>4, NothingSeen

\* A program starts without LazyFrames and without queries.
LEMMA LazyStartSeen == LazyInit => Lazies!LazyInit
<1> SUFFICES ASSUME LazyInit
             PROVE  Lazies!LazyInit
  OBVIOUS
<1>1. Init /\ plans = <<>> /\ groups = <<>> /\ calls = <<>>
  BY DEF LazyInit
<1>2. DOMAIN series = {} /\ DOMAIN frames = {}
  BY <1>1 DEF Init
<1>3. DOMAIN plans = {} /\ DOMAIN groups = {} /\ DOMAIN calls = {}
  BY <1>1
<1>4. /\ SeriesValues = <<>> /\ FramesSeen = <<>> /\ PlansSeen = <<>> /\ GroupsSeen = <<>>
  BY <1>2, <1>3 DEF SeriesValues, FramesSeen, PlansSeen, GroupsSeen
<1>5. Outcomes = <<>>
  BY <1>3, OutcomesSeen
<1> QED
  BY <1>4, <1>5, Zenon
  DEF Lazies!LazyInit, Lazies!Init, SeriesValues, FramesSeen, PlansSeen, PlanSeen,
      GroupsSeen, GroupSeen

\* Every step is one of LazyValues, or is not seen.
LEMMA LazyNextSeen ==
  ASSUME LazyInv, LazyNext
  PROVE  Lazies!LazyNext \/ UNCHANGED Lazies!lazyValues
<1>1. /\ Unused # {}
      /\ FrameCall \/ PlanCall \/ Query \/ (\E c \in DOMAIN calls : Compute(c)) \/ Settle
  BY DEF LazyNext
<1>2. CASE FrameCall
  <2>1. UNCHANGED lazyVars
    BY <1>2 DEF FrameCall
  <2>2. ASSUME NEW x \in FrameVar, NEW column \in Given, NewFrame(x, column)
        PROVE  Lazies!LazyNext
    BY <1>1, <2>1, <2>2, NewFrameSeen
  <2>3. ASSUME NEW x \in FrameVar, NEW f \in Usable, NEW other \in Usable, Extend(f, other, x)
        PROVE  Lazies!LazyNext
    BY <1>1, <2>1, <2>3, ExtendsSeen
  <2>4. ASSUME NEW f \in Usable, NEW names \in NonEmpty(GivenName),
               Len(names) = Len(frames[f]), SetColumns(f, names)
        PROVE  Lazies!LazyNext
    BY <1>1, <2>1, <2>4, SetColumnsSeen
  <2> QED
    BY <1>2, <2>2, <2>3, <2>4 DEF FrameCall
<1>3. CASE PlanCall
  <2>1. ASSUME NEW g \in DOMAIN groups, AggAgain(g) PROVE UNCHANGED Lazies!lazyValues
    BY <2>1, AggAgainStep, NothingChanged
  <2> QED
    BY <1>1, <1>3, <2>1, LazySeen, AddStepSeen, ReloadSeen, GroupBySeen, AggSeen DEF PlanCall
<1>4. CASE Query
  <2>1. ASSUME NEW o \in OptionsVar, NEW names \in Options, SetOptions(o, names)
        PROVE  UNCHANGED Lazies!lazyValues
    BY <2>1, SetOptionsStep, NothingChanged
  <2> QED
    BY <1>1, <1>4, <2>1, CollectSyncSeen, CollectSeen, FetchSeen, FetchSyncSeen DEF Query
<1>5. CASE \E c \in DOMAIN calls : Compute(c)
  BY <1>1, <1>5, ComputeSeen
<1>6. CASE Settle
  BY <1>6, RejectSeen, ResolveSeen DEF Settle
<1> QED
  BY <1>1, <1>2, <1>3, <1>4, <1>5, <1>6

\* A LazyFrame is a value, and what collect() and fetch() answer is settled by
\* the call: writes in place to the DataFrames that share its columns, the order
\* in which worker threads compute and promises settle, are never seen.  The
\* store with its plans and tasks implements LazyValues.
THEOREM LazyKeepsPlans == LazySpec => KeepsPlans
<1>1. LazyInv /\ [LazyNext]_allVars => [Lazies!LazyNext]_(Lazies!lazyValues)
  <2>1. ASSUME LazyInv, UNCHANGED allVars PROVE UNCHANGED Lazies!lazyValues
    <3>1. UNCHANGED <<storeVars, plans, groups, calls>>
      BY <2>1 DEF allVars, lazyVars
    <3> QED
      BY <2>1, <3>1, NothingChanged
  <2> QED
    BY <2>1, LazyNextSeen
<1> QED
  BY <1>1, LazyStartSeen, LazyInvariant, PTL DEF LazySpec, KeepsPlans, Lazies!LazySpec
=============================================================================
