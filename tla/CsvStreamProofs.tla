-------------------------- MODULE CsvStreamProofs --------------------------
(***************************************************************************)
(* readCSVStream, for every stream, chunking, batch size and endRows: no   *)
(* byte is lost, records stay whole, and what is parsed is a prefix of the *)
(* stream made of whole records - all of it when endRows is not given.     *)
(***************************************************************************)
EXTENDS CsvStreamPromise, LineBatcherProofs

\* Where a record may stop.
RecordEnd(offset) == offset \in {0, Len(bytes)} \/ bytes[offset] = Newline

\* The handler keeps the first batches it is given, and all of them until the
\* limit is passed.
KeptInv ==
  /\ Len(chunks) <= delivered
  /\ \A k \in 1 .. Len(chunks) : chunks[k] = pushed[k] /\ RecordEnd(Stop(chunks[k]))
  /\ WithinLimit => Len(chunks) = delivered

\* end() comes from pipe() after the last byte, or from the handler.
EndingInv ==
  /\ ending => \/ source = "ended" /\ sent = Len(bytes)
               \/ ~WithinLimit
  /\ errored => ~WithinLimit
  /\ ~piped => ending

\* 'end' is emitted when nothing more will be announced.
EndedInv ==
  /\ promise # "pending" => ended
  /\ ended => flushed /\ delivered = Len(pushed) /\ parsed = chunks

CsvInv == BatcherInv /\ TypeOK /\ KeptInv /\ EndingInv /\ EndedInv

----------------------------------------------------------------------------

\* The batcher is at rest, and no batch is held.
LEMMA CsvInitial == Init => CsvInv
<1> SUFFICES ASSUME Init PROVE CsvInv
  OBVIOUS
<1>1. BatcherInv
  BY BatcherInitial DEF Init
<1>2. BatcherTypeOK
  BY <1>1 DEF BatcherInv
<1>3. TypeOK
  <2>1. chunks \in Seq(Seq(Slice)) /\ parsed \in Seq(Seq(Slice))
    BY DEF Init
  <2>2. count \in Nat /\ ended \in BOOLEAN /\ promise \in {"pending", "resolved", "rejected"}
    BY DEF Init
  <2> QED
    BY <1>2, <2>1, <2>2 DEF TypeOK
<1>4. KeptInv /\ EndingInv /\ EndedInv
  BY DEF Init, BatcherInit, KeptInv, EndingInv, EndedInv
<1> QED
  BY <1>1, <1>3, <1>4 DEF CsvInv

\* A batcher step with the consumer at rest.
LEMMA BatchPreserves ==
  ASSUME CsvInv, Batch PROVE CsvInv'
<1>1. BatcherStep /\ UNCHANGED <<count, chunks, ended, promise, parsed>>
  BY DEF Batch, consumerVars
<1>2. BatcherInv'
  BY <1>1, BatcherInductive DEF CsvInv, BatcherNext
<1>3. TypeOK'
  BY <1>1, <1>2 DEF CsvInv, TypeOK, BatcherInv
<1>4. WithinLimit' <=> WithinLimit
  BY <1>1 DEF WithinLimit
\* Only a push changes the batches, and it adds one after the last.
<1>5. /\ bytes' = bytes /\ delivered' = delivered
      /\ \/ pushed' = pushed
         \/ ~flushed /\ \E batch : pushed' = Append(pushed, batch)
      /\ flushed => flushed'
  <2>1. CASE Flush
    BY <2>1 DEF Flush, sourceVars
  <2>2. CASE CutBatch
    <3>1. ~flushed
      BY <2>2 DEF CutBatch, CsvInv, BatcherInv, OrderInv
    <3> QED
      BY <2>2, <3>1 DEF CutBatch, sourceVars
  <2>3. CASE StartChunk \/ SkipByte \/ CountLine \/ EndChunk \/ Finish
    BY <2>3 DEF StartChunk, SkipByte, CountLine, EndChunk, Finish, sourceVars
  <2>4. ASSUME NEW n \in 1 .. Len(bytes), SourceData(n)
        PROVE  UNCHANGED <<bytes, delivered, pushed, flushed>>
    BY <2>4 DEF SourceData
  <2>5. CASE SourceEnd \/ SourceFail
    BY <2>5 DEF SourceEnd, SourceFail
  <2> QED
    BY <1>1, <2>1, <2>2, <2>3, <2>4, <2>5 DEF BatcherStep, Transform
<1>6. /\ pushed \in Seq(Seq(Slice)) /\ delivered \in 0 .. Len(pushed)
      /\ chunks \in Seq(Seq(Slice)) /\ Len(chunks) <= delivered
  BY DEF CsvInv, TypeOK, BatcherTypeOK, KeptInv
<1>7. /\ \A k \in 1 .. Len(pushed) : pushed'[k] = pushed[k]
      /\ Len(pushed) <= Len(pushed')
      /\ flushed => pushed' = pushed
  <2>1. CASE pushed' = pushed
    BY <2>1, <1>6
  <2>2. CASE pushed' # pushed
    <3>1. PICK batch : pushed' = Append(pushed, batch)
      BY <1>5, <2>2
    <3>2. Len(Append(pushed, batch)) = Len(pushed) + 1
      BY <1>6
    <3>3. \A k \in 1 .. Len(pushed) : Append(pushed, batch)[k] = pushed[k]
      BY <1>6
    <3> QED
      BY <1>5, <1>6, <2>2, <3>1, <3>2, <3>3
  <2> QED
    BY <2>1, <2>2
<1>8. KeptInv'
  <2>1. \A k \in 1 .. Len(chunks) : chunks[k] = pushed'[k] /\ RecordEnd(Stop(chunks[k]))
    BY <1>6, <1>7 DEF CsvInv, KeptInv
  <2> QED
    BY <1>1, <1>4, <1>5, <1>6, <2>1 DEF CsvInv, KeptInv, RecordEnd, Stop
<1>9. EndedInv'
  BY <1>1, <1>5, <1>7 DEF CsvInv, EndedInv
<1>10. EndingInv'
  <2>1. ASSUME NEW n \in 1 .. Len(bytes), SourceData(n) PROVE EndingInv'
    <3>1. /\ source = "flowing" /\ source' = source /\ bytes' = bytes
          /\ ending' = ending
          /\ ending => errored' = TRUE /\ piped' = FALSE
          /\ ~ending => errored' = errored /\ piped' = piped
      BY <2>1 DEF SourceData
    <3>2. ending => ~WithinLimit
      BY <3>1 DEF CsvInv, EndingInv
    <3> QED
      BY <1>4, <3>1, <3>2 DEF CsvInv, EndingInv
  <2>2. CASE SourceEnd
    <3>1. /\ source = "flowing" /\ source' = "ended" /\ (sent = Len(bytes) \/ ~piped)
          /\ (ending' <=> ending \/ piped)
          /\ bytes' = bytes /\ sent' = sent /\ errored' = errored /\ piped' = piped
      BY <2>2 DEF SourceEnd
    <3>2. ending => ~WithinLimit
      BY <3>1 DEF CsvInv, EndingInv
    <3> QED
      BY <1>4, <3>1, <3>2 DEF CsvInv, EndingInv
  <2>3. CASE SourceFail
    <3>1. /\ source = "flowing"
          /\ bytes' = bytes /\ sent' = sent /\ errored' = errored /\ piped' = piped
          /\ ending' = ending
      BY <2>3 DEF SourceFail
    <3> QED
      BY <1>4, <3>1 DEF CsvInv, EndingInv
  <2>4. CASE Transform \/ Flush
    <3>1. UNCHANGED <<bytes, sent, source, errored, piped, ending>>
      BY <2>4 DEF Transform, StartChunk, SkipByte, CountLine, CutBatch, EndChunk, Flush,
                  sourceVars
    <3> QED
      BY <1>4, <3>1 DEF CsvInv, EndingInv
  <2>5. CASE Finish
    <3>1. UNCHANGED <<bytes, sent, source, errored, ending>> /\ flushed
      BY <2>5 DEF Finish, sourceVars
    <3>2. ending
      BY <3>1 DEF CsvInv, BatcherInv, OrderInv
    <3> QED
      BY <1>4, <3>1, <3>2 DEF CsvInv, EndingInv
  <2> QED
    BY <1>1, <2>1, <2>2, <2>3, <2>4, <2>5 DEF BatcherStep
<1> QED
  BY <1>2, <1>3, <1>8, <1>9, <1>10 DEF CsvInv

\* Once _flush has run without an early abort, the batches reach the end.
LEMMA FlushedToTheEnd ==
  ASSUME CsvInv, flushed, WithinLimit
  PROVE  PushedTo = Len(bytes)
<1>1. /\ ~Transforming /\ writable = <<>> /\ ending
      /\ PushedTo = begin
      /\ ~errored => sent = IF writable = <<>> THEN AcceptedTo ELSE Stop(writable)
  BY DEF CsvInv, BatcherInv, OrderInv, NoByteLost, WritableInv
<1>2. ~errored /\ sent = Len(bytes)
  BY <1>1 DEF CsvInv, EndingInv
<1> QED
  BY <1>1, <1>2 DEF AcceptedTo

\* The 'data' handler.
LEMMA OnDataPreserves ==
  ASSUME CsvInv, OnData PROVE CsvInv'
<1>1. /\ delivered < Len(pushed) /\ ~errored
      /\ delivered' = delivered + 1
      /\ (ending' <=> ending \/ ~WithinLimit)
      /\ UNCHANGED <<bytes, sent, source, piped, pushed, flushed, errored>>
      /\ chunks' = IF WithinLimit THEN Append(chunks, pushed[delivered + 1]) ELSE chunks
      /\ count' = count + BatchSize
      /\ UNCHANGED <<ended, promise, parsed>>
  BY DEF OnData, Data, sourceVars
<1>2. BatcherInv'
  <2>1. Data(~WithinLimit) /\ (~WithinLimit) \in BOOLEAN
    BY LimitedAssumption DEF OnData, WithinLimit
  <2>2. BatcherNext
    BY <2>1 DEF BatcherNext
  <2> QED
    BY <2>2, BatcherInductive DEF CsvInv
<1>3. /\ pushed \in Seq(Seq(Slice)) /\ delivered \in 0 .. Len(pushed)
      /\ chunks \in Seq(Seq(Slice)) /\ count \in Nat /\ Len(chunks) <= delivered
      /\ ended \in BOOLEAN /\ promise \in {"pending", "resolved", "rejected"}
      /\ parsed \in Seq(Seq(Slice))
  BY DEF CsvInv, TypeOK, BatcherTypeOK, KeptInv
<1>4. delivered + 1 \in 1 .. Len(pushed) /\ pushed[delivered + 1] \in Seq(Slice)
  BY <1>1, <1>3
<1>5. /\ chunks' \in Seq(Seq(Slice))
      /\ Len(chunks') = IF WithinLimit THEN Len(chunks) + 1 ELSE Len(chunks)
      /\ \A k \in 1 .. Len(chunks) : chunks'[k] = chunks[k]
      /\ WithinLimit => chunks'[Len(chunks) + 1] = pushed[delivered + 1]
  <2>1. CASE WithinLimit
    BY <1>1, <1>3, <1>4, <2>1
  <2>2. CASE ~WithinLimit
    BY <1>1, <1>3, <2>2
  <2> QED
    BY <2>1, <2>2
<1>6. WithinLimit' => WithinLimit
  BY <1>1, <1>3, BatchSizeAssumption, EndRowsAssumption DEF WithinLimit
<1>7. TypeOK'
  <2>1. count' \in Nat
    BY <1>1, <1>3, BatchSizeAssumption
  <2>2. BatcherTypeOK'
    BY <1>2 DEF BatcherInv
  <2> QED
    BY <1>1, <1>3, <1>5, <2>1, <2>2 DEF TypeOK
<1>8. WithinLimit => RecordEnd(Stop(pushed[delivered + 1]))
  <2> SUFFICES ASSUME WithinLimit PROVE RecordEnd(Stop(pushed[delivered + 1]))
    OBVIOUS
  <2>1. CASE bytes[Stop(pushed[delivered + 1])] = Newline
    BY <2>1 DEF RecordEnd
  <2>2. CASE delivered + 1 = Len(pushed) /\ flushed
    <3>1. PushedTo = Len(bytes)
      BY <2>2, FlushedToTheEnd
    <3>2. pushed # <<>>
      BY <1>3, <2>2
    <3> QED
      BY <2>2, <3>1, <3>2 DEF PushedTo, RecordEnd
  <2> QED
    BY <1>4, <2>1, <2>2 DEF CsvInv, BatcherInv, WholeLines
<1>9. KeptInv'
  <2>1. /\ \A k \in 1 .. Len(chunks) :
             chunks[k] = pushed[k] /\ RecordEnd(Stop(chunks[k]))
        /\ WithinLimit => Len(chunks) = delivered
    BY DEF CsvInv, KeptInv
  <2>2. \A k \in 1 .. Len(chunks') :
          chunks'[k] = pushed[k] /\ RecordEnd(Stop(chunks'[k]))
    <3> SUFFICES ASSUME NEW k \in 1 .. Len(chunks')
                 PROVE  chunks'[k] = pushed[k] /\ RecordEnd(Stop(chunks'[k]))
      OBVIOUS
    <3>1. CASE k \in 1 .. Len(chunks)
      BY <1>5, <2>1, <3>1
    <3>2. CASE k \notin 1 .. Len(chunks)
      <4>1. WithinLimit /\ k = Len(chunks) + 1 /\ k = delivered + 1
        BY <1>3, <1>5, <2>1, <3>2
      <4> QED
        BY <1>5, <1>8, <4>1
    <3> QED
      BY <3>1, <3>2
  <2>3. Len(chunks') <= delivered' /\ (WithinLimit' => Len(chunks') = delivered')
    BY <1>1, <1>3, <1>5, <1>6, <2>1
  <2> QED
    BY <1>1, <2>2, <2>3 DEF KeptInv, RecordEnd, Stop
<1>10. EndingInv'
  BY <1>1, <1>6 DEF CsvInv, EndingInv
<1>11. EndedInv'
  <2>1. ~ended /\ promise = "pending"
    BY <1>1, <1>3 DEF CsvInv, EndedInv
  <2> QED
    BY <1>1, <2>1 DEF EndedInv
<1> QED
  BY <1>2, <1>7, <1>9, <1>10, <1>11 DEF CsvInv

\* The 'end' handler.
LEMMA OnEndPreserves ==
  ASSUME CsvInv, OnEnd PROVE CsvInv'
<1>1. /\ flushed /\ delivered = Len(pushed) /\ ~errored
      /\ ended' = TRUE /\ parsed' = chunks
      /\ promise' \in {"resolved", "rejected"}
      /\ UNCHANGED <<batcherVars, count, chunks>>
  BY DEF OnEnd, Exhausted
<1>2. BatcherInv'
  BY <1>1, BatcherInductive DEF CsvInv, BatcherNext
<1>3. UNCHANGED <<bytes, sent, source, piped, ending, pushed, delivered, flushed, errored>>
  BY <1>1 DEF batcherVars, sourceVars
<1>4. TypeOK'
  <2>1. BatcherTypeOK'
    BY <1>2 DEF BatcherInv
  <2>2. count \in Nat /\ chunks \in Seq(Seq(Slice))
    BY DEF CsvInv, TypeOK
  <2> QED
    BY <1>1, <2>1, <2>2 DEF TypeOK
<1>5. WithinLimit' <=> WithinLimit
  BY <1>1 DEF WithinLimit
<1>6. KeptInv'
  BY <1>1, <1>3, <1>5 DEF CsvInv, KeptInv, RecordEnd, Stop
<1>7. EndingInv'
  BY <1>3, <1>5 DEF CsvInv, EndingInv
<1>8. EndedInv'
  BY <1>1, <1>3 DEF EndedInv
<1> QED
  BY <1>2, <1>4, <1>6, <1>7, <1>8 DEF CsvInv

\* A step of something else keeps the invariant.
LEMMA CsvStutters ==
  ASSUME CsvInv, UNCHANGED vars PROVE CsvInv'
<1>1. UNCHANGED <<batcherVars, count, chunks, ended, promise, parsed>>
  BY DEF vars, consumerVars
<1>2. BatcherInv'
  BY <1>1, BatcherInductive DEF CsvInv, BatcherNext
<1>3. UNCHANGED <<bytes, sent, source, piped, ending, pushed, delivered, flushed, errored>>
  BY <1>1 DEF batcherVars, sourceVars
<1>4. TypeOK'
  BY <1>1, <1>2 DEF CsvInv, BatcherInv, TypeOK
<1>5. WithinLimit' <=> WithinLimit
  BY <1>1 DEF WithinLimit
<1>6. KeptInv'
  BY <1>1, <1>3, <1>5 DEF CsvInv, KeptInv, RecordEnd, Stop
<1>7. EndingInv' /\ EndedInv'
  BY <1>1, <1>3, <1>5 DEF CsvInv, EndingInv, EndedInv
<1> QED
  BY <1>2, <1>4, <1>6, <1>7 DEF CsvInv

----------------------------------------------------------------------------

\* The invariant all the results below follow from holds in every state.
THEOREM CsvInvariant == Spec => []CsvInv
<1>1. Init => CsvInv
  BY CsvInitial
<1>2. CsvInv /\ [Next]_vars => CsvInv'
  BY BatchPreserves, OnDataPreserves, OnEndPreserves, CsvStutters DEF Next, Quiet
<1> QED
  BY <1>1, <1>2, PTL DEF Spec

\* readCSVStream keeps every variable in its type, the line counter below
\* batchSize included.
THEOREM CsvTypeCorrect == Spec => []TypeOK
<1>1. CsvInv => TypeOK
  BY DEF CsvInv
<1> QED
  BY <1>1, CsvInvariant, PTL

\* No byte is lost, repeated or reordered between the source and the batches.
THEOREM CsvNoByteLost == Spec => []NoByteLost
<1>1. CsvInv => NoByteLost
  BY DEF CsvInv, BatcherInv
<1> QED
  BY <1>1, CsvInvariant, PTL

\* Every batch but the last holds exactly batchSize complete lines.
THEOREM CsvWholeLines == Spec => []WholeLines
<1>1. CsvInv => WholeLines
  BY DEF CsvInv, BatcherInv
<1> QED
  BY <1>1, CsvInvariant, PTL

\* Early abort or not, what is parsed is a prefix of the batches that stops
\* where a record does.
THEOREM CsvParsesWholeRecords == Spec => []ParsesWholeRecords
<1>1. ASSUME CsvInv, promise = "resolved"
      PROVE  /\ parsed = SubSeq(pushed, 1, Len(parsed))
             /\ Covers(parsed) \in {0, Len(bytes)} \/ bytes[Covers(parsed)] = Newline
  <2>1. /\ parsed = chunks /\ delivered = Len(pushed)
        /\ Len(chunks) <= delivered
        /\ \A k \in 1 .. Len(chunks) : chunks[k] = pushed[k] /\ RecordEnd(Stop(chunks[k]))
        /\ pushed \in Seq(Seq(Slice)) /\ chunks \in Seq(Seq(Slice))
    BY <1>1 DEF CsvInv, TypeOK, BatcherTypeOK, KeptInv, EndedInv
  <2>2. parsed = SubSeq(pushed, 1, Len(parsed))
    <3>1. /\ SubSeq(pushed, 1, Len(chunks)) \in Seq(Seq(Slice))
          /\ Len(SubSeq(pushed, 1, Len(chunks))) = Len(chunks)
          /\ \A k \in 1 .. Len(chunks) : SubSeq(pushed, 1, Len(chunks))[k] = pushed[k]
      BY <2>1
    <3>2. chunks = SubSeq(pushed, 1, Len(chunks))
      BY <2>1, <3>1
    <3> QED
      BY <2>1, <3>2
  <2>3. CASE chunks = <<>>
    BY <2>1, <2>2, <2>3 DEF Covers
  <2>4. CASE chunks # <<>>
    <3>1. Len(chunks) \in 1 .. Len(chunks)
      BY <2>1, <2>4
    <3>2. RecordEnd(Stop(chunks[Len(chunks)]))
      BY <2>1, <3>1
    <3> QED
      BY <2>1, <2>2, <2>4, <3>2 DEF Covers, RecordEnd
  <2> QED
    BY <2>3, <2>4
<1>2. CsvInv => ParsesWholeRecords
  BY <1>1 DEF ParsesWholeRecords
<1> QED
  BY <1>2, CsvInvariant, PTL

\* Without endRows, the promise resolves with the whole stream or not at all.
THEOREM CsvParsesEverything == Spec => []ParsesEverything
<1>1. ASSUME CsvInv, promise = "resolved", ~Limited
      PROVE  Covers(parsed) = Len(bytes)
  <2>1. WithinLimit
    BY <1>1 DEF WithinLimit
  <2>2. /\ parsed = chunks /\ delivered = Len(pushed) /\ flushed
        /\ Len(chunks) = delivered
        /\ \A k \in 1 .. Len(chunks) : chunks[k] = pushed[k]
        /\ pushed \in Seq(Seq(Slice)) /\ chunks \in Seq(Seq(Slice))
    BY <1>1, <2>1 DEF CsvInv, TypeOK, BatcherTypeOK, KeptInv, EndedInv
  <2>3. PushedTo = Len(bytes)
    BY <1>1, <2>1, <2>2, FlushedToTheEnd
  <2>4. CASE pushed = <<>>
    BY <2>2, <2>3, <2>4 DEF Covers, PushedTo
  <2>5. CASE pushed # <<>>
    <3>1. Len(pushed) \in 1 .. Len(chunks) /\ chunks # <<>>
      BY <2>2, <2>5
    <3>2. chunks[Len(chunks)] = pushed[Len(pushed)]
      BY <2>2, <3>1
    <3> QED
      BY <2>2, <2>3, <2>5, <3>1, <3>2 DEF Covers, PushedTo
  <2> QED
    BY <2>4, <2>5
<1>2. CsvInv => ParsesEverything
  BY <1>1 DEF ParsesEverything
<1> QED
  BY <1>2, CsvInvariant, PTL

----------------------------------------------------------------------------
(* Early abort keeps an exact number of batches.                           *)

\* The batches that fit: those announced while count <= EndRows.
Quota == EndRows \div BatchSize + 1

\* `count` is a multiple of BatchSize, and what is kept is all that fits.
QuotaInv ==
  /\ count = delivered * BatchSize
  /\ Limited /\ BatchSize > 0 =>
       Len(chunks) = IF delivered < Quota THEN delivered ELSE Quota

\* Multiplying by a batch size keeps the order, and counting one more batch
\* adds one batch size.
LEMMA TimesOrder ==
  ASSUME NEW m \in Nat, NEW n \in Nat, NEW size \in Nat, m <= n
  PROVE  m * size <= n * size
BY SMT

\* One more batch of n lines.
LEMMA TimesNext ==
  ASSUME NEW n \in Nat, NEW size \in Nat
  PROVE  (n + 1) * size = n * size + size /\ n * size \in Nat
BY SMT

\* A quotient, rounded down.
LEMMA DivBounds ==
  ASSUME NEW limit \in Nat, NEW size \in Nat \ {0}
  PROVE  /\ limit \div size \in Nat
         /\ (limit \div size) * size <= limit
         /\ limit < (limit \div size + 1) * size
BY SMT

\* A number of whole batches is within the limit just if it is below the quota.
LEMMA WithinQuota ==
  ASSUME NEW n \in Nat, BatchSize > 0
  PROVE  /\ Quota \in Nat \ {0}
         /\ n * BatchSize <= EndRows <=> n < Quota
<1> DEFINE fit == EndRows \div BatchSize
<1>1. BatchSize \in Nat \ {0} /\ BatchSize \in Nat /\ EndRows \in Nat
  BY BatchSizeAssumption, EndRowsAssumption
<1>2. fit \in Nat /\ fit * BatchSize <= EndRows /\ EndRows < (fit + 1) * BatchSize
  BY <1>1, DivBounds
<1> HIDE DEF fit
<1>3. /\ fit * BatchSize \in Nat /\ (fit + 1) * BatchSize \in Nat /\ n * BatchSize \in Nat
      /\ fit + 1 \in Nat
  BY <1>1, <1>2, TimesNext
<1>4. CASE n <= fit
  <2>1. n * BatchSize <= fit * BatchSize
    BY <1>1, <1>2, <1>4, TimesOrder
  <2>2. n * BatchSize <= EndRows
    BY <1>1, <1>2, <1>3, <2>1
  <2> QED
    BY <1>2, <1>4, <2>2 DEF Quota, fit
<1>5. CASE fit + 1 <= n
  <2>1. (fit + 1) * BatchSize <= n * BatchSize
    BY <1>1, <1>3, <1>5, TimesOrder
  <2>2. ~(n * BatchSize <= EndRows)
    BY <1>1, <1>2, <1>3, <2>1
  <2> QED
    BY <1>2, <1>5, <2>2 DEF Quota, fit
<1> QED
  BY <1>2, <1>4, <1>5

\* No line has been counted at first.
LEMMA QuotaInitial == Init => QuotaInv
<1> SUFFICES ASSUME Init PROVE QuotaInv
  OBVIOUS
<1>1. delivered = 0 /\ count = 0 /\ chunks = <<>>
  BY DEF Init, BatcherInit
<1>2. BatchSize > 0 => 0 < Quota
  BY WithinQuota
<1>3. count = delivered * BatchSize
  BY <1>1, BatchSizeAssumption
<1> QED
  BY <1>1, <1>2, <1>3 DEF QuotaInv

\* Every step keeps the count of the lines.
LEMMA QuotaInductive ==
  ASSUME CsvInv, QuotaInv, [Next]_vars PROVE QuotaInv'
<1>1. ASSUME UNCHANGED <<count, delivered, chunks>> PROVE QuotaInv'
  BY <1>1 DEF QuotaInv
<1>2. CASE Batch
  <2>1. UNCHANGED <<count, chunks>> /\ BatcherStep
    BY <1>2 DEF Batch, consumerVars
  <2>2. delivered' = delivered
    BY <2>1 DEF BatcherStep, Transform, SourceData, SourceEnd, SourceFail, StartChunk,
                SkipByte, CountLine, CutBatch, EndChunk, Flush, Finish
  <2> QED
    BY <1>1, <2>1, <2>2
<1>3. CASE OnEnd
  BY <1>1, <1>3 DEF OnEnd, batcherVars
<1>4. CASE UNCHANGED vars
  BY <1>1, <1>4 DEF vars, batcherVars, consumerVars
<1>5. CASE OnData
  <2>1. /\ delivered' = delivered + 1 /\ count' = count + BatchSize
        /\ chunks' = IF WithinLimit THEN Append(chunks, pushed[delivered + 1]) ELSE chunks
        /\ delivered < Len(pushed)
    BY <1>5 DEF OnData, Data
  <2>2. /\ delivered \in Nat /\ chunks \in Seq(Seq(Slice)) /\ BatchSize \in Nat
        /\ pushed[delivered + 1] \in Seq(Slice)
    <3>1. delivered \in 0 .. Len(pushed) /\ pushed \in Seq(Seq(Slice))
      BY DEF CsvInv, TypeOK, BatcherTypeOK
    <3> QED
      BY <2>1, <3>1, BatchSizeAssumption DEF CsvInv, TypeOK
  <2>3. count = delivered * BatchSize
    BY DEF QuotaInv
  <2>4. count' = delivered' * BatchSize
    BY <2>1, <2>2, <2>3, TimesNext
  <2>5. ASSUME Limited, BatchSize > 0
        PROVE  Len(chunks') = IF delivered' < Quota THEN delivered' ELSE Quota
    <3>1. Len(chunks) = IF delivered < Quota THEN delivered ELSE Quota
      BY <2>5 DEF QuotaInv
    <3>2. Quota \in Nat \ {0} /\ (WithinLimit <=> delivered < Quota)
      BY <2>2, <2>3, <2>5, WithinQuota DEF WithinLimit
    <3>3. Len(chunks') = IF WithinLimit THEN Len(chunks) + 1 ELSE Len(chunks)
      BY <2>1, <2>2
    <3> QED
      BY <2>1, <2>2, <3>1, <3>2, <3>3
  <2> QED
    BY <2>4, <2>5 DEF QuotaInv
<1> QED
  BY <1>2, <1>3, <1>4, <1>5 DEF Next, Quiet

\* Early abort parses exactly the first EndRows \div BatchSize + 1 batches, or
\* all of them if there are fewer.
THEOREM CsvKeepsFirstBatches == Spec => []KeepsFirstBatches
<1>1. ASSUME CsvInv, QuotaInv, promise = "resolved", Limited, BatchSize > 0
      PROVE  Len(parsed) = IF Len(pushed) < Quota THEN Len(pushed) ELSE Quota
  BY <1>1 DEF CsvInv, EndedInv, QuotaInv
<1>2. CsvInv /\ QuotaInv => KeepsFirstBatches
  BY <1>1 DEF KeepsFirstBatches, Quota
<1>3. Init => QuotaInv
  BY QuotaInitial
<1>4. CsvInv /\ QuotaInv /\ [Next]_vars => QuotaInv'
  BY QuotaInductive
<1> QED
  BY <1>2, <1>3, <1>4, CsvInvariant, PTL DEF Spec

----------------------------------------------------------------------------
(* readCSVStream implements StreamRead.                                    *)

\* What was kept is the first bytes of the stream, and of what was sent; all of
\* them when nothing was left out.
LEMMA KeptBytes ==
  ASSUME CsvInv
  PROVE  /\ CoversTo(chunks) \in Nat /\ CoversTo(chunks) <= sent
         /\ Bytes(chunks) = [p \in 1 .. CoversTo(chunks) |-> p]
         /\ Len(Bytes(chunks)) = CoversTo(chunks)
<1>1. /\ BatcherInv /\ chunks \in Seq(Seq(Slice)) /\ Len(chunks) <= Len(pushed)
      /\ \A k \in 1 .. Len(chunks) : chunks[k] = pushed[k]
  <2>1. /\ pushed \in Seq(Seq(Slice)) /\ delivered \in 0 .. Len(pushed)
        /\ chunks \in Seq(Seq(Slice)) /\ Len(chunks) <= delivered
    BY DEF CsvInv, TypeOK, BatcherTypeOK, KeptInv
  <2>2. Len(chunks) <= Len(pushed)
    BY <2>1
  <2>3. BatcherInv /\ \A k \in 1 .. Len(chunks) : chunks[k] = pushed[k]
    BY DEF CsvInv, KeptInv
  <2> QED
    BY <2>1, <2>2, <2>3
<1>2. FromTheStart(chunks) /\ CoversTo(chunks) <= sent
  BY <1>1, PrefixOfPushed
<1> QED
  BY <1>2, BytesOfBatches

\* Without a limit, what was read to the end of the source was kept.
LEMMA KeptEverything ==
  ASSUME CsvInv, Exhausted, ~Limited
  PROVE  CoversTo(chunks) = sent /\ source = "ended"
<1>1. WithinLimit
  BY DEF WithinLimit
<1>2. flushed /\ delivered = Len(pushed) /\ ~errored
  BY DEF Exhausted
<1>3. PushedTo = Len(bytes)
  BY <1>1, <1>2, FlushedToTheEnd
<1>4. /\ Len(chunks) = Len(pushed) /\ chunks \in Seq(Seq(Slice)) /\ pushed \in Seq(Seq(Slice))
      /\ \A k \in 1 .. Len(chunks) : chunks[k] = pushed[k]
  BY <1>1, <1>2 DEF CsvInv, TypeOK, BatcherTypeOK, KeptInv
<1>5. CoversTo(chunks) = PushedTo
  <2>1. CASE chunks = <<>>
    BY <1>4, <2>1 DEF CoversTo, PushedTo
  <2>2. CASE chunks # <<>>
    <3>1. Len(chunks) \in 1 .. Len(chunks) /\ pushed # <<>>
      BY <1>4, <2>2
    <3> QED
      BY <1>4, <2>2, <3>1 DEF CoversTo, PushedTo
  <2> QED
    BY <2>1, <2>2
<1>6. source = "ended" /\ sent = Len(bytes)
  <2>1. ending
    BY <1>2 DEF CsvInv, BatcherInv, OrderInv
  <2> QED
    BY <1>1, <2>1 DEF CsvInv, EndingInv
<1> QED
  BY <1>3, <1>5, <1>6

\* The value StreamRead sees.
ValueRead == IF promise = "resolved" THEN Bytes(parsed) ELSE <<>>

\* The reader starts as the promise does.
LEMMA CsvStartsAsPromised == Init => Promise!Init
<1> SUFFICES ASSUME Init PROVE Promise!Init
  OBVIOUS
<1>1. sent = 0 /\ source = "flowing" /\ promise = "pending"
  BY DEF Init, BatcherInit
<1> QED
  BY <1>1 DEF Promise!Init

\* A batcher step is bytes arriving, the source closing, or nothing to the
\* caller.
LEMMA BatchAsPromised ==
  ASSUME CsvInv, Batch PROVE [Promise!Next]_Promise!vars
<1>1. BatcherStep /\ UNCHANGED <<promise, parsed>>
  BY DEF Batch, consumerVars
<1>2. ValueRead' = ValueRead
  BY <1>1 DEF ValueRead
<1>3. ASSUME NEW n \in 1 .. Len(bytes), SourceData(n) PROVE Promise!Next
  <2>1. source = "flowing" /\ source' = source /\ sent' = sent + n /\ sent \in Nat /\ n \in Nat
    BY <1>3, StreamsAssumption DEF SourceData, CsvInv, TypeOK, BatcherTypeOK, Offset
  <2>2. sent' \in Nat /\ sent' > sent
    BY <1>3, <2>1
  <2>3. Promise!Arrive
    BY <1>1, <1>2, <2>1, <2>2 DEF Promise!Arrive, ValueRead
  <2> QED
    BY <2>3 DEF Promise!Next
<1>4. CASE SourceEnd \/ SourceFail
  <2>1. source' # "flowing" /\ sent' = sent
    BY <1>4 DEF SourceEnd, SourceFail
  <2>2. Promise!Close
    BY <1>1, <1>2, <2>1 DEF Promise!Close, ValueRead
  <2> QED
    BY <2>2 DEF Promise!Next
<1>5. CASE Transform \/ Flush \/ Finish
  <2>1. UNCHANGED <<sent, source>>
    BY <1>5 DEF Transform, StartChunk, SkipByte, CountLine, CutBatch, EndChunk, Flush,
                Finish, sourceVars
  <2> QED
    BY <1>1, <1>2, <2>1 DEF Promise!vars, ValueRead
<1> QED
  BY <1>1, <1>3, <1>4, <1>5 DEF BatcherStep

\* The 'end' handler resolves with what StreamRead allows, or rejects.
LEMMA OnEndAsPromised ==
  ASSUME CsvInv, OnEnd PROVE Promise!Next
<1>1. /\ Exhausted /\ ~ended /\ parsed' = chunks
      /\ promise' \in {"resolved", "rejected"}
      /\ UNCHANGED <<sent, source>>
  BY DEF OnEnd, batcherVars, sourceVars
<1>2. promise = "pending"
  BY <1>1 DEF CsvInv, EndedInv
<1>3. ValueRead = <<>>
  BY <1>2 DEF ValueRead
<1>4. CASE promise' = "rejected"
  <2>1. ValueRead' = <<>>
    BY <1>4 DEF ValueRead
  <2>2. Promise!Reject
    BY <1>1, <1>2, <1>3, <1>4, <2>1 DEF Promise!Reject, ValueRead
  <2> QED
    BY <2>2 DEF Promise!Next
<1>5. CASE promise' = "resolved"
  <2>1. ValueRead' = Bytes(chunks)
    BY <1>1, <1>5 DEF ValueRead
  <2>2. /\ CoversTo(chunks) <= sent
        /\ ValueRead' = [p \in 1 .. Len(ValueRead') |-> p]
        /\ Len(ValueRead') = CoversTo(chunks)
    BY <2>1, KeptBytes
  <2>3. Limited \/ (source # "flowing" /\ Len(ValueRead') = sent)
    BY <1>1, <2>2, KeptEverything
  <2>4. Promise!Resolve
    BY <1>1, <1>2, <1>5, <2>2, <2>3 DEF Promise!Resolve, ValueRead
  <2> QED
    BY <2>4 DEF Promise!Next
<1> QED
  BY <1>1, <1>4, <1>5

\* The other steps are steps of the promise, or change nothing it sees.
LEMMA OtherStepsAsPromised ==
  ASSUME CsvInv, OnData \/ UNCHANGED vars PROVE UNCHANGED Promise!vars
<1>1. UNCHANGED <<sent, source, promise, parsed>>
  BY DEF OnData, Data, vars, batcherVars, consumerVars, sourceVars
<1> QED
  BY <1>1 DEF Promise!vars

\* readCSVStream implements StreamRead, for every stream, chunking and limit:
\* its promise settles at most once, with the stream's own first bytes in order,
\* and without endRows only after the stream has ended and with all of it.
THEOREM CsvKeepsPromise == Spec => KeepsPromise
<1>1. Init => Promise!Init
  BY CsvStartsAsPromised
<1>2. CsvInv /\ [Next]_vars => [Promise!Next]_Promise!vars
  <2> SUFFICES ASSUME CsvInv, [Next]_vars PROVE [Promise!Next]_Promise!vars
    OBVIOUS
  <2>1. CASE Batch
    BY <2>1, BatchAsPromised
  <2>2. CASE OnEnd
    BY <2>2, OnEndAsPromised
  <2>3. CASE OnData \/ UNCHANGED vars
    BY <2>3, OtherStepsAsPromised
  <2> QED
    BY <2>1, <2>2, <2>3 DEF Next, Quiet
<1> QED
  BY <1>1, <1>2, CsvInvariant, PTL DEF Spec, KeepsPromise, Promise!Spec
=============================================================================
