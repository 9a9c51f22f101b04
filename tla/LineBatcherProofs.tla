------------------------- MODULE LineBatcherProofs -------------------------
(***************************************************************************)
(* The inductive invariant of the line batcher, for every stream, batch    *)
(* size and chunking, whatever its consumer does; and what Buffer.concat   *)
(* of its batches is: all the bytes of the stream up to where the last     *)
(* batch stops, each of them once and in order.                            *)
(***************************************************************************)
EXTENDS LineBatcher, ByteRuns, SequenceLemmas, FiniteSetTheorems

\* How far the batcher has read, how far it has accepted, and where the bytes
\* start that it has not pushed.
ScannedTo   == IF Transforming THEN i ELSE begin
AcceptedTo  == IF Transforming THEN chunk.to ELSE begin
PendingFrom == IF lines = <<>> THEN begin ELSE Start(lines)

\* The writable side holds the bytes between what was accepted and what was
\* sent; a write after end() loses its chunk, and with it the stream.
WritableInv ==
  /\ AcceptedTo <= sent
  /\ \A k \in 1 .. Len(writable) :
       writable[k].from < writable[k].to /\ writable[k].to <= sent
  /\ \A k \in 1 .. Len(writable) - 1 : writable[k].to = writable[k + 1].from
  /\ writable # <<>> => writable[1].from = AcceptedTo
  /\ ~errored => sent = IF writable = <<>> THEN AcceptedTo ELSE Stop(writable)

\* The loop of _transform stays inside its chunk.
ChunkInv ==
  /\ Transforming => begin <= i /\ i <= chunk.to
  /\ PendingFrom <= begin

\* #accumulatedLines is the number of newlines that are read and not pushed.
CountInv == ~flushed => accumulatedLines = NewlinesIn(PendingFrom, ScannedTo)

\* _flush runs last, and an error detaches pipe().
OrderInv ==
  /\ flushed => ending /\ ~Transforming /\ writable = <<>>
  /\ errored => ~piped

BatcherInv ==
  /\ BatcherTypeOK
  /\ WritableInv
  /\ ChunkInv
  /\ CountInv
  /\ OrderInv
  /\ NoByteLost
  /\ WholeLines

\* A step of the batcher or of its consumer.
BatcherNext ==
  \/ BatcherStep
  \/ \E stop \in BOOLEAN : Data(stop)
  \/ UNCHANGED batcherVars

----------------------------------------------------------------------------

\* Reading one more byte adds it to the newlines read, or not.
LEMMA NewlinesStep ==
  ASSUME NEW from \in Nat, NEW to \in Nat, from <= to
  PROVE  NewlinesIn(from, to + 1) =
           NewlinesIn(from, to) + (IF bytes[to + 1] = Newline THEN 1 ELSE 0)
<1> DEFINE Old == {p \in from + 1 .. to : bytes[p] = Newline}
           New == {p \in from + 1 .. to + 1 : bytes[p] = Newline}
<1>1. IsFiniteSet(Old)
  <2>1. IsFiniteSet(from + 1 .. to)
    BY FS_Interval
  <2>2. Old \subseteq from + 1 .. to
    OBVIOUS
  <2> QED
    BY <2>1, <2>2, FS_Subset
<1>2. CASE bytes[to + 1] = Newline
  <2>1. New = Old \cup {to + 1} /\ to + 1 \notin Old
    BY <1>2
  <2>2. Cardinality(New) = Cardinality(Old) + 1
    BY <1>1, <2>1, FS_AddElement
  <2> QED
    BY <1>2, <2>2 DEF NewlinesIn
<1>3. CASE bytes[to + 1] # Newline
  <2>1. New = Old
    BY <1>3
  <2>2. Cardinality(Old) \in Nat
    BY <1>1, FS_CardinalityType
  <2> QED
    BY <1>3, <2>1, <2>2 DEF NewlinesIn
<1> QED
  BY <1>2, <1>3

\* Nothing was read between an offset and itself.
LEMMA NewlinesNone == ASSUME NEW from \in Nat PROVE NewlinesIn(from, from) = 0
<1>1. {p \in from + 1 .. from : bytes[p] = Newline} = {}
  OBVIOUS
<1> QED
  BY <1>1, FS_EmptySet DEF NewlinesIn

\* Nothing has been read at first.
LEMMA BatcherInitial == BatcherInit => BatcherInv
<1> SUFFICES ASSUME BatcherInit PROVE BatcherInv
  OBVIOUS
<1> USE StreamsAssumption, BatchSizeAssumption
<1>1. Len(bytes) \in Nat
  BY DEF BatcherInit
<1>2. BatcherTypeOK
  <2>1. sent \in Offset /\ i \in Offset /\ begin \in Offset
    BY <1>1 DEF BatcherInit, Offset
  <2>2. chunk \in Slice
    BY DEF BatcherInit, Slice, NoChunk
  <2>3. writable \in Seq(Slice) /\ lines \in Seq(Slice) /\ pushed \in Seq(Seq(Slice))
    BY DEF BatcherInit
  <2>4. accumulatedLines \in Nat /\ (BatchSize > 0 => accumulatedLines < BatchSize)
    BY DEF BatcherInit
  <2>5. delivered \in 0 .. Len(pushed)
    BY DEF BatcherInit
  <2> QED
    BY <2>1, <2>2, <2>3, <2>4, <2>5 DEF BatcherInit, BatcherTypeOK
<1>3. WritableInv /\ ChunkInv /\ OrderInv
  BY DEF BatcherInit, WritableInv, ChunkInv, OrderInv, AcceptedTo, PendingFrom,
         Transforming, NoChunk
<1>4. NoByteLost /\ WholeLines
  BY DEF BatcherInit, NoByteLost, WholeLines, Contiguous, PushedTo
<1>5. CountInv
  BY NewlinesNone DEF BatcherInit, CountInv, PendingFrom, ScannedTo, Transforming,
     NoChunk
<1> QED
  BY <1>2, <1>3, <1>4, <1>5 DEF BatcherInv

\* The promises about bytes speak of the stream, the batches and #lines alone.
LEMMA BatchesUntouched ==
  ASSUME BatcherInv,
         bytes' = bytes, begin' = begin, lines' = lines, pushed' = pushed,
         flushed' = flushed
  PROVE  NoByteLost' /\ WholeLines'
<1>1. NoByteLost'
  BY DEF BatcherInv, NoByteLost, Contiguous, PushedTo, Start, Stop
<1>2. WholeLines'
  BY DEF BatcherInv, WholeLines, NewlinesIn, Start, Stop
<1> QED
  BY <1>1, <1>2

\* Nor do the counters when the running chunk is left alone too.
LEMMA BytesUntouched ==
  ASSUME BatcherInv,
         UNCHANGED <<bytes, privateVars, pushed, flushed>>
  PROVE  ChunkInv' /\ CountInv' /\ NoByteLost' /\ WholeLines'
<1>1. ChunkInv'
  BY DEF BatcherInv, ChunkInv, PendingFrom, Start, Transforming, privateVars
<1>2. CountInv'
  BY DEF BatcherInv, CountInv, PendingFrom, ScannedTo, Start, Transforming,
         NewlinesIn, privateVars
<1>3. NoByteLost' /\ WholeLines'
  BY BatchesUntouched DEF privateVars
<1> QED
  BY <1>1, <1>2, <1>3

\* The source delivers a chunk.
LEMMA SourceDataPreserves ==
  ASSUME BatcherInv, NEW n \in 1 .. Len(bytes), SourceData(n)
  PROVE  BatcherInv'
<1> DEFINE emitted == [from |-> sent, to |-> sent + n]
<1>1. /\ n \in Nat /\ n > 0 /\ Len(bytes) \in Nat /\ sent \in Nat
      /\ writable \in Seq(Slice) /\ sent + n <= Len(bytes)
  BY StreamsAssumption DEF BatcherInv, BatcherTypeOK, Offset, SourceData
<1>2. emitted \in Slice
  BY <1>1 DEF Slice
<1>3. UNCHANGED <<bytes, source, ending, privateVars, pushed, delivered, flushed>>
  BY DEF SourceData
<1>4. sent' = sent + n /\ sent' \in Offset' /\ ~Transforming
  BY <1>1 DEF SourceData, Offset
<1>7. \A k \in 1 .. Len(writable) : writable[k].from \in Nat /\ writable[k].to \in Nat
  <2>1. \A k \in 1 .. Len(writable) : writable[k] \in Slice
    BY <1>1
  <2> QED
    BY <2>1 DEF Slice
<1>5. CASE ending
  <2>1. errored' = TRUE /\ piped' = FALSE /\ writable' = writable
    BY <1>5 DEF SourceData
  <2>2. BatcherTypeOK'
    BY <1>3, <1>4, <2>1 DEF BatcherInv, BatcherTypeOK, Offset, privateVars
  <2>3. WritableInv'
    <3>1. AcceptedTo' = AcceptedTo
      BY <1>3 DEF AcceptedTo, Transforming, privateVars
    <3>2. AcceptedTo \in Nat
      BY DEF BatcherInv, BatcherTypeOK, AcceptedTo, Slice, Offset
    <3>3. AcceptedTo <= sent /\ AcceptedTo <= sent'
      BY <1>1, <1>4, <3>2 DEF BatcherInv, WritableInv
    <3>4. \A k \in 1 .. Len(writable) :
            writable[k].from < writable[k].to /\ writable[k].to <= sent'
      <4> TAKE k \in 1 .. Len(writable)
      <4>1. writable[k].from < writable[k].to /\ writable[k].to <= sent
        BY DEF BatcherInv, WritableInv
      <4> QED
        BY <1>1, <1>4, <1>7, <4>1
    <3> QED
      BY <2>1, <3>1, <3>3, <3>4 DEF BatcherInv, WritableInv
  <2>4. OrderInv'
    BY <1>3, <2>1 DEF BatcherInv, OrderInv, Transforming, privateVars
  <2> QED
    BY <1>3, <2>2, <2>3, <2>4, BytesUntouched DEF BatcherInv
<1>6. CASE ~ending
  <2>1. errored' = errored /\ piped' = piped /\ writable' = Append(writable, emitted)
    BY <1>6 DEF SourceData
  <2>2. BatcherTypeOK'
    <3>1. writable' \in Seq(Slice)
      BY <1>1, <1>2, <2>1
    <3> QED
      BY <1>1, <1>3, <1>4, <2>1, <3>1 DEF BatcherInv, BatcherTypeOK, Offset, privateVars
  <2>3. WritableInv'
    <3>1. ~errored
      BY DEF SourceData, BatcherInv, OrderInv
    <3>2. AcceptedTo' = AcceptedTo
      BY <1>3 DEF AcceptedTo, Transforming, privateVars
    <3>3. AcceptedTo \in Nat /\ AcceptedTo <= sent'
      BY <1>1, <1>4 DEF BatcherInv, BatcherTypeOK, WritableInv, AcceptedTo,
         Transforming, Offset
    <3>4. sent = IF writable = <<>> THEN AcceptedTo ELSE Stop(writable)
      BY <3>1 DEF BatcherInv, WritableInv
    <3>5. /\ Len(writable') = Len(writable) + 1
          /\ \A k \in 1 .. Len(writable) : writable'[k] = writable[k]
          /\ writable'[Len(writable) + 1] = emitted
      BY <1>1, <2>1
    <3>6. \A k \in 1 .. Len(writable') :
            writable'[k].from < writable'[k].to /\ writable'[k].to <= sent'
      <4> TAKE k \in 1 .. Len(writable')
      <4>1. CASE k = Len(writable) + 1
        BY <1>1, <1>4, <3>5, <4>1
      <4>2. CASE k \in 1 .. Len(writable)
        <5>1. writable[k].from < writable[k].to /\ writable[k].to <= sent
          BY <4>2 DEF BatcherInv, WritableInv
        <5> QED
          BY <1>1, <1>4, <1>7, <3>5, <4>2, <5>1
      <4> QED
        BY <1>1, <3>5, <4>1, <4>2
    <3>7. \A k \in 1 .. Len(writable') - 1 : writable'[k].to = writable'[k + 1].from
      <4> TAKE k \in 1 .. Len(writable') - 1
      <4>1. k \in 1 .. Len(writable) /\ writable'[k] = writable[k]
        BY <1>1, <3>5
      <4>2. CASE k = Len(writable)
        <5>1. writable # <<>> /\ writable[k].to = sent
          BY <1>1, <3>4, <4>1, <4>2 DEF Stop
        <5> QED
          BY <3>5, <4>1, <4>2, <5>1
      <4>3. CASE k # Len(writable)
        <5>1. k \in 1 .. Len(writable) - 1 /\ k + 1 \in 1 .. Len(writable)
          BY <1>1, <4>1, <4>3
        <5>2. writable[k].to = writable[k + 1].from
          BY <5>1 DEF BatcherInv, WritableInv
        <5> QED
          BY <3>5, <4>1, <5>1, <5>2
      <4> QED
        BY <4>2, <4>3
    <3>8. writable'[1].from = AcceptedTo /\ Stop(writable') = sent'
      BY <1>1, <1>4, <3>4, <3>5 DEF BatcherInv, WritableInv, Stop
    <3> QED
      BY <1>1, <2>1, <3>2, <3>3, <3>5, <3>6, <3>7, <3>8 DEF WritableInv, Stop
  <2>4. OrderInv'
    BY <1>3, <1>6, <2>1 DEF BatcherInv, OrderInv, Transforming, privateVars
  <2> QED
    BY <1>3, <2>2, <2>3, <2>4, BytesUntouched DEF BatcherInv
<1> QED
  BY <1>5, <1>6

\* The source ends.
LEMMA SourceEndPreserves ==
  ASSUME BatcherInv, SourceEnd PROVE BatcherInv'
<1> USE DEF SourceEnd
<1>1. BatcherTypeOK'
  BY DEF BatcherInv, BatcherTypeOK, Offset, privateVars
<1>2. ChunkInv' /\ CountInv' /\ NoByteLost' /\ WholeLines'
  BY BytesUntouched DEF privateVars
<1>3. WritableInv' /\ OrderInv'
  BY DEF BatcherInv, WritableInv, OrderInv, AcceptedTo, Transforming, Stop, privateVars
<1> QED
  BY <1>1, <1>2, <1>3 DEF BatcherInv

\* The source fails.
LEMMA SourceFailPreserves ==
  ASSUME BatcherInv, SourceFail PROVE BatcherInv'
<1> USE DEF SourceFail
<1>1. BatcherTypeOK'
  BY DEF BatcherInv, BatcherTypeOK, Offset, privateVars
<1>2. ChunkInv' /\ CountInv' /\ NoByteLost' /\ WholeLines'
  BY BytesUntouched DEF privateVars
<1>3. WritableInv' /\ OrderInv'
  BY DEF BatcherInv, WritableInv, OrderInv, AcceptedTo, Transforming, Stop, privateVars
<1> QED
  BY <1>1, <1>2, <1>3 DEF BatcherInv

\* 'finish' detaches the batcher from its source.
LEMMA FinishPreserves ==
  ASSUME BatcherInv, Finish PROVE BatcherInv'
<1> USE DEF Finish
<1>1. BatcherTypeOK'
  BY DEF BatcherInv, BatcherTypeOK, Offset, privateVars, sourceVars
<1>2. ChunkInv' /\ CountInv' /\ NoByteLost' /\ WholeLines'
  BY BytesUntouched DEF privateVars, sourceVars
<1>3. WritableInv' /\ OrderInv'
  BY DEF BatcherInv, WritableInv, OrderInv, AcceptedTo, Transforming, Stop, privateVars,
         sourceVars
<1> QED
  BY <1>1, <1>2, <1>3 DEF BatcherInv

\* 'data' announces a batch.
LEMMA DataPreserves ==
  ASSUME BatcherInv, NEW stop \in BOOLEAN, Data(stop) PROVE BatcherInv'
<1> USE DEF Data
<1>1. BatcherTypeOK'
  BY DEF BatcherInv, BatcherTypeOK, Offset, privateVars, sourceVars
<1>2. ChunkInv' /\ CountInv' /\ NoByteLost' /\ WholeLines'
  BY BytesUntouched DEF privateVars, sourceVars
<1>3. WritableInv' /\ OrderInv'
  BY DEF BatcherInv, WritableInv, OrderInv, AcceptedTo, Transforming, Stop, privateVars,
         sourceVars
<1> QED
  BY <1>1, <1>2, <1>3 DEF BatcherInv

\* A sequence that is not empty has one element or more than one.
LEMMA OneOrMore ==
  ASSUME NEW S, NEW w \in Seq(S), w # <<>>
  PROVE  Len(w) = 1 \/ Len(w) >= 2
<1>1. Len(w) \in Nat /\ Len(w) # 0
  OBVIOUS
<1>2. \A n \in Nat : n # 0 => n = 1 \/ n >= 2
  OBVIOUS
<1> QED
  BY <1>1, <1>2, Zenon

\* _transform begins with a chunk.
LEMMA StartChunkPreserves ==
  ASSUME BatcherInv, StartChunk PROVE BatcherInv'
<1>1. /\ writable \in Seq(Slice) /\ writable # <<>> /\ Len(writable) \in Nat /\ Len(writable) > 0
      /\ begin \in Nat /\ sent \in Nat /\ Len(bytes) \in Nat /\ sent <= Len(bytes)
  BY StreamsAssumption DEF BatcherInv, BatcherTypeOK, StartChunk, Offset
<1>2. /\ ~Transforming /\ ~errored
      /\ chunk' = writable[1] /\ i' = writable[1].from /\ begin' = writable[1].from
      /\ UNCHANGED <<bytes, sent, source, piped, ending, lines, accumulatedLines,
                     pushed, delivered, flushed, errored>>
  BY <1>1 DEF StartChunk, sourceVars
<1>3. /\ writable' \in Seq(Slice)
      /\ Len(writable') = Len(writable) - 1
      /\ \A k \in 1 .. Len(writable') : writable'[k] = writable[k + 1]
  BY <1>1 DEF StartChunk
<1>4. \A k \in 1 .. Len(writable) :
        /\ writable[k] \in Slice
        /\ writable[k].from \in Nat /\ writable[k].to \in Nat
        /\ writable[k].from < writable[k].to /\ writable[k].to <= sent
  <2>1. \A k \in 1 .. Len(writable) : writable[k] \in Slice
    BY <1>1
  <2> QED
    BY <2>1 DEF BatcherInv, WritableInv, Slice
<1>5. /\ chunk' \in Slice
      /\ begin' = begin /\ i' = begin
      /\ begin < chunk'.to /\ chunk'.to <= sent /\ chunk'.to \in Nat
  <2>1. writable[1].from = begin
    BY <1>1, <1>2 DEF BatcherInv, WritableInv, AcceptedTo
  <2> QED
    BY <1>1, <1>2, <1>4, <2>1
<1>6. Transforming'
  BY <1>1, <1>5 DEF Transforming, NoChunk
<1>7. BatcherTypeOK'
  BY <1>1, <1>2, <1>3, <1>5 DEF BatcherInv, BatcherTypeOK, Offset
<1>8. WritableInv'
  <2>1. AcceptedTo' = chunk'.to
    BY <1>6 DEF AcceptedTo
  <2>2. writable' = <<>> \/ writable'[1].from = chunk'.to
    <3>1. CASE Len(writable) = 1
      BY <1>3, <3>1
    <3>2. CASE Len(writable) >= 2
      <4>1. writable[1].to = writable[2].from
        BY <1>1, <3>2 DEF BatcherInv, WritableInv
      <4> QED
        BY <1>1, <1>2, <1>3, <3>2, <4>1
    <3>3. Len(writable) = 1 \/ Len(writable) >= 2
      BY <1>1, OneOrMore
    <3> QED
      BY <3>1, <3>2, <3>3
  <2>3. \A k \in 1 .. Len(writable') - 1 : writable'[k].to = writable'[k + 1].from
    <3> TAKE k \in 1 .. Len(writable') - 1
    <3>1. writable[k + 1].to = writable[k + 2].from
      BY <1>1, <1>3 DEF BatcherInv, WritableInv
    <3> QED
      BY <1>1, <1>3, <3>1
  <2>4. sent = IF writable' = <<>> THEN chunk'.to ELSE Stop(writable')
    <3>1. sent = writable[Len(writable)].to
      BY <1>1, <1>2 DEF BatcherInv, WritableInv, Stop
    <3>2. CASE Len(writable) = 1
      BY <1>1, <1>2, <1>3, <3>1, <3>2
    <3>3. CASE Len(writable) >= 2
      BY <1>1, <1>3, <3>1, <3>3 DEF Stop
    <3>4. Len(writable) = 1 \/ Len(writable) >= 2
      BY <1>1, OneOrMore
    <3> QED
      BY <3>2, <3>3, <3>4
  <2>5. \A k \in 1 .. Len(writable') :
          writable'[k].from < writable'[k].to /\ writable'[k].to <= sent
    BY <1>1, <1>3, <1>4
  <2> QED
    BY <1>2, <1>5, <2>1, <2>2, <2>3, <2>4, <2>5 DEF WritableInv, Stop
<1>9. ChunkInv'
  BY <1>1, <1>2, <1>5, <1>6 DEF BatcherInv, ChunkInv, PendingFrom, Start
<1>10. CountInv'
  BY <1>2, <1>5, <1>6
  DEF BatcherInv, CountInv, PendingFrom, ScannedTo, Start, NewlinesIn
<1>11. OrderInv'
  BY <1>1, <1>2 DEF BatcherInv, OrderInv
<1>12. NoByteLost' /\ WholeLines'
  BY <1>2, <1>5, BatchesUntouched
<1> QED
  BY <1>7, <1>8, <1>9, <1>10, <1>11, <1>12 DEF BatcherInv

\* What one iteration of the loop changes: at most the counters and the batches.
LEMMA ScanTypes ==
  ASSUME BatcherInv, Transforming, i < chunk.to
  PROVE  /\ i \in Nat /\ begin \in Nat /\ begin <= i /\ i + 1 <= Len(bytes)
         /\ chunk.to \in Nat /\ Len(bytes) \in Nat
         /\ lines \in Seq(Slice) /\ pushed \in Seq(Seq(Slice))
         /\ ~flushed
         /\ PendingFrom \in Nat /\ PendingFrom <= begin
         /\ accumulatedLines = NewlinesIn(PendingFrom, i)
         /\ NewlinesIn(PendingFrom, i + 1) =
              accumulatedLines + (IF bytes[i + 1] = Newline THEN 1 ELSE 0)
<1>1. /\ i \in Nat /\ begin \in Nat /\ begin <= i /\ chunk.to \in Nat /\ Len(bytes) \in Nat
      /\ sent <= Len(bytes) /\ sent \in Nat
      /\ lines \in Seq(Slice) /\ pushed \in Seq(Seq(Slice))
  BY StreamsAssumption DEF BatcherInv, BatcherTypeOK, ChunkInv, Offset, Slice
<1>2. chunk.to <= sent
  BY DEF BatcherInv, WritableInv, AcceptedTo
<1>3. ~flushed
  BY DEF BatcherInv, OrderInv
<1>4. PendingFrom \in Nat /\ PendingFrom <= begin
  <2>1. lines # <<>> => lines[1] \in Slice
    BY <1>1
  <2> QED
    BY <1>1, <2>1 DEF BatcherInv, ChunkInv, PendingFrom, Start, Slice
<1>5. accumulatedLines = NewlinesIn(PendingFrom, i)
  BY <1>3 DEF BatcherInv, CountInv, ScannedTo
<1>6. PendingFrom <= i
  BY <1>1, <1>4
<1>7. NewlinesIn(PendingFrom, i + 1) =
        NewlinesIn(PendingFrom, i) + (IF bytes[i + 1] = Newline THEN 1 ELSE 0)
  BY <1>1, <1>4, <1>6, NewlinesStep
<1> QED
  BY <1>1, <1>2, <1>3, <1>4, <1>5, <1>7

\* A byte that ends no line.
LEMMA SkipBytePreserves ==
  ASSUME BatcherInv, SkipByte PROVE BatcherInv'
<1> USE DEF SkipByte
<1>1. Transforming /\ i < chunk.to
  OBVIOUS
<1>2. UNCHANGED <<bytes, sent, source, piped, writable, ending, chunk, begin, lines,
                  accumulatedLines, pushed, delivered, flushed, errored>>
  BY DEF sourceVars
<1>3. BatcherTypeOK'
  BY <1>1, <1>2, ScanTypes DEF BatcherInv, BatcherTypeOK, Offset
<1>4. WritableInv' /\ OrderInv'
  BY <1>2 DEF BatcherInv, WritableInv, OrderInv, AcceptedTo, Transforming, Stop
<1>5. ChunkInv'
  BY <1>1, <1>2, ScanTypes DEF BatcherInv, ChunkInv, PendingFrom, Transforming, Start
<1>6. CountInv'
  <2>1. NewlinesIn(PendingFrom, i + 1) = accumulatedLines
    BY <1>1, ScanTypes DEF BatcherInv, BatcherTypeOK
  <2> QED
    BY <1>1, <1>2, <2>1 DEF CountInv, PendingFrom, ScannedTo, Transforming, Start,
                             NewlinesIn
<1>7. NoByteLost' /\ WholeLines'
  BY <1>2, BatchesUntouched
<1> QED
  BY <1>3, <1>4, <1>5, <1>6, <1>7 DEF BatcherInv

\* A line ends, and the batch has room for more.
LEMMA CountLinePreserves ==
  ASSUME BatcherInv, CountLine PROVE BatcherInv'
<1> USE DEF CountLine
<1>1. Transforming /\ i < chunk.to
  OBVIOUS
<1>2. UNCHANGED <<bytes, sent, source, piped, writable, ending, chunk, begin, lines,
                  pushed, delivered, flushed, errored>>
  BY DEF sourceVars
<1>3. BatcherTypeOK'
  <2>1. accumulatedLines' \in Nat /\ (BatchSize > 0 => accumulatedLines' < BatchSize)
    BY BatchSizeAssumption DEF BatcherInv, BatcherTypeOK
  <2> QED
    BY <1>1, <1>2, <2>1, ScanTypes DEF BatcherInv, BatcherTypeOK, Offset
<1>4. WritableInv' /\ OrderInv'
  BY <1>2 DEF BatcherInv, WritableInv, OrderInv, AcceptedTo, Transforming, Stop
<1>5. ChunkInv'
  BY <1>1, <1>2, ScanTypes DEF BatcherInv, ChunkInv, PendingFrom, Transforming, Start
<1>6. CountInv'
  <2>1. NewlinesIn(PendingFrom, i + 1) = accumulatedLines + 1
    BY <1>1, ScanTypes
  <2> QED
    BY <1>1, <1>2, <2>1 DEF CountInv, PendingFrom, ScannedTo, Transforming, Start,
                             NewlinesIn
<1>7. NoByteLost' /\ WholeLines'
  BY <1>2, BatchesUntouched
<1> QED
  BY <1>3, <1>4, <1>5, <1>6, <1>7 DEF BatcherInv

\* #lines with the rest of the chunk appended is one piece of the stream.
LEMMA PendingPiece ==
  ASSUME BatcherInv, NEW upTo \in Nat, begin <= upTo,
         begin \in Nat, lines \in Seq(Slice)
  PROVE  /\ Pending(upTo) \in Seq(Slice) /\ Pending(upTo) # <<>>
         /\ Contiguous(Pending(upTo))
         /\ Start(Pending(upTo)) = PendingFrom
         /\ Stop(Pending(upTo)) = upTo
<1> DEFINE last == [from |-> begin, to |-> upTo]
<1>1. last \in Slice /\ last.from = begin /\ last.to = upTo
  BY DEF Slice
<1>2. /\ Pending(upTo) \in Seq(Slice) /\ Pending(upTo) # <<>>
      /\ Len(Pending(upTo)) = Len(lines) + 1 /\ Len(lines) \in Nat
      /\ \A k \in 1 .. Len(lines) : Pending(upTo)[k] = lines[k]
      /\ Pending(upTo)[Len(lines) + 1] = last
  BY <1>1 DEF Pending
<1>3. /\ Contiguous(lines)
      /\ lines # <<>> => lines[Len(lines)].to = begin
  BY DEF BatcherInv, NoByteLost, Stop
<1>4. \A k \in 1 .. Len(Pending(upTo)) : Pending(upTo)[k].from <= Pending(upTo)[k].to
  <2> TAKE k \in 1 .. Len(Pending(upTo))
  <2>1. CASE k \in 1 .. Len(lines)
    BY <1>2, <1>3, <2>1 DEF Contiguous
  <2>2. CASE k = Len(lines) + 1
    BY <1>1, <1>2, <2>2
  <2> QED
    BY <1>2, <2>1, <2>2
<1>5. \A k \in 1 .. Len(Pending(upTo)) - 1 :
        Pending(upTo)[k].to = Pending(upTo)[k + 1].from
  <2> TAKE k \in 1 .. Len(Pending(upTo)) - 1
  <2>1. CASE k \in 1 .. Len(lines) - 1
    <3>1. lines[k].to = lines[k + 1].from
      BY <1>3, <2>1 DEF Contiguous
    <3> QED
      BY <1>2, <2>1, <3>1
  <2>2. CASE k = Len(lines)
    <3>1. lines # <<>>
      BY <1>2, <2>2
    <3> QED
      BY <1>1, <1>2, <1>3, <2>2, <3>1
  <2> QED
    BY <1>2, <2>1, <2>2
<1>6. Start(Pending(upTo)) = PendingFrom
  <2>1. CASE lines = <<>>
    BY <1>1, <1>2, <2>1 DEF Start, PendingFrom
  <2>2. CASE lines # <<>>
    BY <1>2, <2>2 DEF Start, PendingFrom
  <2> QED
    BY <2>1, <2>2
<1> QED
  BY <1>1, <1>2, <1>4, <1>5, <1>6 DEF Contiguous, Stop

\* What Append returns, for sequences of any kind of element.
LEMMA AppendFacts ==
  ASSUME NEW S, NEW s \in Seq(S), NEW e \in S
  PROVE  /\ Append(s, e) \in Seq(S) /\ Append(s, e) # <<>>
         /\ Len(Append(s, e)) = Len(s) + 1 /\ Len(s) \in Nat
         /\ \A k \in 1 .. Len(s) : Append(s, e)[k] = s[k]
         /\ Append(s, e)[Len(s) + 1] = e
  OBVIOUS

\* Pushing a batch that continues the stream keeps the batches adjacent.
LEMMA PushContinues ==
  ASSUME BatcherInv, pushed \in Seq(Seq(Slice)),
         NEW batch \in Seq(Slice), batch # <<>>, Contiguous(batch),
         Start(batch) = PushedTo, pushed' = Append(pushed, batch)
  PROVE  /\ pushed' \in Seq(Seq(Slice))
         /\ \A k \in 1 .. Len(pushed') : pushed'[k] # <<>> /\ Contiguous(pushed'[k])
         /\ pushed' # <<>> /\ Start(pushed'[1]) = 0
         /\ \A k \in 1 .. Len(pushed') - 1 : Stop(pushed'[k]) = Start(pushed'[k + 1])
         /\ PushedTo' = Stop(batch)
         /\ Len(pushed') = Len(pushed) + 1 /\ Len(pushed) \in Nat
         /\ \A k \in 1 .. Len(pushed) : pushed'[k] = pushed[k]
         /\ pushed'[Len(pushed) + 1] = batch
<1>1. /\ pushed' \in Seq(Seq(Slice)) /\ pushed' # <<>>
      /\ Len(pushed') = Len(pushed) + 1 /\ Len(pushed) \in Nat
      /\ \A k \in 1 .. Len(pushed) : pushed'[k] = pushed[k]
      /\ pushed'[Len(pushed) + 1] = batch
  BY AppendFacts
<1>2. /\ \A k \in 1 .. Len(pushed) : pushed[k] # <<>> /\ Contiguous(pushed[k])
      /\ pushed # <<>> => Start(pushed[1]) = 0
      /\ \A k \in 1 .. Len(pushed) - 1 : Stop(pushed[k]) = Start(pushed[k + 1])
  BY DEF BatcherInv, NoByteLost
<1>3. \A k \in 1 .. Len(pushed') : pushed'[k] # <<>> /\ Contiguous(pushed'[k])
  <2> TAKE k \in 1 .. Len(pushed')
  <2>1. k \in 1 .. Len(pushed) \/ k = Len(pushed) + 1
    BY <1>1
  <2>2. CASE k \in 1 .. Len(pushed)
    <3>1. pushed'[k] = pushed[k]
      BY <1>1, <2>2
    <3> QED
      BY <1>2, <2>2, <3>1
  <2>3. CASE k = Len(pushed) + 1
    <3>1. pushed'[k] = batch
      BY <1>1, <2>3
    <3> QED
      BY <3>1
  <2> QED
    BY <2>1, <2>2, <2>3
<1>4. Start(pushed'[1]) = 0
  <2>1. CASE pushed = <<>>
    BY <1>1, <2>1 DEF PushedTo
  <2>2. CASE pushed # <<>>
    BY <1>1, <1>2, <2>2 DEF Start
  <2> QED
    BY <2>1, <2>2
<1>5. \A k \in 1 .. Len(pushed') - 1 : Stop(pushed'[k]) = Start(pushed'[k + 1])
  <2> TAKE k \in 1 .. Len(pushed') - 1
  <2>1. CASE k \in 1 .. Len(pushed) - 1
    <3>1. pushed'[k] = pushed[k] /\ pushed'[k + 1] = pushed[k + 1]
      BY <1>1, <2>1
    <3> QED
      BY <1>2, <2>1, <3>1
  <2>2. CASE k = Len(pushed)
    <3>1. pushed # <<>> /\ pushed'[k] = pushed[k] /\ pushed'[k + 1] = batch
      BY <1>1, <2>2
    <3> QED
      BY <2>2, <3>1 DEF PushedTo
  <2> QED
    BY <1>1, <2>1, <2>2
<1>6. PushedTo' = Stop(batch)
  BY <1>1 DEF PushedTo
<1> QED
  BY <1>1, <1>3, <1>4, <1>5, <1>6

\* A line ends, and the batch is full.
LEMMA CutBatchPreserves ==
  ASSUME BatcherInv, CutBatch PROVE BatcherInv'
<1> DEFINE batch == Pending(i + 1)
<1>1. Transforming /\ i < chunk.to /\ bytes[i + 1] = Newline
      /\ accumulatedLines + 1 = BatchSize
  BY DEF CutBatch
<1>2. /\ UNCHANGED <<bytes, sent, source, piped, writable, ending, chunk, delivered,
                     flushed, errored>>
      /\ pushed' = Append(pushed, batch) /\ lines' = <<>> /\ accumulatedLines' = 0
      /\ begin' = i + 1 /\ i' = i + 1
  BY DEF CutBatch, sourceVars
<1>3. /\ batch \in Seq(Slice) /\ batch # <<>> /\ Contiguous(batch)
      /\ Start(batch) = PendingFrom /\ Stop(batch) = i + 1
  <2>1. i + 1 \in Nat /\ begin <= i + 1
    BY <1>1, ScanTypes
  <2> QED
    BY <1>1, <2>1, ScanTypes, PendingPiece
<1>4. PendingFrom = PushedTo
  BY <1>1, ScanTypes DEF BatcherInv, NoByteLost, PendingFrom
<1>5. /\ pushed' \in Seq(Seq(Slice))
      /\ \A k \in 1 .. Len(pushed') : pushed'[k] # <<>> /\ Contiguous(pushed'[k])
      /\ pushed' # <<>> /\ Start(pushed'[1]) = 0
      /\ \A k \in 1 .. Len(pushed') - 1 : Stop(pushed'[k]) = Start(pushed'[k + 1])
      /\ PushedTo' = i + 1
      /\ Len(pushed') = Len(pushed) + 1 /\ Len(pushed) \in Nat
      /\ \A k \in 1 .. Len(pushed) : pushed'[k] = pushed[k]
      /\ pushed'[Len(pushed) + 1] = batch
  BY <1>1, <1>2, <1>3, <1>4, ScanTypes, PushContinues
<1>6. BatcherTypeOK'
  <2>1. i' \in Offset' /\ begin' \in Offset'
    BY <1>1, <1>2, ScanTypes DEF Offset
  <2>2. accumulatedLines' \in Nat /\ (BatchSize > 0 => accumulatedLines' < BatchSize)
    BY <1>2, BatchSizeAssumption
  <2>3. delivered' \in 0 .. Len(pushed')
    BY <1>2, <1>5 DEF BatcherInv, BatcherTypeOK
  <2>4. lines' \in Seq(Slice)
    BY <1>2
  <2> QED
    BY <1>2, <1>5, <2>1, <2>2, <2>3, <2>4 DEF BatcherInv, BatcherTypeOK, Offset
<1>7. WritableInv' /\ OrderInv'
  BY <1>1, <1>2 DEF BatcherInv, WritableInv, OrderInv, AcceptedTo, Transforming, Stop
<1>8. ChunkInv'
  <2>1. i + 1 \in Nat /\ i + 1 <= chunk.to
    BY <1>1, ScanTypes
  <2> QED
    BY <1>1, <1>2, <2>1 DEF ChunkInv, PendingFrom, Transforming
<1>9. CountInv'
  <2>1. NewlinesIn(i + 1, i + 1) = 0
    BY <1>1, ScanTypes, NewlinesNone
  <2> QED
    BY <1>1, <1>2, <2>1 DEF CountInv, PendingFrom, ScannedTo, Transforming, NewlinesIn
<1>10. NoByteLost'
  <2>1. Contiguous(lines')
    BY <1>2 DEF Contiguous
  <2> QED
    BY <1>1, <1>2, <1>5, <2>1, ScanTypes DEF NoByteLost
<1>11. WholeLines'
  <2>1. ASSUME NEW k \in 1 .. Len(pushed')
        PROVE  /\ NewlinesIn(Start(pushed'[k]), Stop(pushed'[k])) = BatchSize
               /\ bytes[Stop(pushed'[k])] = Newline
    <3>1. CASE k \in 1 .. Len(pushed)
      <4>1. pushed'[k] = pushed[k]
        BY <1>5, <3>1
      <4>2. ~flushed
        BY <1>1, ScanTypes
      <4> QED
        BY <3>1, <4>1, <4>2 DEF BatcherInv, WholeLines
    <3>2. CASE k = Len(pushed) + 1
      <4>1. NewlinesIn(PendingFrom, i + 1) = BatchSize
        BY <1>1, ScanTypes
      <4>2. pushed'[k] = batch
        BY <1>5, <3>2
      <4> QED
        BY <1>1, <1>3, <4>1, <4>2
    <3> QED
      BY <1>5, <3>1, <3>2
  <2>2. \A from, to : NewlinesIn(from, to)' = NewlinesIn(from, to)
    BY <1>2 DEF NewlinesIn
  <2> QED
    BY <1>2, <2>1, <2>2 DEF WholeLines, Start, Stop
<1> QED
  BY <1>6, <1>7, <1>8, <1>9, <1>10, <1>11 DEF BatcherInv

\* The rest of the chunk is kept.
LEMMA EndChunkPreserves ==
  ASSUME BatcherInv, EndChunk PROVE BatcherInv'
<1>1. Transforming /\ i = chunk.to
  BY DEF EndChunk
<1>2. /\ UNCHANGED <<bytes, sent, source, piped, writable, ending, i,
                     accumulatedLines, pushed, delivered, flushed, errored>>
      /\ lines' = Pending(chunk.to) /\ begin' = chunk.to /\ chunk' = NoChunk
  BY DEF EndChunk, sourceVars
<1>3. /\ chunk.to \in Nat /\ begin \in Nat /\ begin <= chunk.to /\ i \in Offset
      /\ lines \in Seq(Slice) /\ ~flushed
  BY <1>1 DEF BatcherInv, BatcherTypeOK, ChunkInv, OrderInv, Offset, Slice
<1>4. /\ lines' \in Seq(Slice) /\ lines' # <<>> /\ Contiguous(lines')
      /\ Start(lines') = PendingFrom /\ Stop(lines') = chunk.to
  BY <1>2, <1>3, PendingPiece
<1>5. ~Transforming'
  BY <1>2 DEF Transforming
<1>6. PendingFrom' = PendingFrom
  BY <1>4 DEF PendingFrom, Start
<1>7. BatcherTypeOK'
  <2>1. chunk' \in Slice
    BY <1>2 DEF NoChunk, Slice
  <2>2. begin' \in Offset
    BY <1>1, <1>2, <1>3
  <2> QED
    BY <1>2, <1>4, <2>1, <2>2 DEF BatcherInv, BatcherTypeOK, Offset
<1>8. WritableInv'
  <2>1. AcceptedTo' = AcceptedTo
    BY <1>1, <1>2, <1>5 DEF AcceptedTo
  <2> QED
    BY <1>2, <2>1 DEF BatcherInv, WritableInv, Stop
<1>9. OrderInv'
  BY <1>1, <1>2, <1>3 DEF BatcherInv, OrderInv
<1>10. ChunkInv'
  <2>1. PendingFrom <= begin /\ PendingFrom \in Nat
    <3>1. lines # <<>> => lines[1] \in Slice
      BY <1>3
    <3> QED
      BY <1>3, <3>1 DEF BatcherInv, ChunkInv, PendingFrom, Start, Slice
  <2> QED
    BY <1>2, <1>3, <1>5, <1>6, <2>1 DEF ChunkInv
<1>11. CountInv'
  <2>1. ScannedTo' = ScannedTo
    BY <1>1, <1>2, <1>5 DEF ScannedTo
  <2> QED
    BY <1>2, <1>6, <2>1 DEF BatcherInv, CountInv, NewlinesIn
<1>12. NoByteLost'
  <2>1. PushedTo = PendingFrom
    BY <1>3 DEF BatcherInv, NoByteLost, PendingFrom
  <2> QED
    BY <1>2, <1>3, <1>4, <2>1 DEF BatcherInv, NoByteLost, PushedTo
<1>13. WholeLines'
  BY <1>2 DEF BatcherInv, WholeLines, NewlinesIn, Start, Stop
<1> QED
  BY <1>7, <1>8, <1>9, <1>10, <1>11, <1>12, <1>13 DEF BatcherInv

\* Adjacent slices without a byte stop where they start.
LEMMA EmptyPiece ==
  ASSUME NEW slices \in Seq(Slice), slices # <<>>, Contiguous(slices),
         \A k \in DOMAIN slices : slices[k].from = slices[k].to
  PROVE  Start(slices) = Stop(slices)
<1> DEFINE T == {k \in 1 .. Len(slices) : slices[k].to # Start(slices)}
<1>1. Len(slices) \in Nat /\ Len(slices) # 0 /\ DOMAIN slices = 1 .. Len(slices)
  OBVIOUS
<1>2. T = {}
  <2> SUFFICES ASSUME T # {} PROVE FALSE
    OBVIOUS
  <2>1. T \subseteq Nat
    BY <1>1
  <2>2. PICK m \in T : \A y \in T : m <= y
    BY <2>1, LeastElement
  <2>3. m \in 1 .. Len(slices) /\ slices[m].to # Start(slices)
    BY <2>2
  <2>4. slices[m].from = slices[m].to
    BY <1>1, <2>3
  <2>5. m # 1
    BY <2>3, <2>4 DEF Start
  <2>6. m - 1 \in 1 .. Len(slices) - 1 /\ m - 1 \in 1 .. Len(slices)
    BY <1>1, <2>3, <2>5
  <2>7. m - 1 \notin T
    BY <2>2, <2>3, <2>6
  <2>8. slices[m - 1].to = Start(slices)
    BY <2>6, <2>7
  <2>9. slices[m - 1].to = slices[m].from
    BY <1>1, <2>3, <2>6 DEF Contiguous
  <2> QED
    BY <2>3, <2>4, <2>8, <2>9
<1> QED
  BY <1>1, <1>2 DEF Stop

\* What is left becomes the last batch.
LEMMA FlushPreserves ==
  ASSUME BatcherInv, Flush PROVE BatcherInv'
<1> DEFINE rest == \E k \in DOMAIN lines : lines[k].from # lines[k].to
<1>1. /\ ending /\ ~flushed /\ ~errored /\ ~Transforming /\ writable = <<>>
      /\ flushed' = TRUE
      /\ UNCHANGED <<bytes, sent, source, piped, writable, ending, chunk, i, begin,
                     lines, accumulatedLines, delivered, errored>>
  BY DEF Flush, sourceVars, privateVars
<1>2. /\ rest => pushed' = Append(pushed, lines)
      /\ ~rest => pushed' = pushed
  BY DEF Flush
<1>3. /\ lines \in Seq(Slice) /\ pushed \in Seq(Seq(Slice)) /\ begin \in Nat
      /\ Contiguous(lines) /\ (lines # <<>> => Stop(lines) = begin)
      /\ PushedTo = PendingFrom
  BY <1>1 DEF BatcherInv, BatcherTypeOK, NoByteLost, PendingFrom, Offset
<1>4. WritableInv' /\ OrderInv' /\ ChunkInv' /\ CountInv'
  BY <1>1 DEF BatcherInv, WritableInv, OrderInv, ChunkInv, CountInv, AcceptedTo,
              PendingFrom, Start, Stop, Transforming
<1>5. CASE rest
  <2>1. lines # <<>>
    BY <1>5
  <2>2. Start(lines) = PushedTo
    BY <1>3, <2>1 DEF PendingFrom
  <2>3. pushed' = Append(pushed, lines)
    BY <1>2, <1>5
  <2>4. /\ pushed' \in Seq(Seq(Slice))
        /\ \A k \in 1 .. Len(pushed') : pushed'[k] # <<>> /\ Contiguous(pushed'[k])
        /\ pushed' # <<>> /\ Start(pushed'[1]) = 0
        /\ \A k \in 1 .. Len(pushed') - 1 : Stop(pushed'[k]) = Start(pushed'[k + 1])
        /\ PushedTo' = Stop(lines)
        /\ Len(pushed') = Len(pushed) + 1 /\ Len(pushed) \in Nat
        /\ \A k \in 1 .. Len(pushed) : pushed'[k] = pushed[k]
    BY <1>3, <2>1, <2>2, <2>3, PushContinues
  <2>5. BatcherTypeOK'
    <3>1. delivered' \in 0 .. Len(pushed')
      BY <1>1, <2>4 DEF BatcherInv, BatcherTypeOK
    <3> QED
      BY <1>1, <2>4, <3>1 DEF BatcherInv, BatcherTypeOK, Offset
  <2>6. NoByteLost'
    BY <1>1, <1>3, <2>1, <2>4 DEF NoByteLost, Contiguous, Stop
  <2>7. WholeLines'
    <3>1. ASSUME NEW k \in 1 .. Len(pushed'), k # Len(pushed')
          PROVE  /\ NewlinesIn(Start(pushed'[k]), Stop(pushed'[k])) = BatchSize
                 /\ bytes[Stop(pushed'[k])] = Newline
      <4>1. k \in 1 .. Len(pushed) /\ pushed'[k] = pushed[k]
        BY <2>4, <3>1
      <4> QED
        BY <1>1, <4>1 DEF BatcherInv, WholeLines
    <3>2. \A from, to : NewlinesIn(from, to)' = NewlinesIn(from, to)
      BY <1>1 DEF NewlinesIn
    <3> QED
      BY <1>1, <3>1, <3>2 DEF WholeLines, Start, Stop
  <2> QED
    BY <1>4, <2>5, <2>6, <2>7 DEF BatcherInv
<1>6. CASE ~rest
  <2>1. pushed' = pushed
    BY <1>2, <1>6
  <2>2. BatcherTypeOK'
    BY <1>1, <2>1 DEF BatcherInv, BatcherTypeOK, Offset
  <2>3. PushedTo = begin
    <3>1. CASE lines = <<>>
      BY <1>3, <3>1 DEF PendingFrom
    <3>2. CASE lines # <<>>
      BY <1>3, <1>6, <3>2, EmptyPiece DEF PendingFrom
    <3> QED
      BY <3>1, <3>2
  <2>4. NoByteLost'
    BY <1>1, <1>3, <2>1, <2>3 DEF BatcherInv, NoByteLost, PushedTo, Contiguous, Start, Stop
  <2>5. WholeLines'
    BY <1>1, <2>1 DEF BatcherInv, WholeLines, NewlinesIn, Start, Stop
  <2> QED
    BY <1>4, <2>2, <2>4, <2>5 DEF BatcherInv
<1> QED
  BY <1>5, <1>6

\* The invariant is inductive under the batcher's steps and its consumer's.
THEOREM BatcherInductive == BatcherInv /\ BatcherNext => BatcherInv'
<1> SUFFICES ASSUME BatcherInv, BatcherNext PROVE BatcherInv'
  OBVIOUS
<1>1. ASSUME NEW n \in 1 .. Len(bytes), SourceData(n) PROVE BatcherInv'
  BY <1>1, SourceDataPreserves
<1>2. CASE SourceEnd
  BY <1>2, SourceEndPreserves
<1>3. CASE SourceFail
  BY <1>3, SourceFailPreserves
<1>4. CASE Transform
  BY <1>4, StartChunkPreserves, SkipBytePreserves, CountLinePreserves,
     CutBatchPreserves, EndChunkPreserves DEF Transform
<1>5. CASE Flush
  BY <1>5, FlushPreserves
<1>6. CASE Finish
  BY <1>6, FinishPreserves
<1>7. ASSUME NEW stop \in BOOLEAN, Data(stop) PROVE BatcherInv'
  BY <1>7, DataPreserves
<1>8. CASE UNCHANGED batcherVars
  <2>1. UNCHANGED <<bytes, sent, source, piped, writable, ending, chunk, i, begin,
                    lines, accumulatedLines, pushed, delivered, flushed, errored>>
    BY <1>8 DEF batcherVars, sourceVars, privateVars
  <2>2. BatcherTypeOK'
    BY <2>1 DEF BatcherInv, BatcherTypeOK, Offset
  <2>3. WritableInv' /\ OrderInv'
    BY <2>1 DEF BatcherInv, WritableInv, OrderInv, AcceptedTo, Transforming, Stop
  <2> QED
    BY <2>1, <2>2, <2>3, BytesUntouched DEF BatcherInv, privateVars
<1> QED
  BY <1>1, <1>2, <1>3, <1>4, <1>5, <1>6, <1>7, <1>8 DEF BatcherNext, BatcherStep
-----------------------------------------------------------------------------
(* Batches that are adjacent.                                              *)

\* Where a list of adjacent batches stops, from the first byte on.
CoversTo(batches) == IF batches = <<>> THEN 0 ELSE Stop(batches[Len(batches)])

\* Adjacent batches that start at the first byte of the stream.
FromTheStart(batches) ==
  /\ batches \in Seq(Seq(Slice))
  /\ \A k \in 1 .. Len(batches) : batches[k] # <<>> /\ Contiguous(batches[k])
  /\ batches # <<>> => Start(batches[1]) = 0
  /\ \A k \in 1 .. Len(batches) - 1 : Stop(batches[k]) = Start(batches[k + 1])

\* Every batch is a list of slices of the stream.
LEMMA BatchTypes ==
  ASSUME BatcherInv, NEW k \in 1 .. Len(pushed)
  PROVE  /\ pushed[k] \in Seq(Slice) /\ pushed[k] # <<>> /\ Contiguous(pushed[k])
         /\ Start(pushed[k]) \in Nat /\ Stop(pushed[k]) \in Nat
<1>1. pushed[k] \in Seq(Slice) /\ pushed[k] # <<>> /\ Contiguous(pushed[k])
  BY DEF BatcherInv, BatcherTypeOK, NoByteLost
<1>2. Len(pushed[k]) \in 1 .. Len(pushed[k]) /\ 1 \in 1 .. Len(pushed[k])
  BY <1>1
<1>3. pushed[k][1] \in Slice /\ pushed[k][Len(pushed[k])] \in Slice
  BY <1>1, <1>2
<1> QED
  BY <1>1, <1>3 DEF Start, Stop, Slice

\* Slices stop and start at offsets.
LEMMA SliceTypes ==
  ASSUME NEW slices \in Seq(Slice)
  PROVE  /\ Len(slices) \in Nat
         /\ \A j \in 1 .. Len(slices) : slices[j].from \in Nat /\ slices[j].to \in Nat
<1>1. \A j \in 1 .. Len(slices) : slices[j] \in Slice
  OBVIOUS
<1> QED
  BY <1>1 DEF Slice

\* A list of adjacent slices starts at or before each of them, and stops at or
\* after each of them.
LEMMA StartsFirst ==
  ASSUME NEW slices \in Seq(Slice), Contiguous(slices), NEW k \in 1 .. Len(slices)
  PROVE  Start(slices) <= slices[k].from
<1> DEFINE n == Len(slices)
           Reached == {j \in 1 .. n : Start(slices) <= slices[j].from}
<1>1. /\ n \in Nat
      /\ \A j \in 1 .. n : slices[j].from \in Nat /\ slices[j].to \in Nat
  BY SliceTypes
<1>2. n > 0 => 1 \in Reached
  BY <1>1 DEF Start
<1>3. ASSUME NEW j \in 1 .. n - 1, j \in Reached PROVE j + 1 \in Reached
  <2>1. j \in 1 .. n /\ j + 1 \in 1 .. n /\ 1 \in 1 .. n
    BY <1>1
  <2>2. slices[j].from <= slices[j].to /\ slices[j].to = slices[j + 1].from
    BY <2>1 DEF Contiguous
  <2> QED
    BY <1>1, <1>3, <2>1, <2>2 DEF Start
<1> HIDE DEF Reached
<1>4. \A j \in 1 .. n : j \in Reached
  BY <1>1, <1>2, <1>3, UpTo
<1> QED
  BY <1>4 DEF Reached

\* Of slices that follow each other, none stops after the last.
LEMMA StopsLast ==
  ASSUME NEW slices \in Seq(Slice), Contiguous(slices), NEW k \in 1 .. Len(slices)
  PROVE  slices[k].to <= Stop(slices)
<1> DEFINE n == Len(slices)
           Reached == {m \in 1 .. n : \A j \in 1 .. m : slices[j].to <= slices[m].to}
<1>1. /\ n \in Nat
      /\ \A j \in 1 .. n : slices[j].from \in Nat /\ slices[j].to \in Nat
  BY SliceTypes
<1>2. n > 0 => 1 \in Reached
  BY <1>1
<1>3. ASSUME NEW m \in 1 .. n - 1, m \in Reached PROVE m + 1 \in Reached
  <2>1. m \in 1 .. n /\ m + 1 \in 1 .. n
    BY <1>1
  <2>2. slices[m].to <= slices[m + 1].to
    BY <1>1, <2>1 DEF Contiguous
  <2>3. ASSUME NEW j \in 1 .. m + 1 PROVE slices[j].to <= slices[m + 1].to
    <3>1. j \in 1 .. m \/ j = m + 1
      BY <1>1
    <3>2. j \in 1 .. n
      BY <1>1
    <3> QED
      BY <1>1, <1>3, <2>1, <2>2, <3>1, <3>2
  <2> QED
    BY <2>1, <2>3
<1> HIDE DEF Reached
<1>4. \A m \in 1 .. n : m \in Reached
  BY <1>1, <1>2, <1>3, UpTo
<1>5. n \in Reached
  BY <1>1, <1>4
<1> QED
  BY <1>5 DEF Reached, Stop

\* What was pushed stops within what was sent.
LEMMA PushedIsSent ==
  ASSUME BatcherInv, NEW k \in 1 .. Len(pushed)
  PROVE  Stop(pushed[k]) <= sent
<1> DEFINE n == Len(pushed)
           Reached == {m \in 1 .. n : \A j \in 1 .. m : Stop(pushed[j]) <= Stop(pushed[m])}
<1>1. /\ n \in Nat /\ pushed \in Seq(Seq(Slice))
      /\ \A j \in 1 .. n : Start(pushed[j]) \in Nat /\ Stop(pushed[j]) \in Nat
  BY BatchTypes DEF BatcherInv, BatcherTypeOK
<1>2. \A j \in 1 .. n : Start(pushed[j]) <= Stop(pushed[j])
  <2> TAKE j \in 1 .. n
  <2>1. /\ pushed[j] \in Seq(Slice) /\ pushed[j] # <<>> /\ Contiguous(pushed[j])
    BY BatchTypes
  <2>2. 1 \in 1 .. Len(pushed[j])
    BY <2>1
  <2>3. Start(pushed[j]) <= pushed[j][1].from /\ pushed[j][1].to <= Stop(pushed[j])
    BY <2>1, <2>2, StartsFirst, StopsLast
  <2>4. /\ pushed[j][1].from <= pushed[j][1].to
        /\ pushed[j][1].from \in Nat /\ pushed[j][1].to \in Nat
    BY <2>1, <2>2, SliceTypes DEF Contiguous
  <2>5. Start(pushed[j]) \in Nat /\ Stop(pushed[j]) \in Nat /\ pushed[j][1].to \in Nat
    BY <1>1, <2>1, <2>2, SliceTypes
  <2> QED
    BY <2>3, <2>4, <2>5
<1>3. n > 0 => 1 \in Reached
  BY <1>1
<1>4. ASSUME NEW m \in 1 .. n - 1, m \in Reached PROVE m + 1 \in Reached
  <2>1. m \in 1 .. n /\ m + 1 \in 1 .. n
    BY <1>1
  <2>2. Stop(pushed[m]) <= Stop(pushed[m + 1])
    <3>1. Stop(pushed[m]) = Start(pushed[m + 1])
      BY DEF BatcherInv, NoByteLost
    <3> QED
      BY <1>2, <2>1, <3>1
  <2>3. \A j \in 1 .. m : Stop(pushed[j]) <= Stop(pushed[m])
    BY <1>4
  <2>4. ASSUME NEW j \in 1 .. m PROVE Stop(pushed[j]) <= Stop(pushed[m + 1])
    <3>1. j \in 1 .. n
      BY <1>1
    <3>2. /\ Stop(pushed[j]) \in Nat /\ Stop(pushed[m]) \in Nat
          /\ Stop(pushed[m + 1]) \in Nat
      BY <1>1, <2>1, <3>1
    <3>3. Stop(pushed[j]) <= Stop(pushed[m])
      BY <2>3
    <3> HIDE DEF Reached, n
    <3> QED
      BY <2>2, <3>2, <3>3
  <2>5. Stop(pushed[m + 1]) <= Stop(pushed[m + 1])
    BY <1>1, <2>1
  <2>6. \A j \in 1 .. m + 1 : j \in 1 .. m \/ j = m + 1
    BY <1>1
  <2>7. \A j \in 1 .. m + 1 : Stop(pushed[j]) <= Stop(pushed[m + 1])
    BY <2>4, <2>5, <2>6
  <2> QED
    BY <2>1, <2>7
<1> HIDE DEF Reached
<1>5. \A m \in 1 .. n : m \in Reached
  BY <1>1, <1>3, <1>4, UpTo
<1>6. n \in Reached
  BY <1>1, <1>5
<1>7. Stop(pushed[k]) <= PushedTo
  <2>1. pushed # <<>>
    BY <1>1
  <2> QED
    BY <1>6, <2>1 DEF Reached, PushedTo
<1>8. PushedTo <= begin /\ begin <= AcceptedTo /\ AcceptedTo <= sent
  <2>1. /\ begin \in Nat /\ i \in Nat /\ chunk.to \in Nat /\ sent \in Nat
    BY StreamsAssumption DEF BatcherInv, BatcherTypeOK, Offset, Slice
  <2>2. PushedTo <= begin
    BY <2>1 DEF BatcherInv, ChunkInv, NoByteLost, PendingFrom
  <2>3. begin <= AcceptedTo
    BY <2>1 DEF BatcherInv, ChunkInv, AcceptedTo
  <2> QED
    BY <2>2, <2>3 DEF BatcherInv, WritableInv
<1>9. /\ begin \in Nat /\ sent \in Nat /\ AcceptedTo \in Nat /\ PushedTo \in Nat
  <2>1. PushedTo = Stop(pushed[n]) /\ n \in 1 .. n
    BY <1>1 DEF PushedTo
  <2>2. PushedTo \in Nat
    BY <1>1, <2>1
  <2>3. begin \in Nat /\ i \in Nat /\ chunk.to \in Nat /\ sent \in Nat
    BY StreamsAssumption DEF BatcherInv, BatcherTypeOK, Offset, Slice
  <2>4. AcceptedTo \in Nat
    BY <2>3 DEF AcceptedTo
  <2> QED
    BY <2>2, <2>3, <2>4
<1> QED
  BY <1>1, <1>7, <1>8, <1>9

\* The first batches pushed start at the first byte and stop within what was sent.
LEMMA PrefixOfPushed ==
  ASSUME BatcherInv, NEW batches \in Seq(Seq(Slice)), Len(batches) <= Len(pushed),
         \A k \in 1 .. Len(batches) : batches[k] = pushed[k]
  PROVE  FromTheStart(batches) /\ CoversTo(batches) <= sent
<1>1. /\ pushed \in Seq(Seq(Slice)) /\ Len(pushed) \in Nat /\ Len(batches) \in Nat
      /\ sent \in Nat
  BY StreamsAssumption DEF BatcherInv, BatcherTypeOK, Offset
<1>2. \A k \in 1 .. Len(batches) : k \in 1 .. Len(pushed)
  BY <1>1
<1>3. FromTheStart(batches)
  <2>1. \A k \in 1 .. Len(batches) : batches[k] # <<>> /\ Contiguous(batches[k])
    BY <1>2, BatchTypes
  <2>2. batches # <<>> => Start(batches[1]) = 0
    <3> SUFFICES ASSUME batches # <<>> PROVE Start(batches[1]) = 0
      OBVIOUS
    <3>1. 1 \in 1 .. Len(batches) /\ pushed # <<>>
      BY <1>1
    <3> QED
      BY <3>1 DEF BatcherInv, NoByteLost
  <2>3. ASSUME NEW k \in 1 .. Len(batches) - 1
        PROVE  Stop(batches[k]) = Start(batches[k + 1])
    <3>1. k \in 1 .. Len(batches) /\ k + 1 \in 1 .. Len(batches) /\ k \in 1 .. Len(pushed) - 1
      BY <1>1
    <3>2. Stop(pushed[k]) = Start(pushed[k + 1])
      BY <3>1 DEF BatcherInv, NoByteLost
    <3> QED
      BY <3>1, <3>2
  <2> QED
    BY <2>1, <2>2, <2>3 DEF FromTheStart
<1>4. CoversTo(batches) <= sent
  <2>1. CASE batches = <<>>
    BY <1>1, <2>1 DEF CoversTo
  <2>2. CASE batches # <<>>
    <3>1. Len(batches) \in 1 .. Len(batches)
      BY <1>1, <2>2
    <3> QED
      BY <1>2, <2>2, <3>1, PushedIsSent DEF CoversTo
  <2> QED
    BY <2>1, <2>2
<1> QED
  BY <1>3, <1>4

\* Two adjacent pieces of the stream, one after the other, are one piece.
LEMMA JoinPieces ==
  ASSUME NEW s \in Seq(Slice), NEW t \in Seq(Slice), s # <<>>, t # <<>>,
         Contiguous(s), Contiguous(t), Stop(s) = Start(t)
  PROVE  /\ s \o t \in Seq(Slice) /\ s \o t # <<>> /\ Contiguous(s \o t)
         /\ Start(s \o t) = Start(s) /\ Stop(s \o t) = Stop(t)
<1> DEFINE m == Len(s)
           n == Len(t)
           u == s \o t
<1>1. /\ m \in Nat \ {0} /\ n \in Nat \ {0}
      /\ u \in Seq(Slice) /\ Len(u) = m + n
      /\ \A k \in 1 .. m : u[k] = s[k]
      /\ \A k \in m + 1 .. m + n : u[k] = t[k - m]
  OBVIOUS
<1>2. /\ \A k \in 1 .. m : s[k].from <= s[k].to
      /\ \A k \in 1 .. m - 1 : s[k].to = s[k + 1].from
      /\ \A k \in 1 .. n : t[k].from <= t[k].to
      /\ \A k \in 1 .. n - 1 : t[k].to = t[k + 1].from
      /\ s[m].to = t[1].from
  BY DEF Contiguous, Start, Stop
<1> HIDE DEF u, m, n
<1>3. \A k \in 1 .. m + n : u[k].from <= u[k].to
  <2> TAKE k \in 1 .. m + n
  <2>1. CASE k \in 1 .. m
    BY <1>1, <1>2, <2>1
  <2>2. CASE k \in m + 1 .. m + n
    <3>1. k - m \in 1 .. n
      BY <1>1, <2>2
    <3> QED
      BY <1>1, <1>2, <2>2, <3>1
  <2> QED
    BY <1>1, <2>1, <2>2
<1>4. \A k \in 1 .. (m + n) - 1 : u[k].to = u[k + 1].from
  <2> TAKE k \in 1 .. (m + n) - 1
  <2>1. CASE k \in 1 .. m - 1
    <3>1. k \in 1 .. m /\ k + 1 \in 1 .. m
      BY <1>1, <2>1
    <3> QED
      BY <1>1, <1>2, <2>1, <3>1
  <2>2. CASE k = m
    <3>1. m \in 1 .. m /\ m + 1 \in m + 1 .. m + n /\ (m + 1) - m = 1
      BY <1>1
    <3> QED
      BY <1>1, <1>2, <2>2, <3>1
  <2>3. CASE k \in m + 1 .. (m + n) - 1
    <3>1. /\ k \in m + 1 .. m + n /\ k + 1 \in m + 1 .. m + n
          /\ k - m \in 1 .. n - 1 /\ (k + 1) - m = (k - m) + 1
      BY <1>1, <2>3
    <3>2. u[k] = t[k - m] /\ u[k + 1] = t[(k - m) + 1]
      BY <1>1, <3>1
    <3>3. t[k - m].to = t[(k - m) + 1].from
      BY <1>2, <3>1
    <3> QED
      BY <3>2, <3>3
  <2> QED
    BY <1>1, <2>1, <2>2, <2>3
<1>5. u # <<>> /\ u[1] = s[1] /\ u[m + n] = t[n]
  <2>1. 1 \in 1 .. m /\ m + n \in m + 1 .. m + n /\ (m + n) - m = n /\ m + n # 0
    BY <1>1
  <2> QED
    BY <1>1, <2>1
<1> QED
  BY <1>1, <1>3, <1>4, <1>5 DEF Contiguous, Start, Stop, u, m, n

\* The slices of adjacent batches are adjacent, and reach as far.
LEMMA FlattenBatches ==
  ASSUME NEW batches, FromTheStart(batches), batches # <<>>
  PROVE  /\ FlattenSeq(batches) \in Seq(Slice) /\ FlattenSeq(batches) # <<>>
         /\ Contiguous(FlattenSeq(batches))
         /\ Start(FlattenSeq(batches)) = 0
         /\ Stop(FlattenSeq(batches)) = CoversTo(batches)
<1> DEFINE n == Len(batches)
           Piece(s, k) == /\ s \in Seq(Slice) /\ s # <<>> /\ Contiguous(s)
                          /\ Start(s) = 0 /\ Stop(s) = Stop(batches[k])
<1>1. /\ batches \in Seq(Seq(Slice)) /\ n \in Nat /\ n > 0
      /\ \A k \in 1 .. n : batches[k] \in Seq(Slice) /\ batches[k] # <<>> /\ Contiguous(batches[k])
      /\ Start(batches[1]) = 0
      /\ \A k \in 1 .. n - 1 : Stop(batches[k]) = Start(batches[k + 1])
  BY DEF FromTheStart
<1>2. PICK f : Flattening(batches, n, f) /\ FlattenSeq(batches) = f[n]
  BY <1>1, FlattenUnfolds
<1>3. \A k \in 1 .. n : f[k] = IF k = 1 THEN batches[k] ELSE f[k - 1] \o batches[k]
  BY <1>2 DEF Flattening
<1> HIDE DEF n
<1> DEFINE Reached == {k \in 1 .. n : Piece(f[k], k)}
<1>4. 1 \in Reached
  BY <1>1, <1>3
<1>5. ASSUME NEW k \in 1 .. n - 1, k \in Reached PROVE k + 1 \in Reached
  <2>1. k \in 1 .. n /\ k + 1 \in 1 .. n /\ k + 1 # 1 /\ (k + 1) - 1 = k
    BY <1>1
  <2>2. f[k + 1] = f[k] \o batches[k + 1]
    BY <1>3, <2>1, Zenon
  <2>3. Piece(f[k], k) /\ Stop(f[k]) = Start(batches[k + 1])
    BY <1>1, <1>5
  <2>4. Piece(f[k + 1], k + 1)
    BY <1>1, <2>1, <2>2, <2>3, JoinPieces
  <2> QED
    BY <2>1, <2>4
<1> HIDE DEF Reached
<1>6. \A k \in 1 .. n : k \in Reached
  BY <1>1, <1>4, <1>5, UpTo
<1>7. n \in Reached
  BY <1>1, <1>6
<1> QED
  BY <1>2, <1>7 DEF Reached, CoversTo, n

\* The bytes up to a, and then those from a to b, are the bytes up to b.
LEMMA JoinRuns ==
  ASSUME NEW a \in Nat, NEW b \in Nat, a <= b
  PROVE  [p \in 1 .. a |-> p] \o [k \in 1 .. b - a |-> a + k] = [p \in 1 .. b |-> p]
<1> DEFINE s == [p \in 1 .. a |-> p]
           t == [k \in 1 .. b - a |-> a + k]
<1>1. s \in Seq(Nat) /\ Len(s) = a /\ t \in Seq(Nat) /\ Len(t) = b - a
  OBVIOUS
<1>2. \A p \in 1 .. a : s[p] = p
  OBVIOUS
<1>3. \A k \in 1 .. b - a : t[k] = a + k
  OBVIOUS
<1>4. a + (b - a) = b
  OBVIOUS
<1> HIDE DEF s, t
<1>5. /\ s \o t = [p \in 1 .. b |-> (s \o t)[p]]
      /\ \A p \in 1 .. a : (s \o t)[p] = s[p]
      /\ \A p \in a + 1 .. b : (s \o t)[p] = t[p - a]
  <2>1. /\ s \o t = [p \in 1 .. Len(s) + Len(t) |-> (s \o t)[p]]
        /\ \A p \in 1 .. Len(s) : (s \o t)[p] = s[p]
        /\ \A p \in Len(s) + 1 .. Len(s) + Len(t) : (s \o t)[p] = t[p - Len(s)]
    BY <1>1, Concatenation, Zenon
  <2>2. Len(s) + Len(t) = b
    BY <1>1, <1>4
  <2> QED
    BY <1>1, <2>1, <2>2, Zenon
<1>6. ASSUME NEW p \in 1 .. b PROVE (s \o t)[p] = p
  <2>1. CASE p \in 1 .. a
    BY <1>2, <1>5, <2>1
  <2>2. CASE p \in a + 1 .. b
    <3>1. p - a \in 1 .. b - a /\ a + (p - a) = p
      BY <2>2
    <3> QED
      BY <1>3, <1>5, <2>2, <3>1
  <2>3. p \in 1 .. a \/ p \in a + 1 .. b
    OBVIOUS
  <2> QED
    BY <2>1, <2>2, <2>3, Zenon
<1>7. s \o t = [p \in 1 .. b |-> p]
  BY <1>5, <1>6, Zenon
<1> QED
  BY <1>7 DEF s, t

\* The positions of adjacent slices are the positions up to the last one's end.
LEMMA FlattenPositions ==
  ASSUME NEW slices \in Seq(Slice), slices # <<>>, Contiguous(slices), Start(slices) = 0
  PROVE  FlattenSeq([k \in DOMAIN slices |-> Positions(slices[k])])
           = [p \in 1 .. Stop(slices) |-> p]
<1> DEFINE n == Len(slices)
           seqs == [k \in DOMAIN slices |-> Positions(slices[k])]
           Run(to) == [p \in 1 .. to |-> p]
<1>1. /\ n \in Nat /\ n > 0 /\ DOMAIN slices = 1 .. n
      /\ \A k \in 1 .. n : slices[k].from \in Nat /\ slices[k].to \in Nat
      /\ \A k \in 1 .. n : slices[k].from <= slices[k].to
      /\ \A k \in 1 .. n - 1 : slices[k].to = slices[k + 1].from
      /\ slices[1].from = 0
  <2>1. n \in Nat /\ n > 0 /\ DOMAIN slices = 1 .. n /\ \A k \in 1 .. n : slices[k] \in Slice
    OBVIOUS
  <2> QED
    BY <2>1 DEF Slice, Contiguous, Start
<1>2. /\ seqs \in Seq(Seq(Nat)) /\ Len(seqs) = n
      /\ \A k \in 1 .. n : seqs[k] = [j \in 1 .. slices[k].to - slices[k].from |-> slices[k].from + j]
  <2>1. ASSUME NEW from \in Nat, NEW to \in Nat, from <= to
        PROVE  [j \in 1 .. to - from |-> from + j] \in Seq(Nat)
    OBVIOUS
  <2>2. \A k \in 1 .. n : Positions(slices[k]) \in Seq(Nat)
    BY <1>1, <2>1 DEF Positions
  <2> QED
    BY <1>1, <2>2 DEF Positions
<1> HIDE DEF seqs, n
<1>3. PICK f : Flattening(seqs, n, f) /\ FlattenSeq(seqs) = f[n]
  BY <1>1, <1>2, FlattenUnfolds
<1>4. \A k \in 1 .. n : f[k] = IF k = 1 THEN seqs[k] ELSE f[k - 1] \o seqs[k]
  BY <1>2, <1>3 DEF Flattening
<1> DEFINE Reached == {k \in 1 .. n : f[k] = Run(slices[k].to)}
<1>5. 1 \in Reached
  <2>1. 1 \in 1 .. n
    BY <1>1
  <2>2. f[1] = [j \in 1 .. slices[1].to - 0 |-> 0 + j]
    BY <1>1, <1>2, <1>4, <2>1
  <2>3. [j \in 1 .. slices[1].to - 0 |-> 0 + j] = Run(slices[1].to)
    BY <1>1, <2>1
  <2> QED
    BY <2>1, <2>2, <2>3
<1>6. ASSUME NEW k \in 1 .. n - 1, k \in Reached PROVE k + 1 \in Reached
  <2>1. k \in 1 .. n /\ k + 1 \in 1 .. n /\ k + 1 # 1 /\ (k + 1) - 1 = k
    BY <1>1
  <2>2. f[k + 1] = f[k] \o seqs[k + 1]
    BY <1>4, <2>1, Zenon
  <2> DEFINE a == slices[k].to
             b == slices[k + 1].to
  <2>3. a \in Nat /\ b \in Nat /\ a <= b /\ a = slices[k + 1].from
    BY <1>1, <2>1
  <2>4. f[k] = Run(a)
    BY <1>6
  <2>5. seqs[k + 1] = [j \in 1 .. b - a |-> a + j]
    BY <1>2, <2>1, <2>3
  <2>6. Run(a) \o [j \in 1 .. b - a |-> a + j] = Run(b)
    BY <2>3, JoinRuns
  <2>7. f[k + 1] = Run(b)
    BY <2>2, <2>4, <2>5, <2>6, Zenon
  <2> QED
    BY <2>1, <2>7
<1> HIDE DEF Reached
<1>7. \A k \in 1 .. n : k \in Reached
  BY <1>1, <1>5, <1>6, UpTo
<1>8. n \in Reached
  BY <1>1, <1>7
<1> QED
  BY <1>3, <1>8 DEF Reached, Stop, n, seqs

\* The bytes of adjacent batches, from the first byte on, are the first bytes of
\* the stream: none is lost, repeated or moved.
LEMMA BytesOfBatches ==
  ASSUME NEW batches, FromTheStart(batches)
  PROVE  /\ CoversTo(batches) \in Nat
         /\ Bytes(batches) = [p \in 1 .. CoversTo(batches) |-> p]
         /\ Len(Bytes(batches)) = CoversTo(batches)
<1>1. CASE batches = <<>>
  <2>1. FlattenSeq(batches) = <<>> /\ Len(<<>>) = 0
    BY <1>1 DEF FlattenSeq
  <2>2. [k \in DOMAIN <<>> |-> Positions(<<>>[k])] = <<>>
    OBVIOUS
  <2>3. Bytes(batches) = <<>>
    BY <1>1, <2>1, <2>2 DEF Bytes
  <2>4. <<>> = [p \in 1 .. 0 |-> p]
    OBVIOUS
  <2> QED
    BY <1>1, <2>1, <2>3, <2>4 DEF CoversTo
<1>2. CASE batches # <<>>
  <2> DEFINE slices == FlattenSeq(batches)
  <2>1. /\ slices \in Seq(Slice) /\ slices # <<>> /\ Contiguous(slices)
        /\ Start(slices) = 0 /\ Stop(slices) = CoversTo(batches)
    BY <1>2, FlattenBatches
  <2>2. Bytes(batches) = FlattenSeq([k \in DOMAIN slices |-> Positions(slices[k])])
    BY DEF Bytes
  <2> HIDE DEF slices
  <2>3. Bytes(batches) = [p \in 1 .. CoversTo(batches) |-> p]
    BY <2>1, <2>2, FlattenPositions
  <2>4. CoversTo(batches) \in Nat
    <3>1. slices[Len(slices)] \in Slice
      BY <2>1
    <3> QED
      BY <2>1, <3>1 DEF Stop, Slice
  <2> QED
    BY <2>3, <2>4
<1> QED
  BY <1>1, <1>2
=============================================================================
