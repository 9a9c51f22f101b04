-------------------------- MODULE JsonStreamProofs --------------------------
(***************************************************************************)
(* readJSONStream, for every stream, chunking and batch size: a promise    *)
(* that resolved forgot no batch, and a uniform stream is never rejected.  *)
(***************************************************************************)
EXTENDS JsonStreamPromise, LineBatcherProofs

\* A batch has bytes, all of them of the stream.
Filled(batch) == Start(batch) < Stop(batch) /\ Stop(batch) <= Len(bytes)

FilledInv == \A k \in 1 .. Len(pushed) : Filled(pushed[k])

\* Where the bytes stop that 'data' has announced.
AnnouncedTo == IF delivered = 0 THEN 0 ELSE Stop(pushed[delivered])

\* As long as nothing was refused, every batch announced was parsed, and what
\* was parsed has no junk.
ParsedInv ==
  promise = "pending" =>
    /\ Len(chunks) = delivered
    /\ \A k \in 1 .. delivered : chunks[k] = pushed[k]
    /\ \A p \in 1 .. AnnouncedTo : bytes[p] # Junk

\* end() comes from pipe() alone, after the last byte, so that no write follows.
EndingInv ==
  /\ ending => source = "ended" /\ sent = Len(bytes)
  /\ ~errored
  /\ ~piped => ending

\* 'end' is emitted when nothing more will be announced, and resolves with all
\* that was.
EndedInv ==
  /\ ended => flushed /\ delivered = Len(pushed)
  /\ promise = "resolved" => ended /\ ResolvesWithEveryBatch

JsonInv ==
  /\ BatcherInv
  /\ TypeOK
  /\ FilledInv
  /\ ParsedInv
  /\ EndingInv
  /\ EndedInv
  /\ CleanStreamsResolve

----------------------------------------------------------------------------

\* The batcher is at rest, and no record is held.
LEMMA JsonInitial == Init => JsonInv
<1> SUFFICES ASSUME Init PROVE JsonInv
  OBVIOUS
<1>1. BatcherInv
  BY BatcherInitial DEF Init
<1>2. TypeOK
  <2>1. chunks \in Seq(Seq(Slice)) /\ frame \in Seq(Seq(Slice))
    BY DEF Init
  <2> QED
    BY <1>1, <2>1 DEF Init, TypeOK, BatcherInv
<1>3. FilledInv /\ ParsedInv /\ EndingInv /\ EndedInv /\ CleanStreamsResolve
  BY DEF Init, BatcherInit, FilledInv, ParsedInv, AnnouncedTo, EndingInv, EndedInv,
         CleanStreamsResolve
<1> QED
  BY <1>1, <1>2, <1>3 DEF JsonInv

\* Only CutBatch and Flush push, and what they push has bytes.
LEMMA FilledPreserved ==
  ASSUME BatcherInv, FilledInv, BatcherStep
  PROVE  /\ FilledInv' /\ bytes' = bytes /\ delivered' = delivered
         /\ \A k \in 1 .. Len(pushed) : pushed'[k] = pushed[k]
         /\ Len(pushed) <= Len(pushed')
         /\ flushed => flushed' /\ pushed' = pushed
<1>1. pushed \in Seq(Seq(Slice)) /\ Len(bytes) \in Nat
  BY StreamsAssumption DEF BatcherInv, BatcherTypeOK
<1>2. ASSUME bytes' = bytes, pushed' = pushed
      PROVE  FilledInv' /\ Len(pushed) <= Len(pushed')
  BY <1>1, <1>2 DEF FilledInv, Filled, Start, Stop
<1>3. ASSUME NEW batch \in Seq(Slice), pushed' = Append(pushed, batch), bytes' = bytes,
             Filled(batch)
      PROVE  /\ FilledInv' /\ Len(pushed) <= Len(pushed')
             /\ \A k \in 1 .. Len(pushed) : pushed'[k] = pushed[k]
  <2>1. /\ Len(pushed') = Len(pushed) + 1 /\ Len(pushed) \in Nat
        /\ \A k \in 1 .. Len(pushed) : pushed'[k] = pushed[k]
        /\ pushed'[Len(pushed) + 1] = batch
    BY <1>1, <1>3
  <2>2. ASSUME NEW k \in 1 .. Len(pushed')
        PROVE  Start(pushed'[k]) < Stop(pushed'[k]) /\ Stop(pushed'[k]) <= Len(bytes)
    <3>1. CASE k \in 1 .. Len(pushed)
      BY <2>1, <3>1 DEF FilledInv, Filled
    <3>2. CASE k = Len(pushed) + 1
      BY <1>3, <2>1, <3>2 DEF Filled
    <3> QED
      BY <2>1, <2>2, <3>1, <3>2
  <2> QED
    BY <1>3, <2>1, <2>2 DEF FilledInv, Filled, Start, Stop
<1>4. CASE CutBatch
  <2>1. /\ Transforming /\ i < chunk.to /\ pushed' = Append(pushed, Pending(i + 1))
        /\ UNCHANGED <<bytes, delivered, flushed>>
    BY <1>4 DEF CutBatch, sourceVars
  <2>2. /\ i + 1 \in Nat /\ begin <= i + 1 /\ begin \in Nat /\ lines \in Seq(Slice)
        /\ PendingFrom < i + 1 /\ i + 1 <= Len(bytes) /\ ~flushed
    BY <2>1, ScanTypes
  <2>3. /\ Pending(i + 1) \in Seq(Slice)
        /\ Start(Pending(i + 1)) = PendingFrom /\ Stop(Pending(i + 1)) = i + 1
    BY <2>2, PendingPiece
  <2>4. Filled(Pending(i + 1))
    BY <2>2, <2>3 DEF Filled
  <2> QED
    BY <1>3, <2>1, <2>2, <2>3, <2>4
<1>5. CASE Flush
  <2> DEFINE rest == \E k \in DOMAIN lines : lines[k].from # lines[k].to
  <2>1. /\ ~flushed /\ flushed' = TRUE
        /\ rest => pushed' = Append(pushed, lines)
        /\ ~rest => pushed' = pushed
        /\ UNCHANGED <<bytes, delivered>>
    BY <1>5 DEF Flush, sourceVars
  <2>2. CASE ~rest
    BY <1>1, <1>2, <2>1, <2>2
  <2>3. CASE rest
    <3>1. /\ lines \in Seq(Slice) /\ Contiguous(lines) /\ begin <= Len(bytes)
          /\ lines # <<>> => Stop(lines) = begin
      BY <1>1 DEF BatcherInv, BatcherTypeOK, NoByteLost, Offset
    <3>2. PICK k \in 1 .. Len(lines) : lines[k].from # lines[k].to
      BY <2>3, <3>1
    <3>3. lines[k].from <= lines[k].to
      BY <3>1, <3>2 DEF Contiguous
    <3>4. Start(lines) <= lines[k].from /\ lines[k].to <= Stop(lines)
      BY <3>1, <3>2, StartsFirst, StopsLast
    <3>5. /\ lines # <<>> /\ lines[1] \in Slice /\ lines[k] \in Slice
          /\ lines[Len(lines)] \in Slice
      BY <3>1, <3>2
    <3>6. Filled(lines)
      BY <3>1, <3>2, <3>3, <3>4, <3>5 DEF Filled, Start, Stop, Slice
    <3> QED
      BY <1>3, <2>1, <2>3, <3>1, <3>6
  <2> QED
    BY <2>2, <2>3
<1>6. CASE StartChunk \/ SkipByte \/ CountLine \/ EndChunk \/ Finish
  <2>1. UNCHANGED <<bytes, delivered, pushed, flushed>>
    BY <1>6 DEF StartChunk, SkipByte, CountLine, EndChunk, Finish, sourceVars
  <2> QED
    BY <1>2, <2>1
<1>7. ASSUME NEW n \in 1 .. Len(bytes), SourceData(n)
      PROVE  UNCHANGED <<bytes, delivered, pushed, flushed>>
  BY <1>7 DEF SourceData
<1>8. CASE SourceEnd \/ SourceFail
  <2>1. UNCHANGED <<bytes, delivered, pushed, flushed>>
    BY <1>8 DEF SourceEnd, SourceFail
  <2> QED
    BY <1>2, <2>1
<1> QED
  BY <1>2, <1>4, <1>5, <1>6, <1>7, <1>8 DEF BatcherStep, Transform

\* Once _flush has run, the batches reach the end of the stream.
LEMMA FlushedToTheEnd ==
  ASSUME BatcherInv, EndingInv, flushed
  PROVE  PushedTo = Len(bytes)
<1>1. /\ ~Transforming /\ writable = <<>> /\ ending
      /\ PushedTo = begin
      /\ ~errored => sent = IF writable = <<>> THEN AcceptedTo ELSE Stop(writable)
  BY DEF BatcherInv, OrderInv, NoByteLost, WritableInv
<1>2. ~errored /\ sent = Len(bytes)
  BY <1>1 DEF EndingInv
<1> QED
  BY <1>1, <1>2 DEF AcceptedTo

\* A batch starts and stops between two records.
LEMMA StopsBetweenRecords ==
  ASSUME BatcherInv, EndingInv, NEW k \in 1 .. Len(pushed)
  PROVE  AtLineBreak(Stop(pushed[k]))
<1>1. CASE bytes[Stop(pushed[k])] = Newline
  BY <1>1 DEF AtLineBreak
<1>2. CASE k = Len(pushed) /\ flushed
  <2>1. pushed # <<>>
    OBVIOUS
  <2> QED
    BY <1>2, <2>1, FlushedToTheEnd DEF AtLineBreak, PushedTo
<1> QED
  BY <1>1, <1>2 DEF BatcherInv, WholeLines

\* A batch starts at a line.
LEMMA StartsBetweenRecords ==
  ASSUME BatcherInv, NEW k \in 1 .. Len(pushed)
  PROVE  Start(pushed[k]) = 0 \/ bytes[Start(pushed[k])] = Newline
<1>1. pushed \in Seq(Seq(Slice)) /\ pushed # <<>>
  BY DEF BatcherInv, BatcherTypeOK
<1>2. CASE k = 1
  BY <1>1, <1>2 DEF BatcherInv, NoByteLost
<1>3. CASE k # 1
  <2>1. k - 1 \in 1 .. Len(pushed) - 1 /\ k - 1 \in 1 .. Len(pushed) /\ (k - 1) + 1 = k
    BY <1>1, <1>3
  <2>2. Stop(pushed[k - 1]) = Start(pushed[k])
    BY <2>1 DEF BatcherInv, NoByteLost
  <2>3. bytes[Stop(pushed[k - 1])] = Newline
    BY <1>1, <2>1 DEF BatcherInv, WholeLines
  <2> QED
    BY <2>2, <2>3
<1> QED
  BY <1>2, <1>3

\* The kinds of bytes of a stream without blank lines whose records all have
\* the same fields.
Clean ==
  LET kinds == {bytes[p] : p \in DOMAIN bytes}
  IN  /\ Junk \notin kinds
      /\ Cardinality(kinds \ {Newline}) = 1
      /\ \A p \in DOMAIN bytes : bytes[p] = Newline => p > 1 /\ bytes[p - 1] # Newline

\* Of a source that is clean, every line is of one kind.
LEMMA OneKindOfRecord ==
  ASSUME BatcherInv, Clean
  PROVE  \E record : /\ {bytes[p] : p \in DOMAIN bytes} \ {Newline} = {record}
                     /\ record # Newline
<1> DEFINE kinds == {bytes[p] : p \in DOMAIN bytes}
<1>1. bytes \in Seq(Kinds) /\ Len(bytes) \in Nat /\ DOMAIN bytes = 1 .. Len(bytes)
  BY StreamsAssumption DEF BatcherInv, BatcherTypeOK
<1>2. IsFiniteSet(kinds)
  <2>1. bytes \in Surjection(DOMAIN bytes, kinds)
    BY <1>1 DEF Surjection
  <2>2. IsFiniteSet(DOMAIN bytes)
    BY <1>1, FS_Interval
  <2> QED
    BY <2>1, <2>2, FS_Surjection
<1>3. IsFiniteSet(kinds \ {Newline})
  BY <1>2, FS_Subset
<1>4. \E record : kinds \ {Newline} = {record}
  BY <1>3, FS_Singleton DEF Clean
<1> QED
  BY <1>4

\* A batch of such a stream is parsed, and has the fields of all the others.
LEMMA CleanBatch ==
  ASSUME BatcherInv, FilledInv, Clean, NEW k \in 1 .. Len(pushed), NEW record,
         {bytes[p] : p \in DOMAIN bytes} \ {Newline} = {record}
  PROVE  Schema(pushed[k]) = {record} /\ Junk \notin KindsOf(pushed[k])
<1> DEFINE from == Start(pushed[k])
           to   == Stop(pushed[k])
<1>1. from \in Nat /\ to \in Nat /\ from < to /\ to <= Len(bytes)
  BY BatchTypes DEF FilledInv, Filled
<1>2. bytes \in Seq(Kinds) /\ Len(bytes) \in Nat /\ DOMAIN bytes = 1 .. Len(bytes)
  BY StreamsAssumption DEF BatcherInv, BatcherTypeOK
<1>3. \A p \in from + 1 .. to : p \in DOMAIN bytes
  BY <1>1, <1>2
<1>4. Schema(pushed[k]) \subseteq {record} /\ Junk \notin KindsOf(pushed[k])
  BY <1>3 DEF Schema, KindsOf, Clean
<1>5. from + 1 \in from + 1 .. to /\ from + 1 \in DOMAIN bytes /\ (from + 1) - 1 = from
  BY <1>1, <1>3
<1>6. bytes[from + 1] # Newline
  <2> SUFFICES ASSUME bytes[from + 1] = Newline PROVE FALSE
    OBVIOUS
  <2>1. from + 1 > 1 /\ bytes[from] # Newline
    BY <1>5 DEF Clean
  <2> QED
    BY <1>1, <2>1, StartsBetweenRecords
<1>7. bytes[from + 1] \in Schema(pushed[k])
  <2>1. Start(pushed[k]) + 2 .. (from + 1) - 1 = {}
    BY <1>1
  <2>2. RecordsBefore(pushed[k], from + 1) = Cardinality({})
    <3>1. {p \in Start(pushed[k]) + 2 .. (from + 1) - 1 :
             bytes[p] = Newline /\ bytes[p - 1] # Newline} = {}
      BY <2>1
    <3> QED
      BY <3>1 DEF RecordsBefore
  <2>3. RecordsBefore(pushed[k], from + 1) < InferLength
    BY <2>2, FS_EmptySet, InferLengthAssumption
  <2> QED
    BY <1>5, <1>6, <2>3 DEF Schema
<1> QED
  BY <1>4, <1>7

----------------------------------------------------------------------------

\* What a resolved promise says is about the stream and the batches.
LEMMA ResolvesUntouched ==
  ASSUME ResolvesWithEveryBatch, bytes' = bytes, pushed' = pushed,
         promise' = promise, frame' = frame
  PROVE  ResolvesWithEveryBatch'
<1>1. \A batch : Schema(batch)' = Schema(batch)
  BY DEF Schema, RecordsBefore, Start, Stop
<1> QED
  BY <1>1 DEF ResolvesWithEveryBatch

\* A batcher step with the consumer at rest.
LEMMA BatchPreserves ==
  ASSUME JsonInv, Batch PROVE JsonInv'
<1>1. BatcherStep /\ UNCHANGED <<chunks, ended, promise, frame>>
  BY DEF Batch, consumerVars
<1>2. BatcherInv'
  BY <1>1, BatcherInductive DEF JsonInv, BatcherNext
<1>3. TypeOK'
  BY <1>1, <1>2 DEF JsonInv, TypeOK, BatcherInv
<1>4. /\ FilledInv' /\ bytes' = bytes /\ delivered' = delivered
      /\ \A k \in 1 .. Len(pushed) : pushed'[k] = pushed[k]
      /\ Len(pushed) <= Len(pushed')
      /\ flushed => flushed' /\ pushed' = pushed
  BY <1>1, FilledPreserved DEF JsonInv
<1>5. pushed \in Seq(Seq(Slice)) /\ delivered \in 0 .. Len(pushed)
  BY DEF JsonInv, TypeOK, BatcherTypeOK
<1>6. ParsedInv'
  <2>1. AnnouncedTo' = AnnouncedTo
    <3>1. delivered # 0 => pushed'[delivered] = pushed[delivered]
      BY <1>4, <1>5
    <3> QED
      BY <1>4, <3>1 DEF AnnouncedTo, Stop
  <2>2. \A k \in 1 .. delivered : pushed'[k] = pushed[k]
    BY <1>4, <1>5
  <2> QED
    BY <1>1, <1>4, <2>1, <2>2 DEF JsonInv, ParsedInv
<1>7. EndedInv'
  <2>1. CASE ended
    <3>1. pushed' = pushed /\ flushed' /\ delivered' = Len(pushed')
      BY <1>4, <2>1 DEF JsonInv, EndedInv
    <3>2. ResolvesWithEveryBatch => ResolvesWithEveryBatch'
      BY <1>1, <1>4, <3>1, ResolvesUntouched
    <3> QED
      BY <1>1, <2>1, <3>1, <3>2 DEF JsonInv, EndedInv
  <2>2. CASE ~ended
    BY <1>1, <2>2 DEF JsonInv, EndedInv
  <2> QED
    BY <2>1, <2>2
<1>8. EndingInv'
  <2>1. ASSUME NEW n \in 1 .. Len(bytes), SourceData(n) PROVE EndingInv'
    <3>1. source = "flowing"
      BY <2>1 DEF SourceData
    <3>2. ~ending
      BY <3>1 DEF JsonInv, EndingInv
    <3> QED
      BY <2>1, <3>2 DEF SourceData, JsonInv, EndingInv
  <2>2. CASE SourceEnd
    <3>1. source = "flowing"
      BY <2>2 DEF SourceEnd
    <3>2. ~ending
      BY <3>1 DEF JsonInv, EndingInv
    <3> QED
      BY <2>2, <3>2 DEF SourceEnd, JsonInv, EndingInv
  <2>3. CASE SourceFail
    BY <2>3 DEF SourceFail, JsonInv, EndingInv
  <2>4. CASE Transform \/ Flush
    <3>1. UNCHANGED <<bytes, sent, source, errored, piped, ending>>
      BY <2>4 DEF Transform, StartChunk, SkipByte, CountLine, CutBatch, EndChunk, Flush,
                  sourceVars
    <3> QED
      BY <3>1 DEF JsonInv, EndingInv
  <2>5. CASE Finish
    <3>1. UNCHANGED <<bytes, sent, source, errored, ending>> /\ flushed
      BY <2>5 DEF Finish, sourceVars
    <3>2. ending
      BY <3>1 DEF JsonInv, BatcherInv, OrderInv
    <3> QED
      BY <3>1, <3>2 DEF JsonInv, EndingInv
  <2> QED
    BY <1>1, <2>1, <2>2, <2>3, <2>4, <2>5 DEF BatcherStep
<1>9. CleanStreamsResolve'
  BY <1>1, <1>4 DEF JsonInv, CleanStreamsResolve
<1> QED
  BY <1>2, <1>3, <1>4, <1>6, <1>7, <1>8, <1>9 DEF JsonInv

\* The 'data' handler.
LEMMA OnDataPreserves ==
  ASSUME JsonInv, OnData PROVE JsonInv'
<1> DEFINE batch == pushed[delivered + 1]
<1>1. /\ delivered < Len(pushed) /\ ~errored
      /\ delivered' = delivered + 1
      /\ ending' = (ending \/ FALSE)
      /\ UNCHANGED <<bytes, sent, source, piped, pushed, flushed, errored, ended, frame>>
  BY DEF OnData, Data, sourceVars
<1>2. PICK parses \in ParseOutcomes(batch) :
        IF parses
        THEN chunks' = Append(chunks, batch) /\ UNCHANGED promise
        ELSE Settle("rejected") /\ UNCHANGED chunks
  BY DEF OnData
<1>3. BatcherInv'
  <2>1. Data(FALSE) /\ FALSE \in BOOLEAN
    BY DEF OnData
  <2>2. BatcherNext
    BY <2>1 DEF BatcherNext
  <2> QED
    BY <2>2, BatcherInductive DEF JsonInv
<1>4. /\ pushed \in Seq(Seq(Slice)) /\ delivered \in 0 .. Len(pushed)
      /\ chunks \in Seq(Seq(Slice)) /\ ended \in BOOLEAN
      /\ promise \in {"pending", "resolved", "rejected"} /\ ending \in BOOLEAN
      /\ frame \in Seq(Seq(Slice))
  BY DEF JsonInv, TypeOK, BatcherTypeOK
<1>5. delivered + 1 \in 1 .. Len(pushed) /\ batch \in Seq(Slice)
  BY <1>1, <1>4
<1>6. ~ended /\ promise # "resolved"
  BY <1>1, <1>4 DEF JsonInv, EndedInv
<1>7. promise' = IF parses THEN promise ELSE "rejected"
  BY <1>2, <1>4, <1>6 DEF Settle
<1>8. parses \in BOOLEAN /\ (parses => Junk \notin KindsOf(batch))
  BY <1>2 DEF ParseOutcomes
<1>9. TypeOK'
  <2>1. chunks' \in Seq(Seq(Slice))
    <3>1. Append(chunks, batch) \in Seq(Seq(Slice))
      BY <1>4, <1>5
    <3> QED
      BY <1>2, <1>4, <3>1
  <2>2. BatcherTypeOK'
    BY <1>3 DEF BatcherInv
  <2> QED
    BY <1>1, <1>4, <1>7, <1>8, <2>1, <2>2 DEF TypeOK
<1>10. FilledInv'
  BY <1>1 DEF JsonInv, FilledInv, Filled, Start, Stop
<1>11. EndingInv'
  BY <1>1 DEF JsonInv, EndingInv
<1>12. EndedInv'
  BY <1>1, <1>6, <1>7, <1>8 DEF EndedInv
<1>13. ParsedInv'
  <2> SUFFICES ASSUME promise' = "pending" PROVE ParsedInv'
    BY DEF ParsedInv
  <2>1. parses /\ promise = "pending" /\ chunks' = Append(chunks, batch)
    BY <1>2, <1>7, <1>8
  <2>2. /\ Len(chunks) = delivered
        /\ \A k \in 1 .. delivered : chunks[k] = pushed[k]
        /\ \A p \in 1 .. AnnouncedTo : bytes[p] # Junk
    BY <2>1 DEF JsonInv, ParsedInv
  <2>3. /\ Len(chunks') = delivered + 1 /\ chunks'[delivered + 1] = batch
        /\ \A k \in 1 .. delivered : chunks'[k] = chunks[k]
    BY <1>4, <1>5, <2>1, <2>2
  <2>4. \A k \in 1 .. delivered + 1 : chunks'[k] = pushed[k]
    <3> TAKE k \in 1 .. delivered + 1
    <3>1. k \in 1 .. delivered \/ k = delivered + 1
      BY <1>4
    <3> QED
      BY <2>2, <2>3, <3>1
  <2>5. Start(batch) = AnnouncedTo
    <3>1. CASE delivered = 0
      BY <1>4, <1>5, <3>1 DEF JsonInv, BatcherInv, NoByteLost, AnnouncedTo
    <3>2. CASE delivered # 0
      <4>1. delivered \in 1 .. Len(pushed) - 1
        BY <1>1, <1>4, <3>2
      <4> QED
        BY <3>2, <4>1 DEF JsonInv, BatcherInv, NoByteLost, AnnouncedTo
    <3> QED
      BY <3>1, <3>2
  <2>6. AnnouncedTo' = Stop(batch)
    BY <1>1, <1>4 DEF AnnouncedTo, Stop
  <2>7. \A p \in 1 .. Stop(batch) : bytes[p] # Junk
    <3> TAKE p \in 1 .. Stop(batch)
    <3>1. Start(batch) \in Nat /\ Stop(batch) \in Nat
      BY <1>5, BatchTypes DEF JsonInv
    <3>2. p \in 1 .. AnnouncedTo \/ p \in Start(batch) + 1 .. Stop(batch)
      BY <2>5, <3>1
    <3>3. p \in Start(batch) + 1 .. Stop(batch) => bytes[p] \in KindsOf(batch)
      BY DEF KindsOf
    <3> QED
      BY <1>8, <2>1, <2>2, <3>2, <3>3
  <2> QED
    BY <1>1, <2>3, <2>4, <2>6, <2>7 DEF ParsedInv
<1>14. CleanStreamsResolve'
  <2>1. CASE ~Clean
    BY <1>1, <2>1 DEF Clean, CleanStreamsResolve
  <2>2. CASE Clean
    <3>1. PICK record : {bytes[p] : p \in DOMAIN bytes} \ {Newline} = {record}
      BY <2>2, OneKindOfRecord DEF JsonInv
    <3>2. Schema(batch) = {record} /\ Junk \notin KindsOf(batch)
      BY <1>5, <2>2, <3>1, CleanBatch DEF JsonInv
    <3>3. AtLineBreak(Stop(batch))
      BY <1>5, StopsBetweenRecords DEF JsonInv
    <3>4. AtLineBreak(Start(batch))
      BY <1>5, StartsBetweenRecords DEF JsonInv, AtLineBreak
    <3>5. parses
      BY <1>2, <3>2, <3>3, <3>4 DEF ParseOutcomes
    <3>6. promise # "rejected"
      BY <2>2 DEF Clean, JsonInv, CleanStreamsResolve
    <3> QED
      BY <1>7, <3>5, <3>6 DEF CleanStreamsResolve
  <2> QED
    BY <2>1, <2>2
<1> QED
  BY <1>3, <1>9, <1>10, <1>11, <1>12, <1>13, <1>14 DEF JsonInv

\* Two sequences of one length with the same elements are one.
LEMMA SameSequence ==
  ASSUME NEW S, NEW s \in Seq(S), NEW t \in Seq(S), Len(s) = Len(t),
         \A k \in 1 .. Len(s) : s[k] = t[k]
  PROVE  s = t
OBVIOUS

\* The 'end' handler.
LEMMA OnEndPreserves ==
  ASSUME JsonInv, OnEnd PROVE JsonInv'
<1>1. /\ flushed /\ delivered = Len(pushed) /\ ~errored /\ ~ended
      /\ ended' = TRUE
      /\ UNCHANGED <<batcherVars, chunks>>
      /\ \/ /\ Concatenates(chunks) /\ Settle("resolved")
            /\ frame' = IF promise = "pending" THEN chunks ELSE frame
         \/ ~Concatenates(chunks) /\ Settle("rejected") /\ UNCHANGED frame
  BY DEF OnEnd, Exhausted
<1>2. BatcherInv'
  BY <1>1, BatcherInductive DEF JsonInv, BatcherNext
<1>3. UNCHANGED <<bytes, sent, source, piped, ending, pushed, delivered, flushed, errored>>
  BY <1>1 DEF batcherVars, sourceVars
<1>4. /\ pushed \in Seq(Seq(Slice)) /\ chunks \in Seq(Seq(Slice)) /\ frame \in Seq(Seq(Slice))
      /\ promise \in {"pending", "resolved", "rejected"}
      /\ bytes \in Seq(Kinds)
  BY StreamsAssumption DEF JsonInv, TypeOK, BatcherTypeOK
<1>5. promise # "resolved"
  BY <1>1 DEF JsonInv, EndedInv
<1>6. promise' \in {"resolved", "rejected"}
  BY <1>1, <1>4, <1>5 DEF Settle
<1>7. promise = "pending" =>
        chunks = pushed /\ Junk \notin {bytes[p] : p \in DOMAIN bytes}
  <2> SUFFICES ASSUME promise = "pending"
               PROVE  chunks = pushed /\ Junk \notin {bytes[p] : p \in DOMAIN bytes}
    OBVIOUS
  <2>1. /\ Len(chunks) = Len(pushed)
        /\ \A k \in 1 .. Len(pushed) : chunks[k] = pushed[k]
        /\ \A p \in 1 .. AnnouncedTo : bytes[p] # Junk
    BY <1>1 DEF JsonInv, ParsedInv
  <2>2. chunks = pushed
    <3>1. \A k \in 1 .. Len(chunks) : chunks[k] = pushed[k]
      BY <2>1
    <3> QED
      BY <1>4, <2>1, <3>1, SameSequence
  <2>3. AnnouncedTo = Len(bytes)
    <3>1. PushedTo = Len(bytes)
      BY <1>1, FlushedToTheEnd DEF JsonInv
    <3>2. pushed = <<>> <=> Len(pushed) = 0
      BY <1>4
    <3> QED
      BY <1>1, <3>1, <3>2 DEF AnnouncedTo, PushedTo
  <2>4. DOMAIN bytes = 1 .. Len(bytes)
    BY <1>4
  <2> QED
    BY <2>1, <2>2, <2>3, <2>4
<1>8. promise' = "resolved" =>
        /\ promise = "pending" /\ frame' = pushed
        /\ \A k \in DOMAIN frame' : Schema(frame'[k]) = Schema(frame'[1])
  <2> SUFFICES ASSUME promise' = "resolved"
               PROVE  /\ promise = "pending" /\ frame' = pushed
                      /\ \A k \in DOMAIN frame' : Schema(frame'[k]) = Schema(frame'[1])
    OBVIOUS
  <2>1. promise = "pending" /\ Concatenates(chunks) /\ frame' = chunks
    BY <1>1, <1>4, <1>5 DEF Settle
  <2> QED
    BY <1>7, <2>1 DEF Concatenates
<1>9. EndedInv'
  <2>1. \A batch : Schema(batch)' = Schema(batch)
    BY <1>3 DEF Schema, RecordsBefore, Start, Stop
  <2>2. promise' = "resolved" => ResolvesWithEveryBatch'
    BY <1>3, <1>7, <1>8, <2>1 DEF ResolvesWithEveryBatch
  <2> QED
    BY <1>1, <1>3, <2>2 DEF EndedInv
<1>10. TypeOK'
  <2>1. frame' \in Seq(Seq(Slice))
    BY <1>1, <1>4
  <2> QED
    BY <1>1, <1>2, <1>4, <1>6, <2>1 DEF TypeOK, BatcherInv
<1>11. FilledInv' /\ ParsedInv' /\ EndingInv'
  BY <1>1, <1>3, <1>6 DEF JsonInv, FilledInv, Filled, ParsedInv, EndingInv, Start, Stop
<1>12. CleanStreamsResolve'
  <2>1. CASE ~Clean
    BY <1>3, <2>1 DEF Clean, CleanStreamsResolve
  <2>2. CASE Clean
    <3>1. PICK record : {bytes[p] : p \in DOMAIN bytes} \ {Newline} = {record}
      BY <2>2, OneKindOfRecord DEF JsonInv
    <3>2. promise = "pending"
      BY <1>4, <1>5, <2>2 DEF Clean, JsonInv, CleanStreamsResolve
    <3>3. \A k \in 1 .. Len(pushed) : Schema(pushed[k]) = {record}
      BY <2>2, <3>1, CleanBatch DEF JsonInv
    <3>4. pushed # <<>>
      <4>1. PushedTo = Len(bytes)
        BY <1>1, FlushedToTheEnd DEF JsonInv
      <4>2. DOMAIN bytes # {}
        BY <3>1
      <4>3. Len(bytes) # 0
        BY <1>4, <4>2
      <4> QED
        BY <4>1, <4>3 DEF PushedTo
    <3>5. Concatenates(chunks)
      <4>1. /\ chunks = pushed /\ DOMAIN pushed = 1 .. Len(pushed)
            /\ 1 \in 1 .. Len(pushed)
        BY <1>4, <1>7, <3>2, <3>4
      <4> QED
        BY <3>3, <3>4, <4>1 DEF Concatenates
    <3>6. promise' = "resolved"
      BY <1>1, <3>2, <3>5 DEF Settle
    <3> QED
      BY <3>6 DEF CleanStreamsResolve
  <2> QED
    BY <2>1, <2>2
<1> QED
  BY <1>2, <1>9, <1>10, <1>11, <1>12 DEF JsonInv

\* A step of something else keeps the invariant.
LEMMA JsonStutters ==
  ASSUME JsonInv, UNCHANGED vars PROVE JsonInv'
<1>1. UNCHANGED <<batcherVars, chunks, ended, promise, frame>>
  BY DEF vars, consumerVars
<1>2. BatcherInv'
  BY <1>1, BatcherInductive DEF JsonInv, BatcherNext
<1>3. UNCHANGED <<bytes, sent, source, piped, ending, pushed, delivered, flushed, errored>>
  BY <1>1 DEF batcherVars, sourceVars
<1>4. TypeOK'
  BY <1>1, <1>2 DEF JsonInv, BatcherInv, TypeOK
<1>5. FilledInv' /\ ParsedInv' /\ EndingInv'
  BY <1>1, <1>3 DEF JsonInv, FilledInv, Filled, ParsedInv, AnnouncedTo, EndingInv, Start, Stop
<1>6. EndedInv'
  <2>1. ResolvesWithEveryBatch => ResolvesWithEveryBatch'
    BY <1>1, <1>3, ResolvesUntouched
  <2> QED
    BY <1>1, <1>3, <2>1 DEF JsonInv, EndedInv
<1>7. CleanStreamsResolve'
  BY <1>1, <1>3 DEF JsonInv, CleanStreamsResolve
<1> QED
  BY <1>2, <1>4, <1>5, <1>6, <1>7 DEF JsonInv

----------------------------------------------------------------------------

\* The invariant all the results below follow from holds in every state.
THEOREM JsonInvariant == Spec => []JsonInv
<1>1. Init => JsonInv
  BY JsonInitial
<1>2. JsonInv /\ [Next]_vars => JsonInv'
  BY BatchPreserves, OnDataPreserves, OnEndPreserves, JsonStutters DEF Next, Quiet
<1> QED
  BY <1>1, <1>2, PTL DEF Spec

\* readJSONStream keeps every variable in its type.
THEOREM JsonTypeCorrect == Spec => []TypeOK
<1>1. JsonInv => TypeOK
  BY DEF JsonInv
<1> QED
  BY <1>1, JsonInvariant, PTL

\* A promise that resolved did so with every batch of the stream, and none of
\* them was refused on the way.
THEOREM JsonResolvesWithEveryBatch == Spec => []ResolvesWithEveryBatch
<1>1. JsonInv => ResolvesWithEveryBatch
  BY DEF JsonInv, EndedInv, ResolvesWithEveryBatch
<1> QED
  BY <1>1, JsonInvariant, PTL

\* A stream of records with the same fields is never rejected, however it was
\* cut and whatever the batch size.
THEOREM JsonCleanStreamsResolve == Spec => []CleanStreamsResolve
<1>1. JsonInv => CleanStreamsResolve
  BY DEF JsonInv
<1> QED
  BY <1>1, JsonInvariant, PTL

----------------------------------------------------------------------------
(* readJSONStream implements StreamRead.                                   *)

\* Nothing is in `frame` until the promise resolves.
FrameInv == promise # "resolved" => frame = <<>>

\* Every step keeps the invariant of the frame.
LEMMA FrameInductive ==
  ASSUME JsonInv, FrameInv, [Next]_vars PROVE FrameInv'
<1>1. promise \in {"pending", "resolved", "rejected"}
  BY DEF JsonInv, TypeOK
<1>2. CASE Batch \/ UNCHANGED vars
  BY <1>2 DEF Batch, consumerVars, vars, FrameInv
<1>3. CASE OnData
  <2>1. UNCHANGED frame /\ (promise' = promise \/ promise' = "rejected" \/ promise = "resolved")
    BY <1>3 DEF OnData, Settle
  <2>2. promise # "resolved"
    <3>1. ~ended
      BY <1>3 DEF OnData, Data, JsonInv, EndedInv
    <3> QED
      BY <3>1 DEF JsonInv, EndedInv
  <2> QED
    BY <2>1, <2>2 DEF FrameInv
<1>4. CASE OnEnd
  BY <1>1, <1>4 DEF OnEnd, Settle, FrameInv
<1> QED
  BY <1>2, <1>3, <1>4 DEF Next, Quiet

\* All the batches of an ended stream are all its bytes.
LEMMA BytesOfTheStream ==
  ASSUME JsonInv, flushed
  PROVE  /\ Bytes(pushed) = [p \in 1 .. sent |-> p] /\ Len(Bytes(pushed)) = sent
         /\ source = "ended" /\ sent \in Nat
<1>1. pushed \in Seq(Seq(Slice)) /\ BatcherInv /\ EndingInv /\ sent \in Nat
  BY StreamsAssumption DEF JsonInv, TypeOK, BatcherTypeOK, Offset
<1>2. FromTheStart(pushed)
  BY <1>1, PrefixOfPushed
<1>3. source = "ended" /\ sent = Len(bytes)
  BY <1>1 DEF BatcherInv, OrderInv, EndingInv
<1>4. CoversTo(pushed) = sent
  BY <1>1, <1>3, FlushedToTheEnd DEF PushedTo, CoversTo
<1> QED
  BY <1>1, <1>2, <1>3, <1>4, BytesOfBatches

\* The reader starts as the promise does.
LEMMA JsonStartsAsPromised == Init => Promise!Init
<1> SUFFICES ASSUME Init PROVE Promise!Init
  OBVIOUS
<1>1. sent = 0 /\ source = "flowing" /\ promise = "pending" /\ frame = <<>>
  BY DEF Init, BatcherInit
<1>2. Bytes(<<>>) = <<>>
  <2>1. FromTheStart(<<>>) /\ CoversTo(<<>>) = 0
    BY DEF FromTheStart, CoversTo
  <2>2. Bytes(<<>>) = [p \in 1 .. 0 |-> p]
    BY <2>1, BytesOfBatches
  <2> QED
    BY <2>2
<1> QED
  BY <1>1, <1>2 DEF Promise!Init

\* A batcher step is bytes arriving, the source closing, or nothing to the
\* caller.
LEMMA BatchAsPromised ==
  ASSUME JsonInv, Batch PROVE [Promise!Next]_Promise!vars
<1>1. BatcherStep /\ UNCHANGED <<promise, frame>>
  BY DEF Batch, consumerVars
<1>2. ASSUME NEW n \in 1 .. Len(bytes), SourceData(n) PROVE Promise!Next
  <2>1. source = "flowing" /\ source' = source /\ sent' = sent + n /\ sent \in Nat /\ n \in Nat
    BY <1>2, StreamsAssumption DEF SourceData, JsonInv, TypeOK, BatcherTypeOK, Offset
  <2>2. sent' \in Nat /\ sent' > sent
    BY <1>2, <2>1
  <2>3. Promise!Arrive
    BY <1>1, <2>1, <2>2 DEF Promise!Arrive
  <2> QED
    BY <2>3 DEF Promise!Next
<1>3. CASE SourceEnd \/ SourceFail
  <2>1. source' # "flowing" /\ sent' = sent
    BY <1>3 DEF SourceEnd, SourceFail
  <2>2. Promise!Close
    BY <1>1, <2>1 DEF Promise!Close
  <2> QED
    BY <2>2 DEF Promise!Next
<1>4. CASE Transform \/ Flush \/ Finish
  <2>1. UNCHANGED <<sent, source>>
    BY <1>4 DEF Transform, StartChunk, SkipByte, CountLine, CutBatch, EndChunk, Flush,
                Finish, sourceVars
  <2> QED
    BY <1>1, <2>1 DEF Promise!vars
<1> QED
  BY <1>1, <1>2, <1>3, <1>4 DEF BatcherStep

\* A batch that does not parse rejects, once.
LEMMA OnDataAsPromised ==
  ASSUME JsonInv, OnData PROVE [Promise!Next]_Promise!vars
<1>1. UNCHANGED <<sent, source, frame>>
  BY DEF OnData, Data, sourceVars
<1>2. CASE UNCHANGED promise
  BY <1>1, <1>2 DEF Promise!vars
<1>3. CASE promise' # promise
  <2>1. promise = "pending" /\ promise' = "rejected"
    BY <1>3 DEF OnData, Settle
  <2>2. Promise!Reject
    BY <1>1, <2>1 DEF Promise!Reject
  <2> QED
    BY <2>2 DEF Promise!Next
<1> QED
  BY <1>2, <1>3

\* The 'end' handler resolves with all the bytes, or rejects.
LEMMA OnEndAsPromised ==
  ASSUME JsonInv, FrameInv, OnEnd PROVE [Promise!Next]_Promise!vars
<1>1. /\ flushed /\ ~ended
      /\ UNCHANGED <<sent, source>>
      /\ \/ /\ Settle("resolved")
            /\ frame' = IF promise = "pending" THEN chunks ELSE frame
         \/ Settle("rejected") /\ UNCHANGED frame
  BY DEF OnEnd, Exhausted, batcherVars, sourceVars
<1>2. CASE promise # "pending"
  <2>1. UNCHANGED <<promise, frame>>
    BY <1>1, <1>2 DEF Settle
  <2> QED
    BY <1>1, <2>1 DEF Promise!vars
<1>3. CASE promise = "pending" /\ promise' = "rejected"
  <2>1. UNCHANGED frame
    BY <1>1, <1>3 DEF Settle
  <2>2. Promise!Reject
    BY <1>1, <1>3, <2>1 DEF Promise!Reject
  <2> QED
    BY <2>2 DEF Promise!Next
<1>4. CASE promise = "pending" /\ promise' = "resolved"
  <2>1. ResolvesWithEveryBatch' /\ UNCHANGED pushed
    <3>1. EndedInv'
      BY OnEndPreserves DEF JsonInv
    <3> QED
      BY <1>4, <3>1 DEF EndedInv, OnEnd, batcherVars
  <2>2. frame' = pushed
    BY <1>4, <2>1 DEF ResolvesWithEveryBatch
  <2>3. /\ Bytes(frame') = [p \in 1 .. Len(Bytes(frame')) |-> p]
        /\ Len(Bytes(frame')) = sent /\ source = "ended" /\ sent \in Nat
    BY <1>1, <2>2, BytesOfTheStream
  <2>4. Len(Bytes(frame')) <= sent
    BY <2>3
  <2>5. Promise!Resolve
    BY <1>1, <1>4, <2>3, <2>4 DEF Promise!Resolve
  <2> QED
    BY <2>5 DEF Promise!Next
<1> QED
  BY <1>1, <1>2, <1>3, <1>4 DEF Settle

\* readJSONStream implements StreamRead, for every stream and chunking: its
\* promise settles at most once, and resolves only after the stream has ended,
\* with all of its bytes in order.
THEOREM JsonKeepsPromise == Spec => KeepsPromise
<1>1. Init => Promise!Init
  BY JsonStartsAsPromised
<1>2. JsonInv /\ FrameInv /\ [Next]_vars => [Promise!Next]_Promise!vars
  <2> SUFFICES ASSUME JsonInv, FrameInv, [Next]_vars PROVE [Promise!Next]_Promise!vars
    OBVIOUS
  <2>1. CASE Batch
    BY <2>1, BatchAsPromised
  <2>2. CASE OnData
    BY <2>2, OnDataAsPromised
  <2>3. CASE OnEnd
    BY <2>3, OnEndAsPromised
  <2>4. CASE UNCHANGED vars
    BY <2>4 DEF vars, batcherVars, sourceVars, consumerVars, Promise!vars
  <2> QED
    BY <2>1, <2>2, <2>3, <2>4 DEF Next, Quiet
<1>3. Init => FrameInv
  BY DEF Init, FrameInv
<1>4. JsonInv /\ FrameInv /\ [Next]_vars => FrameInv'
  BY FrameInductive
<1> QED
  BY <1>1, <1>2, <1>3, <1>4, JsonInvariant, PTL DEF Spec, KeepsPromise, Promise!Spec
=============================================================================
