---------------------------- MODULE LineBatcher ----------------------------
(***************************************************************************)
(* polars/io.ts, class LineBatcher: the Transform stream that regroups the *)
(* byte chunks of a source into batches of whole lines, and the Node       *)
(* streams machinery around it as readCSVStream and readJSONStream use it: *)
(* `stream.pipe(new LineBatcher({ batchSize }))`.                          *)
(*                                                                         *)
(* A byte is known by its offset in the source stream and its kind; the    *)
(* only kind the batcher tells apart is the newline.  A Buffer returned by *)
(* chunk.subarray(b, e) is the slice [from |-> b, to |-> e] of absolute    *)
(* offsets, `to` excluded, and Buffer.concat(list) is the list of slices,  *)
(* so that a lost, repeated or reordered byte is visible.                  *)
(*                                                                         *)
(* _transform is modelled one loop iteration per step and not as one step: *)
(* push() runs the consumer's 'data' handler synchronously, in the middle  *)
(* of the loop, when the readable side is flowing and empty, and later     *)
(* from the readable buffer otherwise.                                     *)
(***************************************************************************)
EXTENDS Integers, Sequences, FiniteSets

CONSTANTS
  Kinds,       (* kinds of bytes                                           *)
  Newline,     (* the kind of byte 10                                      *)
  Streams,     (* the byte streams a source may carry                      *)
  BatchSize,   (* options.batchSize; 0 never equals a count after ++       *)
  WriteAhead   (* chunks the writable side buffers before pipe() pauses    *)

ASSUME NewlineAssumption == Newline \in Kinds
ASSUME StreamsAssumption == Streams \subseteq Seq(Kinds)
ASSUME BatchSizeAssumption == BatchSize \in Nat
ASSUME WriteAheadAssumption == WriteAhead \in Nat

VARIABLES
  bytes,            (* the stream's content; chosen once                   *)
  sent,             (* number of bytes the source has emitted              *)
  source,           (* "flowing", "ended" or "failed"                      *)
  piped,            (* pipe()'s listeners are still attached               *)
  writable,         (* chunks accepted by write() and not yet transformed  *)
  ending,           (* end() was called on the transform                   *)
  chunk,            (* the argument of the running _transform, or NoChunk  *)
  i,                (* its loop index, as an offset                        *)
  begin,            (* its `begin`, as an offset                           *)
  lines,            (* #lines                                              *)
  accumulatedLines, (* #accumulatedLines                                   *)
  pushed,           (* every batch given to push(), oldest first           *)
  delivered,        (* how many of them 'data' has announced               *)
  flushed,          (* _flush has run and the readable side is closed      *)
  errored           (* the transform was destroyed by an error             *)

sourceVars  == <<bytes, sent, source>>
privateVars == <<chunk, i, begin, lines, accumulatedLines>>
batcherVars == <<sourceVars, piped, writable, ending, privateVars,
                 pushed, delivered, flushed, errored>>

Offset  == 0 .. Len(bytes)
Slice   == [from : Nat, to : Nat]
NoChunk == [from |-> 0, to |-> 0]     \* Node never emits an empty chunk

Transforming == chunk # NoChunk

\* Fault: chunk.subarray(begin, i) in place of chunk.subarray(begin, i + 1).
PendingWithoutNewline(upTo) == Append(lines, [from |-> begin, to |-> upTo - 1])

\* #lines with the bytes of the running chunk from `begin` on: what a push()
\* would hand over if it happened now.
Pending(upTo) == Append(lines, [from |-> begin, to |-> upTo])

----------------------------------------------------------------------------
(* The source and pipe().                                                  *)

BatcherInit ==
  /\ bytes \in Streams
  /\ sent = 0
  /\ source = "flowing"
  /\ piped = TRUE
  /\ writable = <<>>
  /\ ending = FALSE
  /\ chunk = NoChunk
  /\ i = 0
  /\ begin = 0
  /\ lines = <<>>
  /\ accumulatedLines = 0
  /\ pushed = <<>>
  /\ delivered = 0
  /\ flushed = FALSE
  /\ errored = FALSE

\* The source emits its next n bytes and pipe() writes them.  A write after
\* end() destroys the transform with an error, whose handler detaches pipe().
SourceData(n) ==
  /\ ~Transforming
  /\ source = "flowing" /\ piped
  /\ sent + n <= Len(bytes)
  /\ Len(writable) <= WriteAhead
  /\ sent' = sent + n
  /\ IF ending
     THEN /\ errored' = TRUE
          /\ piped' = FALSE
          /\ UNCHANGED writable
     ELSE /\ writable' = Append(writable, [from |-> sent, to |-> sent + n])
          /\ UNCHANGED <<errored, piped>>
  /\ UNCHANGED <<bytes, source, ending, privateVars, pushed, delivered, flushed>>

\* The source has no more data: pipe(), if still attached, calls end().
SourceEnd ==
  /\ ~Transforming
  /\ source = "flowing"
  /\ sent = Len(bytes) \/ ~piped
  /\ source' = "ended"
  /\ ending' = (ending \/ piped)
  /\ UNCHANGED <<bytes, sent, piped, writable, privateVars, pushed, delivered,
                 flushed, errored>>

\* The source fails: pipe() forwards neither the error nor an end.
SourceFail ==
  /\ ~Transforming
  /\ source = "flowing"
  /\ source' = "failed"
  /\ UNCHANGED <<bytes, sent, piped, writable, ending, privateVars, pushed,
                 delivered, flushed, errored>>

----------------------------------------------------------------------------
(* _transform(chunk, _encoding, done).                                     *)

\* The call: `var begin = 0; let i = 0`.
StartChunk ==
  /\ ~Transforming /\ ~errored
  /\ writable # <<>>
  /\ chunk' = Head(writable)
  /\ writable' = Tail(writable)
  /\ i' = Head(writable).from
  /\ begin' = Head(writable).from
  /\ UNCHANGED <<sourceVars, piped, ending, lines, accumulatedLines, pushed,
                 delivered, flushed, errored>>

\* One iteration over a byte that is not a newline.
SkipByte ==
  /\ Transforming /\ i < chunk.to
  /\ bytes[i + 1] # Newline
  /\ i' = i + 1
  /\ UNCHANGED <<sourceVars, piped, writable, ending, chunk, begin, lines,
                 accumulatedLines, pushed, delivered, flushed, errored>>

\* One iteration over a newline that does not complete a batch.
CountLine ==
  /\ Transforming /\ i < chunk.to
  /\ bytes[i + 1] = Newline
  /\ accumulatedLines + 1 # BatchSize
  /\ accumulatedLines' = accumulatedLines + 1
  /\ i' = i + 1
  /\ UNCHANGED <<sourceVars, piped, writable, ending, chunk, begin, lines,
                 pushed, delivered, flushed, errored>>

\* Fault: `this.#accumulatedLines = 0` is missing.
CutBatchKeepsCount ==
  /\ Transforming /\ i < chunk.to
  /\ bytes[i + 1] = Newline
  /\ accumulatedLines + 1 = BatchSize
  /\ pushed' = Append(pushed, Pending(i + 1))
  /\ lines' = <<>>
  /\ accumulatedLines' = accumulatedLines + 1
  /\ begin' = i + 1
  /\ i' = i + 1
  /\ UNCHANGED <<sourceVars, piped, writable, ending, chunk, delivered, flushed,
                 errored>>

\* One iteration over the newline that completes a batch.
CutBatch ==
  /\ Transforming /\ i < chunk.to
  /\ bytes[i + 1] = Newline
  /\ accumulatedLines + 1 = BatchSize
  /\ pushed' = Append(pushed, Pending(i + 1))
  /\ lines' = <<>>
  /\ accumulatedLines' = 0
  /\ begin' = i + 1
  /\ i' = i + 1
  /\ UNCHANGED <<sourceVars, piped, writable, ending, chunk, delivered, flushed,
                 errored>>

\* Fault: the rest of the chunk is not kept.
EndChunkForgetsRest ==
  /\ Transforming /\ i = chunk.to
  /\ begin' = chunk.to
  /\ chunk' = NoChunk
  /\ UNCHANGED <<sourceVars, piped, writable, ending, i, lines, accumulatedLines,
                 pushed, delivered, flushed, errored>>

\* Fault: lines are counted per chunk.
EndChunkRecounts ==
  /\ Transforming /\ i = chunk.to
  /\ lines' = Pending(chunk.to)
  /\ begin' = chunk.to
  /\ chunk' = NoChunk
  /\ accumulatedLines' = 0
  /\ UNCHANGED <<sourceVars, piped, writable, ending, i, pushed, delivered,
                 flushed, errored>>

\* After the loop: keep the rest of the chunk, which may be empty, and done().
EndChunk ==
  /\ Transforming /\ i = chunk.to
  /\ lines' = Pending(chunk.to)
  /\ begin' = chunk.to
  /\ chunk' = NoChunk
  /\ UNCHANGED <<sourceVars, piped, writable, ending, i, accumulatedLines,
                 pushed, delivered, flushed, errored>>

----------------------------------------------------------------------------
(* _flush(done), the end of the stream, and what the consumer sees.        *)

\* Fault: _flush ends the stream without pushing what is left.
FlushDropsRest ==
  /\ ending /\ ~flushed /\ ~errored
  /\ ~Transforming /\ writable = <<>>
  /\ flushed' = TRUE
  /\ UNCHANGED <<sourceVars, piped, writable, ending, privateVars, pushed,
                 delivered, errored>>

\* Fault: _flush calls done() only when lines are left to push.
FlushOnlyWithRest ==
  /\ ending /\ ~flushed /\ ~errored
  /\ ~Transforming /\ writable = <<>>
  /\ lines # <<>>
  /\ pushed' = Append(pushed, lines)
  /\ flushed' = TRUE
  /\ UNCHANGED <<sourceVars, piped, writable, ending, privateVars, delivered,
                 errored>>

\* Once ended and drained: _flush pushes what is left (Node drops an empty
\* Buffer) and the readable side is closed.
Flush ==
  /\ ending /\ ~flushed /\ ~errored
  /\ ~Transforming /\ writable = <<>>
  /\ pushed' = IF \E k \in DOMAIN lines : lines[k].from # lines[k].to
               THEN Append(pushed, lines) ELSE pushed
  /\ flushed' = TRUE
  /\ UNCHANGED <<sourceVars, piped, writable, ending, privateVars, delivered,
                 errored>>

\* 'finish' reaches pipe(), which detaches from the source.
Finish ==
  /\ flushed /\ piped
  /\ piped' = FALSE
  /\ UNCHANGED <<sourceVars, writable, ending, privateVars, pushed, delivered,
                 flushed, errored>>

\* 'data' announces the next batch.  `stop` tells whether the handler calls
\* end() on the transform.
Data(stop) ==
  /\ delivered < Len(pushed) /\ ~errored
  /\ delivered' = delivered + 1
  /\ ending' = (ending \/ stop)
  /\ UNCHANGED <<sourceVars, piped, writable, privateVars, pushed, flushed,
                 errored>>

\* The readable side is exhausted: the condition under which 'end' is emitted.
Exhausted == flushed /\ delivered = Len(pushed) /\ ~errored

Transform == StartChunk \/ SkipByte \/ CountLine \/ CutBatch \/ EndChunk

BatcherStep ==
  \/ \E n \in 1 .. Len(bytes) : SourceData(n)
  \/ SourceEnd
  \/ SourceFail
  \/ Transform
  \/ Flush
  \/ Finish

----------------------------------------------------------------------------
(* What the batcher promises.                                              *)

BatcherTypeOK ==
  /\ bytes \in Streams
  /\ sent \in Offset
  /\ source \in {"flowing", "ended", "failed"}
  /\ piped \in BOOLEAN
  /\ writable \in Seq(Slice)
  /\ ending \in BOOLEAN
  /\ chunk \in Slice
  /\ i \in Offset
  /\ begin \in Offset
  /\ lines \in Seq(Slice)
  /\ accumulatedLines \in Nat
  /\ BatchSize > 0 => accumulatedLines < BatchSize
  /\ pushed \in Seq(Seq(Slice))
  /\ delivered \in 0 .. Len(pushed)
  /\ flushed \in BOOLEAN
  /\ errored \in BOOLEAN

\* Newlines among the bytes from offset `from` to offset `to`, excluded.
NewlinesIn(from, to) ==
  Cardinality({p \in from + 1 .. to : bytes[p] = Newline})

\* A list of slices that leaves out no byte and repeats none.
Contiguous(slices) ==
  /\ \A k \in 1 .. Len(slices) : slices[k].from <= slices[k].to
  /\ \A k \in 1 .. Len(slices) - 1 : slices[k].to = slices[k + 1].from

Start(slices) == slices[1].from
Stop(slices)  == slices[Len(slices)].to

\* Where the bytes pushed so far stop.
PushedTo == IF pushed = <<>> THEN 0 ELSE Stop(pushed[Len(pushed)])

\* No byte is lost, repeated or reordered: the batches are adjacent pieces of
\* the stream from its first byte on, and what #lines holds follows them.
NoByteLost ==
  /\ \A k \in 1 .. Len(pushed) : pushed[k] # <<>> /\ Contiguous(pushed[k])
  /\ pushed # <<>> => Start(pushed[1]) = 0
  /\ \A k \in 1 .. Len(pushed) - 1 : Stop(pushed[k]) = Start(pushed[k + 1])
  /\ Contiguous(lines)
  /\ lines # <<>> => Stop(lines) = begin
  /\ ~flushed => PushedTo = IF lines = <<>> THEN begin ELSE Start(lines)
  /\ flushed => PushedTo = begin

\* A batch never splits a record: every batch but the one _flush pushes holds
\* exactly BatchSize lines, the last of them complete.
WholeLines ==
  \A k \in 1 .. Len(pushed) :
    \/ /\ NewlinesIn(Start(pushed[k]), Stop(pushed[k])) = BatchSize
       /\ bytes[Stop(pushed[k])] = Newline
    \/ k = Len(pushed) /\ flushed
=============================================================================
