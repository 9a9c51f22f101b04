---------------------------- MODULE WriteStream ----------------------------
(***************************************************************************)
(* writeCSV, writeJSON, writeParquet, writeAvro and writeIPC of DataFrame: *)
(* polars/dataframe.ts picks the destination, src/dataframe.rs runs a      *)
(* writer of the polars library over it, and src/file.rs hands every       *)
(* buffer of the writer to the JavaScript stream.                          *)
(*                                                                         *)
(* A call is synchronous.  No event of the stream is handled before it     *)
(* ends, so a sink that answers later finds the whole frame queued.  The   *)
(* k-th buffer that call c writes is known as <<c, k>>.                    *)
(***************************************************************************)
EXTENDS Integers, Sequences

CONSTANTS
  MaxCalls,    (* calls that a program makes                               *)
  MaxChunks,   (* buffers that a writer makes of a frame                   *)
  Spool        (* buffers that a BufWriter holds back                      *)

ASSUME BoundsAssumption == MaxCalls \in Nat /\ MaxChunks \in Nat /\ Spool \in Nat

VARIABLES
  calls,       (* the calls made, the last of them maybe running           *)
  next,        (* buffers that the last call has written                   *)
  scratch,     (* what the writer's own buffer holds, for every write anew *)
  handed,      (* the buffers the caller's stream accepted, oldest first   *)
  held,        (* the one that its _write works on, or Idle                *)
  queue,       (* those that wait for it                                   *)
  consumed,    (* those that _write is done with, as it read them          *)
  ended,       (* the caller called end() on the stream                    *)
  finished,    (* the stream has announced 'finish'                        *)
  errored,     (* the stream was destroyed by an error                     *)
  buffers,     (* `buffers` of a call without a destination                *)
  spooled,     (* what the BufWriter of a call to a path holds back        *)
  file,        (* what the file holds                                      *)
  diskFull     (* a write of the last call to the disk has failed          *)

callVars   == <<calls, next, scratch>>
streamVars == <<handed, held, queue, consumed, ended, finished, errored>>
fileVars   == <<spooled, file, diskFull>>
vars       == <<callVars, streamVars, buffers, fileVars>>

Destinations == {"stream", "memory", "path"}
Formats      == {"csv", "json"}       \* json stands alone, the others are as csv
Outcomes     == {"running", "returned", "throws", "panics"}

Chunk == (1 .. MaxCalls) \X (1 .. MaxChunks)
Idle    == <<0, 0>>
Scratch == <<0, 1>>      \* not the content of a buffer, but the writer's own buffer

Call ==
  [to : Destinations, format : Formats, chunks : 1 .. MaxChunks, outcome : Outcomes,
   result : Seq(Chunk)]

Last    == calls[Len(calls)]
Running == calls # <<>> /\ Last.outcome = "running"
Crashed == calls # <<>> /\ Last.outcome = "panics"

End(outcome, result) ==
  calls' = [calls EXCEPT ![Len(calls)].outcome = outcome, ![Len(calls)].result = result]

\* The buffers of call c.
Frame(c) == [k \in 1 .. calls[c].chunks |-> <<c, k>>]

Init ==
  /\ calls = <<>> /\ next = 0 /\ scratch = Idle
  /\ handed = <<>> /\ held = Idle /\ queue = <<>> /\ consumed = <<>>
  /\ ended = FALSE /\ finished = FALSE /\ errored = FALSE
  /\ buffers = <<>>
  /\ spooled = <<>> /\ file = <<>> /\ diskFull = FALSE
-----------------------------------------------------------------------------
\* A call.  A path is created, and what was there is gone, before anything is
\* written; a stream of its own collects the buffers where there is no
\* destination.
Write(to, format, chunks) ==
  /\ ~Running /\ ~Crashed /\ Len(calls) < MaxCalls
  /\ calls' = Append(calls, [to |-> to, format |-> format, chunks |-> chunks,
                             outcome |-> "running", result |-> <<>>])
  /\ next' = 0
  /\ buffers' = <<>>
  /\ spooled' = <<>>
  /\ file' = IF to = "path" THEN <<>> ELSE file
  /\ diskFull' = FALSE
  /\ UNCHANGED <<scratch, streamVars>>

\* File::create(path).unwrap() of a path that cannot be created.
CreateFails(format, chunks) ==
  /\ ~Running /\ ~Crashed /\ Len(calls) < MaxCalls
  /\ calls' = Append(calls, [to |-> "path", format |-> format, chunks |-> chunks,
                             outcome |-> "panics", result |-> <<>>])
  /\ next' = 0
  /\ UNCHANGED <<scratch, streamVars, buffers, fileVars>>

\* The writer fills its buffer with its next bytes and writes them out.
Produces(to) ==
  /\ Running /\ Last.to = to /\ next < Last.chunks
  /\ next' = next + 1
  /\ scratch' = <<Len(calls), next + 1>>

\* Fault: the Buffer lies over the writer's memory.
JsBufferShared == Scratch

\* create_buffer_with_data(buf.to_owned()): the Buffer has its own copy.
JsBuffer == scratch'

\* What is in a Buffer when it is read.
Bytes(chunk) == IF chunk = Scratch THEN scratch ELSE chunk

\* Fault: a stream that asks for a pause is not given the Buffer.
StreamQueuedNotGiven ==
  /\ Produces("stream")
  /\ ~ended /\ ~errored /\ held # Idle
  /\ UNCHANGED <<calls, streamVars, buffers, fileVars>>

\* `write` of the caller's stream: after end() the stream is destroyed, and with
\* it what is queued; while _write is busy the Buffer is queued; else _write has
\* it at once and answers now, later, with an error, or throws, which the native
\* code unwraps.  Nobody looks at what `write` returns.
StreamLost ==
  /\ Produces("stream")
  /\ ended \/ errored
  /\ errored' = (errored \/ ~finished)
  /\ queue' = <<>> /\ held' = Idle
  /\ UNCHANGED <<calls, handed, consumed, ended, finished, buffers, fileVars>>

StreamQueued ==
  /\ Produces("stream")
  /\ ~ended /\ ~errored /\ held # Idle
  /\ handed' = Append(handed, scratch')
  /\ queue' = Append(queue, JsBuffer)
  /\ UNCHANGED <<calls, held, consumed, ended, finished, errored, buffers, fileVars>>

StreamTaken ==
  /\ Produces("stream")
  /\ ~ended /\ ~errored /\ held = Idle
  /\ handed' = Append(handed, scratch')
  /\ \/ /\ consumed' = Append(consumed, scratch')
        /\ UNCHANGED <<held, errored>>
     \/ /\ held' = JsBuffer
        /\ UNCHANGED <<consumed, errored>>
     \/ /\ errored' = TRUE
        /\ UNCHANGED <<held, consumed>>
  /\ UNCHANGED <<calls, queue, ended, finished, buffers, fileVars>>

StreamThrows ==
  /\ Running /\ Last.to = "stream" /\ next < Last.chunks
  /\ ~ended /\ ~errored /\ held = Idle
  /\ End("panics", <<>>)
  /\ UNCHANGED <<next, scratch, streamVars, buffers, fileVars>>

\* Fault: `callback(null)` is not called, and the stream stays busy.
CollectOnce ==
  /\ Produces("memory")
  /\ buffers' = IF buffers = <<>> THEN <<scratch'>> ELSE buffers
  /\ UNCHANGED <<calls, streamVars, fileVars>>

\* write(chunk, _encoding, callback) of the stream of a call without a destination.
Collect ==
  /\ Produces("memory")
  /\ buffers' = Append(buffers, scratch')
  /\ UNCHANGED <<calls, streamVars, fileVars>>

\* Fault: a buffer that does not fit goes to the file before those held back.
SpoolsLate ==
  /\ Produces("path")
  /\ IF Len(spooled) < Spool
     THEN spooled' = Append(spooled, scratch') /\ UNCHANGED file
     ELSE file' = Append(file, scratch') /\ UNCHANGED spooled
  /\ UNCHANGED <<calls, streamVars, buffers, diskFull>>

\* BufWriter::new(f): the buffers are held back until there is no room for more.
Spools ==
  /\ Produces("path")
  /\ IF Len(spooled) < Spool
     THEN spooled' = Append(spooled, scratch') /\ UNCHANGED file
     ELSE file' = Append(file \o spooled, scratch') /\ spooled' = <<>>
  /\ UNCHANGED <<calls, streamVars, buffers, diskFull>>

\* What is held back cannot be written: the writer reports it, and the drop of
\* the BufWriter has nothing to write to.
SpoolFails ==
  /\ Running /\ Last.to = "path" /\ next < Last.chunks /\ Len(spooled) = Spool
  /\ diskFull' = TRUE
  /\ spooled' = <<>>
  /\ End("throws", <<>>)
  /\ UNCHANGED <<next, scratch, streamVars, buffers, file>>

\* The writer itself fails, on a column it has no format for: what it has written
\* stays written.  writeJSON to a stream unwraps the error.
WriterFails ==
  /\ Running /\ next < Last.chunks
  /\ End(IF Last.format = "json" /\ Last.to # "path" THEN "panics" ELSE "throws", <<>>)
  /\ file' = file \o spooled
  /\ spooled' = <<>>
  /\ UNCHANGED <<next, scratch, streamVars, buffers, diskFull>>

\* The writer has finished.  Without a destination the call returns
\* Buffer.concat(buffers); with a path the BufWriter is dropped.
Return ==
  /\ Running /\ next = Last.chunks
  /\ End("returned", IF Last.to = "memory" THEN buffers ELSE <<>>)
  /\ file' = file \o spooled
  /\ spooled' = <<>>
  /\ UNCHANGED <<next, scratch, streamVars, buffers, diskFull>>

\* The disk fails as the last of it is written: a writer that ends with flush()
\* reports it, one that leaves it to the drop does not.
LastSpoolFails ==
  /\ Running /\ Last.to = "path" /\ next = Last.chunks /\ spooled # <<>>
  /\ \E outcome \in {"returned", "throws"} : End(outcome, <<>>)
  /\ diskFull' = TRUE
  /\ spooled' = <<>>
  /\ UNCHANGED <<next, scratch, streamVars, buffers, file>>
-----------------------------------------------------------------------------
(* The event loop, between the calls.                                      *)

Turn == ~Running /\ ~Crashed

\* _write of the stream is done with its chunk, and has the next of the queue.
SinkDone ==
  /\ Turn /\ held # Idle
  /\ consumed' = Append(consumed, Bytes(held))
  /\ held' = IF queue = <<>> THEN Idle ELSE Head(queue)
  /\ queue' = IF queue = <<>> THEN <<>> ELSE Tail(queue)
  /\ UNCHANGED <<callVars, handed, ended, finished, errored, buffers, fileVars>>

\* It fails: the stream is destroyed, and the queue with it.
SinkFails ==
  /\ Turn /\ held # Idle
  /\ errored' = TRUE
  /\ held' = Idle /\ queue' = <<>>
  /\ UNCHANGED <<callVars, handed, consumed, ended, finished, buffers, fileVars>>

\* The caller ends the stream, which finishes once it has consumed everything.
EndStream ==
  /\ Turn /\ ~ended
  /\ ended' = TRUE
  /\ UNCHANGED <<callVars, handed, held, queue, consumed, finished, errored, buffers, fileVars>>

FinishStream ==
  /\ Turn /\ ended /\ ~finished /\ ~errored /\ held = Idle
  /\ finished' = TRUE
  /\ UNCHANGED <<callVars, handed, held, queue, consumed, ended, errored, buffers, fileVars>>

Native ==
  \/ StreamLost \/ StreamQueued \/ StreamTaken \/ StreamThrows
  \/ Collect
  \/ Spools \/ SpoolFails
  \/ WriterFails \/ Return \/ LastSpoolFails

EventLoop == SinkDone \/ SinkFails \/ EndStream \/ FinishStream

Next ==
  \/ \E to \in Destinations, format \in Formats, chunks \in 1 .. MaxChunks :
       Write(to, format, chunks)
  \/ \E format \in Formats, chunks \in 1 .. MaxChunks : CreateFails(format, chunks)
  \/ Native
  \/ EventLoop

Spec == Init /\ [][Next]_vars
-----------------------------------------------------------------------------
Prefix(s, t) == Len(s) <= Len(t) /\ \A k \in 1 .. Len(s) : s[k] = t[k]

CallsTyped ==
  /\ calls \in Seq(Call) /\ Len(calls) <= MaxCalls
  /\ \A c \in 1 .. Len(calls) - 1 : calls[c].outcome \in {"returned", "throws"}
  /\ next \in 0 .. MaxChunks
  /\ Running => next <= Last.chunks

BuffersTyped ==
  /\ scratch \in Chunk \cup {Idle}
  /\ held \in Chunk \cup {Idle}
  /\ handed \in Seq(Chunk) /\ queue \in Seq(Chunk) /\ consumed \in Seq(Chunk)
  /\ buffers \in Seq(Chunk) /\ spooled \in Seq(Chunk) /\ file \in Seq(Chunk)

FlagsTyped == {ended, finished, errored, diskFull} \subseteq BOOLEAN

TypeOK == CallsTyped /\ BuffersTyped /\ FlagsTyped

\* What the stream has consumed and what it still holds is what write() gave it,
\* byte for byte and in that order, although the writer's own buffer is filled
\* anew before the stream reads it; a stream that fails has consumed a prefix.
NothingReordered ==
  /\ Prefix(consumed, handed)
  /\ held = Idle => queue = <<>>
  /\ ~errored =>
       LET busy == IF held = Idle THEN 0 ELSE 1 IN
       /\ Len(handed) = Len(consumed) + busy + Len(queue)
       /\ held # Idle => handed[Len(consumed) + 1] = Bytes(held)
       /\ \A k \in 1 .. Len(queue) : handed[Len(consumed) + 1 + k] = Bytes(queue[k])

\* The sink's input is the frames, one after the other: no buffer of one call
\* lies between those of another, and only a call that failed leaves a gap.
FramesDoNotMix ==
  \A k \in 1 .. Len(handed) :
    LET c == handed[k][1]
        last == k = Len(handed)
        gap == calls[c].outcome # "returned"
    IN  /\ calls[c].to = "stream"
        /\ handed[k][2] > 1 => k > 1 /\ handed[k - 1] = <<c, handed[k][2] - 1>>
        /\ handed[k][2] < calls[c].chunks =>
             \/ gap
             \/ errored
             \/ ~last /\ handed[k + 1] = <<c, handed[k][2] + 1>>

\* A stream that announces 'finish' has the whole of every frame whose call
\* returned while it was open.
FinishedIsWhole ==
  finished =>
    /\ consumed = handed
    /\ \A k \in 1 .. Len(handed) :
         LET c == handed[k][1]
         IN  calls[c].outcome = "returned" =>
               \E j \in 1 .. Len(consumed) : consumed[j] = <<c, calls[c].chunks>>

\* A call without a destination returns the whole frame.
MemoryIsWhole ==
  \A c \in 1 .. Len(calls) :
    calls[c].to = "memory" /\ calls[c].outcome = "returned" => calls[c].result = Frame(c)

\* A file holds a prefix of the frame last written to it, and all of it once the
\* call has returned; where the disk failed, a call that returned all the same has
\* lost no more than the BufWriter held.
FileIsWhole ==
  LET frame == Frame(Len(calls)) IN
  calls # <<>> /\ Last.to = "path" /\ Last.outcome # "panics" =>
    /\ Prefix(file \o spooled, frame)
    /\ Last.outcome = "returned" =>
         IF diskFull THEN Len(file) + Spool >= Last.chunks ELSE file = frame
=============================================================================
