------------------------- MODULE WriteStreamProofs -------------------------
(***************************************************************************)
(* Proofs about WriteStream, for every number of calls and of buffers.     *)
(***************************************************************************)
EXTENDS WriteStream, TLAPS, WellFoundedInduction

USE BoundsAssumption

\* The buffers that the running call has collected.
Collected ==
  Running /\ Last.to = "memory" => buffers = [k \in 1 .. next |-> <<Len(calls), k>>]

\* A stream that has finished or failed is at rest, and does not wake.
Quiet == (finished \/ errored => held = Idle) /\ (finished => ended)

Inv == TypeOK /\ Quiet /\ NothingReordered /\ Collected /\ MemoryIsWhole
-----------------------------------------------------------------------------
\* The references to no buffer are none of the contents.
LEMMA IdleNoChunk == Idle \notin Chunk /\ Scratch \notin Chunk /\ Idle # Scratch
  BY DEF Idle, Scratch, Chunk

\* Sequences of buffers stay such when they are joined, and grow.
LEMMA ChunkSequences ==
  /\ <<>> \in Seq(Chunk)
  /\ \A s, t \in Seq(Chunk) : s \o t \in Seq(Chunk)
  /\ \A s \in Seq(Chunk), x \in Chunk : Append(s, x) \in Seq(Chunk)
  OBVIOUS

\* A buffer that the writer produces is one of the frame of the running call.
LEMMA ProducesChunk ==
  ASSUME CallsTyped, NEW to, Produces(to)
  PROVE  scratch' \in Chunk /\ next' \in 0 .. MaxChunks /\ next' <= Last.chunks
  <1>1. Last \in Call /\ Len(calls) \in 1 .. MaxCalls
    BY DEF CallsTyped, Produces, Running, Last
  <1>2. Last.chunks \in 1 .. MaxChunks
    BY <1>1 DEF Call
  <1> QED
    BY <1>1, <1>2 DEF CallsTyped, Produces, Chunk

\* The end of a call changes its outcome and result, and no other call.
LEMMA EndCall ==
  ASSUME CallsTyped, Running, NEW outcome \in Outcomes, NEW result \in Seq(Chunk),
         End(outcome, result)
  PROVE  /\ calls' \in Seq(Call) /\ Len(calls') = Len(calls)
         /\ \A c \in 1 .. Len(calls) - 1 : calls'[c] = calls[c]
         /\ calls'[Len(calls)] = [Last EXCEPT !.outcome = outcome, !.result = result]
  <1>1. Last \in Call /\ Len(calls) \in 1 .. Len(calls)
    BY DEF CallsTyped, Running, Last
  <1>2. [Last EXCEPT !.outcome = outcome, !.result = result] \in Call
    BY <1>1 DEF Call
  <1>3. calls' = [calls EXCEPT ![Len(calls)] =
                    [Last EXCEPT !.outcome = outcome, !.result = result]]
    BY <1>1 DEF End, Last, Call, CallsTyped
  <1> QED
    BY <1>1, <1>2, <1>3 DEF CallsTyped

\* The types after a call has ended in a way that lets the program go on or not.
LEMMA EndTypes ==
  ASSUME CallsTyped, Running, NEW outcome \in Outcomes \ {"running"}, NEW result \in Seq(Chunk),
         End(outcome, result)
  PROVE  /\ calls' \in Seq(Call) /\ Len(calls') <= MaxCalls
         /\ \A c \in 1 .. Len(calls') - 1 : calls'[c].outcome \in {"returned", "throws"}
         /\ ~Running'
  <1>1. Last \in Call
    BY DEF CallsTyped, Running, Last
  <1>2. calls'[Len(calls)] = [Last EXCEPT !.outcome = outcome, !.result = result]
    BY EndCall
  <1>3. calls'[Len(calls)].outcome = outcome
    BY <1>1, <1>2 DEF Call
  <1> QED
    BY <1>3, EndCall DEF CallsTyped, Running, Last, Outcomes

\* A call begins when none is running.
LEMMA BeginTypes ==
  ASSUME CallsTyped, ~Running, ~Crashed, Len(calls) < MaxCalls, NEW call \in Call,
         calls' = Append(calls, call)
  PROVE  /\ calls' \in Seq(Call) /\ Len(calls') <= MaxCalls
         /\ Len(calls') = Len(calls) + 1 /\ Last' = call
         /\ \A c \in 1 .. Len(calls) : calls'[c] = calls[c]
         /\ \A c \in 1 .. Len(calls') - 1 : calls'[c].outcome \in {"returned", "throws"}
  <1>1. calls # <<>> => Last \in Call
    BY DEF CallsTyped, Last
  <1>2. calls # <<>> => Last.outcome \in {"returned", "throws"}
    BY <1>1 DEF Running, Crashed, Call, Outcomes
  <1> QED
    BY <1>2 DEF CallsTyped, Last
-----------------------------------------------------------------------------
\* Nothing is written, and no call runs, at first.
LEMMA InitInv == Init => Inv
  <1> SUFFICES ASSUME Init PROVE Inv
    OBVIOUS
  <1>1. CallsTyped
    BY DEF Init, CallsTyped, Running
  <1>2. BuffersTyped
    BY DEF Init, BuffersTyped
  <1>3. FlagsTyped
    BY DEF Init, FlagsTyped
  <1>4. Quiet /\ NothingReordered /\ Collected /\ MemoryIsWhole
    BY DEF Init, Quiet, NothingReordered, Prefix, Collected, MemoryIsWhole, Running, Idle
  <1> QED
    BY <1>1, <1>2, <1>3, <1>4 DEF Inv, TypeOK

\* A step adds a call or ends the running one.
LEMMA CallsStep == CallsTyped /\ BuffersTyped /\ [Next]_vars => CallsTyped'
  <1> SUFFICES ASSUME CallsTyped, BuffersTyped, [Next]_vars PROVE CallsTyped'
    OBVIOUS
  <1>1. ASSUME NEW to \in Destinations, NEW format \in Formats, NEW chunks \in 1 .. MaxChunks,
               Write(to, format, chunks)
        PROVE  CallsTyped'
    <2> DEFINE call == [to |-> to, format |-> format, chunks |-> chunks,
                        outcome |-> "running", result |-> <<>>]
    <2>1. call \in Call /\ call.chunks \in Nat
      BY DEF Call, Outcomes
    <2>2. calls' = Append(calls, call) /\ ~Running /\ ~Crashed /\ Len(calls) < MaxCalls
          /\ next' = 0
      BY <1>1 DEF Write
    <2> HIDE DEF call
    <2> QED
      BY <2>1, <2>2, BeginTypes DEF CallsTyped
  <1>2. ASSUME NEW format \in Formats, NEW chunks \in 1 .. MaxChunks,
               CreateFails(format, chunks)
        PROVE  CallsTyped'
    <2> DEFINE call == [to |-> "path", format |-> format, chunks |-> chunks,
                        outcome |-> "panics", result |-> <<>>]
    <2>1. call \in Call /\ call.outcome # "running"
      BY DEF Call, Outcomes, Destinations
    <2>2. calls' = Append(calls, call) /\ ~Running /\ ~Crashed /\ Len(calls) < MaxCalls
          /\ next' = 0
      BY <1>2 DEF CreateFails
    <2> HIDE DEF call
    <2> QED
      BY <2>1, <2>2, BeginTypes DEF CallsTyped, Running
  <1>3. ASSUME NEW to \in Destinations, Produces(to), UNCHANGED calls
        PROVE  CallsTyped'
    BY <1>3, ProducesChunk DEF CallsTyped, Running, Last
  <1>4. ASSUME Running, UNCHANGED next, NEW outcome \in Outcomes \ {"running"},
               NEW result \in Seq(Chunk), End(outcome, result)
        PROVE  CallsTyped'
    BY <1>4, EndTypes DEF CallsTyped
  <1>5. ASSUME UNCHANGED callVars
        PROVE  CallsTyped'
    BY <1>5 DEF CallsTyped, Running, Last, callVars
  <1>6. CASE StreamLost \/ StreamQueued \/ StreamTaken \/ Collect \/ Spools
    BY <1>3, <1>6 DEF StreamLost, StreamQueued, StreamTaken, Collect, Spools, Destinations
  <1>7. CASE StreamThrows \/ SpoolFails \/ WriterFails \/ LastSpoolFails
    <2>1. Running /\ UNCHANGED next
      BY <1>7, Zenon DEF StreamThrows, SpoolFails, WriterFails, LastSpoolFails
    <2>2. \E outcome \in Outcomes \ {"running"} : End(outcome, <<>>)
      <3>1. \/ \E outcome \in {"returned", "throws", "panics"} : End(outcome, <<>>)
            \/ End(IF Last.format = "json" /\ Last.to # "path" THEN "panics" ELSE "throws", <<>>)
        BY <1>7, Zenon DEF StreamThrows, SpoolFails, WriterFails, LastSpoolFails
      <3> QED
        BY <3>1 DEF Outcomes
    <2> QED
      BY <1>4, <2>1, <2>2, ChunkSequences
  <1>8. CASE Return
    <2>1. (IF Last.to = "memory" THEN buffers ELSE <<>>) \in Seq(Chunk)
      BY DEF BuffersTyped
    <2> QED
      BY <1>4, <1>8, <2>1 DEF Return, Outcomes
  <1>9. CASE EventLoop
    BY <1>5, <1>9 DEF EventLoop, SinkDone, SinkFails, EndStream, FinishStream
  <1>10. CASE UNCHANGED vars
    BY <1>5, <1>10 DEF vars
  <1> QED
    BY <1>1, <1>2, <1>6, <1>7, <1>8, <1>9, <1>10 DEF Next, Native

\* A step moves whole buffers from where they are to where they go.
LEMMA BuffersStep == CallsTyped /\ BuffersTyped /\ [Next]_vars => BuffersTyped'
  <1> SUFFICES ASSUME CallsTyped, BuffersTyped, [Next]_vars PROVE BuffersTyped'
    OBVIOUS
  <1>1. ASSUME NEW to \in Destinations, Produces(to) PROVE scratch' \in Chunk
    BY <1>1, ProducesChunk
  <1>2. ASSUME NEW to \in Destinations, NEW format \in Formats, NEW chunks \in 1 .. MaxChunks,
               Write(to, format, chunks)
        PROVE  BuffersTyped'
    BY <1>2 DEF Write, BuffersTyped, streamVars
  <1>3. ASSUME NEW format \in Formats, NEW chunks \in 1 .. MaxChunks,
               CreateFails(format, chunks)
        PROVE  BuffersTyped'
    BY <1>3 DEF CreateFails, BuffersTyped, streamVars, fileVars
  <1>4. CASE StreamLost
    BY <1>1, <1>4 DEF StreamLost, BuffersTyped, fileVars, Destinations
  <1>5. CASE StreamQueued
    BY <1>1, <1>5 DEF StreamQueued, JsBuffer, BuffersTyped, fileVars, Destinations
  <1>6. CASE StreamTaken
    <2>1. /\ scratch' \in Chunk /\ handed' = Append(handed, scratch') /\ UNCHANGED queue
          /\ UNCHANGED <<buffers, spooled, file>>
          /\ held' = scratch' \/ UNCHANGED held
          /\ consumed' = Append(consumed, scratch') \/ UNCHANGED consumed
      BY <1>1, <1>6, Zenon DEF StreamTaken, JsBuffer, fileVars, Destinations
    <2> QED
      BY <2>1, ChunkSequences DEF BuffersTyped
  <1>7. CASE Collect
    BY <1>1, <1>7 DEF Collect, BuffersTyped, streamVars, fileVars, Destinations
  <1>8. CASE Spools
    <2>1. /\ scratch' \in Chunk /\ UNCHANGED <<handed, held, queue, consumed, buffers>>
          /\ spooled' = Append(spooled, scratch') \/ spooled' = <<>>
          /\ file' = Append(file \o spooled, scratch') \/ UNCHANGED file
      BY <1>1, <1>8, Zenon DEF Spools, streamVars, Destinations
    <2>2. spooled \in Seq(Chunk) /\ file \in Seq(Chunk)
      BY DEF BuffersTyped
    <2>3. spooled' \in Seq(Chunk)
      BY <2>1, <2>2, ChunkSequences
    <2>4. file' \in Seq(Chunk)
      <3>1. file \o spooled \in Seq(Chunk)
        BY <2>2, ChunkSequences
      <3> QED
        BY <2>1, <2>2, <3>1, ChunkSequences
    <2> QED
      BY <2>1, <2>3, <2>4 DEF BuffersTyped
  <1>9. CASE StreamThrows \/ SpoolFails \/ LastSpoolFails
    <2>1. /\ UNCHANGED <<scratch, handed, held, queue, consumed, buffers, file>>
          /\ spooled' = <<>> \/ UNCHANGED spooled
      BY <1>9, Zenon DEF StreamThrows, SpoolFails, LastSpoolFails, streamVars, fileVars
    <2> QED
      BY <2>1, ChunkSequences DEF BuffersTyped
  <1>10. CASE WriterFails \/ Return
    <2>1. /\ UNCHANGED <<scratch, handed, held, queue, consumed, buffers>>
          /\ file' = file \o spooled /\ spooled' = <<>>
      BY <1>10, Zenon DEF WriterFails, Return, streamVars
    <2> QED
      BY <2>1, ChunkSequences DEF BuffersTyped
  <1>11. CASE SinkDone
    <2>1. held \in Chunk /\ Bytes(held) \in Chunk
      BY <1>11, IdleNoChunk DEF SinkDone, BuffersTyped, Bytes
    <2> QED
      BY <1>11, <2>1 DEF SinkDone, BuffersTyped, callVars, fileVars
  <1>12. CASE SinkFails \/ EndStream \/ FinishStream
    <2>1. /\ UNCHANGED <<scratch, handed, consumed, buffers, spooled, file>>
          /\ held' = Idle \/ UNCHANGED held
          /\ queue' = <<>> \/ UNCHANGED queue
      BY <1>12, Zenon DEF SinkFails, EndStream, FinishStream, callVars, fileVars
    <2> QED
      BY <2>1, ChunkSequences DEF BuffersTyped
  <1>13. CASE UNCHANGED vars
    BY <1>13 DEF BuffersTyped, vars, callVars, streamVars, fileVars
  <1> QED
    BY <1>2, <1>3, <1>4, <1>5, <1>6, <1>7, <1>8, <1>9, <1>10, <1>11, <1>12, <1>13
       DEF Next, Native, EventLoop

\* The flags stay flags.
LEMMA FlagsStep == FlagsTyped /\ [Next]_vars => FlagsTyped'
  <1> SUFFICES ASSUME FlagsTyped, [Next]_vars PROVE FlagsTyped'
    OBVIOUS
  <1> USE DEF FlagsTyped
  <1>1. ASSUME NEW to \in Destinations, NEW format \in Formats, NEW chunks \in 1 .. MaxChunks,
               Write(to, format, chunks)
        PROVE  FlagsTyped'
    BY <1>1, Zenon DEF Write, streamVars
  <1>2. ASSUME NEW format \in Formats, NEW chunks \in 1 .. MaxChunks,
               CreateFails(format, chunks)
        PROVE  FlagsTyped'
    BY <1>2, Zenon DEF CreateFails, streamVars, fileVars
  <1>3. CASE StreamLost
    BY <1>3, Zenon DEF StreamLost, fileVars
  <1>4. CASE StreamQueued
    BY <1>4, Zenon DEF StreamQueued, fileVars
  <1>5. CASE StreamTaken
    BY <1>5, Zenon DEF StreamTaken, fileVars
  <1>6. CASE StreamThrows \/ Collect \/ SpoolFails \/ LastSpoolFails
    BY <1>6, Zenon DEF StreamThrows, Collect, SpoolFails, LastSpoolFails, streamVars, fileVars
  <1>7. CASE Spools \/ WriterFails \/ Return
    BY <1>7, Zenon DEF Spools, WriterFails, Return, streamVars
  <1>8. CASE EventLoop
    BY <1>8, Zenon DEF EventLoop, SinkDone, SinkFails, EndStream, FinishStream, fileVars
  <1>9. CASE UNCHANGED vars
    BY <1>9, Zenon DEF vars, streamVars, fileVars
  <1> QED
    BY <1>1, <1>2, <1>3, <1>4, <1>5, <1>6, <1>7, <1>8, <1>9 DEF Next, Native

\* Every variable keeps its type.
THEOREM TypeCorrect == Spec => []TypeOK
  <1>1. Init => TypeOK
    BY InitInv DEF Inv
  <1>2. TypeOK /\ [Next]_vars => TypeOK'
    BY CallsStep, BuffersStep, FlagsStep DEF TypeOK
  <1> QED
    BY <1>1, <1>2, PTL DEF Spec
-----------------------------------------------------------------------------
(* What the stream holds.                                                  *)

\* A stream at rest stays at rest.
LEMMA QuietStep == Quiet /\ [Next]_vars => Quiet'
  <1> SUFFICES ASSUME Quiet, [Next]_vars PROVE Quiet'
    OBVIOUS
  <1> USE DEF Quiet
  <1>1. ASSUME NEW to \in Destinations, NEW format \in Formats, NEW chunks \in 1 .. MaxChunks,
               Write(to, format, chunks)
        PROVE  Quiet'
    BY <1>1, Zenon DEF Write, streamVars
  <1>2. ASSUME NEW format \in Formats, NEW chunks \in 1 .. MaxChunks,
               CreateFails(format, chunks)
        PROVE  Quiet'
    BY <1>2, Zenon DEF CreateFails, streamVars
  <1>3. CASE StreamLost
    BY <1>3 DEF StreamLost
  <1>4. CASE StreamQueued \/ StreamTaken
    <2>1. ~ended /\ UNCHANGED <<ended, finished>>
      BY <1>4, Zenon DEF StreamQueued, StreamTaken
    <2>2. errored' => held' = Idle
      BY <1>4, Zenon DEF StreamQueued, StreamTaken
    <2> QED
      BY <2>1, <2>2, Zenon
  <1>5. CASE StreamThrows \/ Collect \/ Spools \/ SpoolFails \/ WriterFails \/ Return
             \/ LastSpoolFails
    <2>1. UNCHANGED streamVars
      BY <1>5, Zenon DEF StreamThrows, Collect, Spools, SpoolFails, WriterFails, Return,
                         LastSpoolFails
    <2> QED
      BY <2>1, Zenon DEF streamVars
  <1>6. CASE SinkDone
    BY <1>6, Zenon DEF SinkDone
  <1>7. CASE SinkFails
    BY <1>7, Zenon DEF SinkFails
  <1>8. CASE EndStream
    BY <1>8, Zenon DEF EndStream
  <1>9. CASE FinishStream
    BY <1>9, Zenon DEF FinishStream
  <1>10. CASE UNCHANGED vars
    BY <1>10, Zenon DEF vars, streamVars
  <1> QED
    BY <1>1, <1>2, <1>3, <1>4, <1>5, <1>6, <1>7, <1>8, <1>9, <1>10 DEF Next, Native, EventLoop

\* A stream that is not touched, or fails with what it has left, holds what it held.
LEMMA OrderKept ==
  ASSUME BuffersTyped, BuffersTyped', NothingReordered, UNCHANGED <<handed, consumed>>,
         \/ UNCHANGED <<held, queue>> /\ (errored => errored')
         \/ errored' /\ held' = Idle /\ queue' = <<>>
         \/ errored' /\ UNCHANGED <<held, queue>>
  PROVE  NothingReordered'
  <1>1. Prefix(consumed, handed)' /\ (held = Idle => queue = <<>>)'
    BY DEF NothingReordered, Prefix
  <1>2. CASE errored'
    BY <1>1, <1>2 DEF NothingReordered
  <1>3. CASE ~errored'
    <2>1. UNCHANGED <<handed, held, queue, consumed>> /\ ~errored
      BY <1>3, Zenon
    <2>2. \A chunk \in Chunk \cup {Idle} : Bytes(chunk) = chunk /\ Bytes(chunk)' = chunk
      BY IdleNoChunk DEF Bytes
    <2> QED
      BY <1>1, <2>1, <2>2 DEF NothingReordered, BuffersTyped
  <1> QED
    BY <1>2, <1>3

\* A buffer consumed is the oldest the stream was handed and has not consumed.
LEMMA OrderStep == TypeOK /\ Quiet /\ NothingReordered /\ [Next]_vars => NothingReordered'
  <1> SUFFICES ASSUME TypeOK, Quiet, NothingReordered, [Next]_vars PROVE NothingReordered'
    OBVIOUS
  <1>1. CallsTyped /\ BuffersTyped /\ BuffersTyped'
    BY BuffersStep DEF TypeOK
  <1>2. /\ held \in Chunk \cup {Idle} /\ handed \in Seq(Chunk)
        /\ queue \in Seq(Chunk) /\ consumed \in Seq(Chunk)
    BY <1>1 DEF BuffersTyped
  <1>3. \A chunk \in Chunk \cup {Idle} : Bytes(chunk) = chunk /\ Bytes(chunk)' = chunk
    BY IdleNoChunk DEF Bytes
  <1>4. ASSUME NEW to \in Destinations, Produces(to) PROVE scratch' \in Chunk
    BY <1>1, <1>4, ProducesChunk
  <1>5. ASSUME NEW to \in Destinations, NEW format \in Formats, NEW chunks \in 1 .. MaxChunks,
               Write(to, format, chunks)
        PROVE  NothingReordered'
    BY <1>1, <1>5, OrderKept DEF Write, streamVars
  <1>6. ASSUME NEW format \in Formats, NEW chunks \in 1 .. MaxChunks,
               CreateFails(format, chunks)
        PROVE  NothingReordered'
    BY <1>1, <1>6, OrderKept DEF CreateFails, streamVars
  <1>7. CASE StreamLost
    <2>1. /\ UNCHANGED <<handed, consumed>> /\ held' = Idle /\ queue' = <<>>
          /\ errored' = (errored \/ ~finished)
      BY <1>7, Zenon DEF StreamLost
    <2>2. CASE errored \/ ~finished
      BY <1>1, <2>1, <2>2, OrderKept
    <2>3. CASE ~errored /\ finished
      <3>1. held = Idle /\ queue = <<>> /\ ~errored'
        BY <2>1, <2>3 DEF Quiet, NothingReordered
      <3> QED
        BY <1>1, <2>1, <2>3, <3>1, OrderKept
    <2> QED
      BY <2>2, <2>3
  <1>8. CASE StreamQueued
    <2>1. /\ handed' = Append(handed, scratch') /\ queue' = Append(queue, scratch')
          /\ held # Idle /\ UNCHANGED <<held, consumed, errored>> /\ ~errored
      BY <1>8, Zenon DEF StreamQueued, JsBuffer
    <2>2. scratch' \in Chunk
      BY <1>4, <1>8 DEF StreamQueued, Destinations
    <2>3. Prefix(consumed, handed)' /\ held' # Idle
      BY <1>2, <2>1, <2>2 DEF NothingReordered, Prefix
    <2>4. /\ Len(handed) = Len(consumed) + 1 + Len(queue)
          /\ Len(handed') = Len(consumed') + 1 + Len(queue')
      <3>1. Len(handed) = Len(consumed) + 1 + Len(queue)
        BY <2>1, Zenon DEF NothingReordered
      <3> QED
        BY <1>2, <2>1, <2>2, <3>1
    <2>5. handed'[Len(consumed') + 1] = Bytes(held)'
      BY <1>2, <1>3, <2>1, <2>2 DEF NothingReordered
    <2>6. ASSUME NEW k \in 1 .. Len(queue')
          PROVE  handed'[Len(consumed') + 1 + k] = Bytes(queue[k])'
      <3>1. queue'[k] \in Chunk
        BY <1>1 DEF BuffersTyped
      <3>2. handed'[Len(consumed') + 1 + k] = queue'[k]
        <4>1. CASE k = Len(queue')
          BY <1>2, <2>1, <2>2, <2>4, <4>1
        <4>2. CASE k # Len(queue')
          <5>1. k \in 1 .. Len(queue) /\ queue'[k] = queue[k] /\ queue[k] \in Chunk
            BY <1>2, <2>1, <2>2, <4>2
          <5>2. handed[Len(consumed) + 1 + k] = Bytes(queue[k])
            BY <2>1, <5>1 DEF NothingReordered
          <5> QED
            BY <1>2, <1>3, <2>1, <2>2, <2>4, <5>1, <5>2
        <4> QED
          BY <4>1, <4>2
      <3> QED
        BY <1>3, <3>1, <3>2
    <2> QED
      BY <2>1, <2>3, <2>4, <2>5, <2>6 DEF NothingReordered
  <1>9. CASE StreamTaken
    <2>1. /\ handed' = Append(handed, scratch') /\ UNCHANGED queue
          /\ ~errored /\ held = Idle
          /\ \/ consumed' = Append(consumed, scratch') /\ UNCHANGED <<held, errored>>
             \/ held' = scratch' /\ UNCHANGED <<consumed, errored>>
             \/ errored' /\ UNCHANGED <<held, consumed>>
      BY <1>9, Zenon DEF StreamTaken, JsBuffer
    <2>2. scratch' \in Chunk /\ queue = <<>>
      BY <1>4, <1>9, <2>1 DEF StreamTaken, Destinations, NothingReordered
    <2>3. CASE consumed' = Append(consumed, scratch') /\ UNCHANGED <<held, errored>>
      BY <1>2, <2>1, <2>2, <2>3 DEF NothingReordered, Prefix
    <2>4. CASE held' = scratch' /\ UNCHANGED <<consumed, errored>>
      BY <1>2, <1>3, <2>1, <2>2, <2>4, IdleNoChunk DEF NothingReordered, Prefix
    <2>5. CASE errored' /\ UNCHANGED <<held, consumed>>
      BY <1>2, <2>1, <2>2, <2>5 DEF NothingReordered, Prefix
    <2> QED
      BY <2>1, <2>3, <2>4, <2>5
  <1>10. CASE StreamThrows \/ Collect \/ Spools \/ SpoolFails \/ WriterFails \/ Return
              \/ LastSpoolFails
    <2>1. UNCHANGED streamVars
      BY <1>10, Zenon DEF StreamThrows, Collect, Spools, SpoolFails, WriterFails, Return,
                          LastSpoolFails
    <2> QED
      BY <1>1, <2>1, OrderKept DEF streamVars
  <1>11. CASE SinkDone
    <2>1. /\ consumed' = Append(consumed, Bytes(held)) /\ UNCHANGED <<handed, errored>>
          /\ held # Idle
          /\ held' = IF queue = <<>> THEN Idle ELSE Head(queue)
          /\ queue' = IF queue = <<>> THEN <<>> ELSE Tail(queue)
      BY <1>11, Zenon DEF SinkDone
    <2>2. ~errored /\ Bytes(held) = held
      BY <1>2, <1>3, <2>1 DEF Quiet
    <2>3. CASE queue = <<>>
      BY <1>2, <1>3, <2>1, <2>2, <2>3 DEF NothingReordered, Prefix
    <2>4. CASE queue # <<>>
      <3>1. /\ held' = queue[1] /\ Len(queue') = Len(queue) - 1
            /\ held' \in Chunk
            /\ \A k \in 1 .. Len(queue') : queue'[k] = queue[k + 1]
        BY <1>2, <2>1, <2>4
      <3>2. held' # Idle /\ Len(consumed') = Len(consumed) + 1
        BY <1>2, <2>1, <3>1, IdleNoChunk
      <3>3. Prefix(consumed, handed)'
        BY <1>2, <2>1, <2>2 DEF NothingReordered, Prefix
      <3>4. Len(handed') = Len(consumed') + 1 + Len(queue')
        <4>1. Len(handed) = Len(consumed) + 1 + Len(queue)
          BY <2>1, <2>2, Zenon DEF NothingReordered
        <4>2. handed' = handed /\ Len(consumed) \in Nat /\ Len(queue) \in Nat
          BY <1>2, <2>1
        <4>3. Len(queue') = Len(queue) - 1 /\ Len(consumed') = Len(consumed) + 1
          BY <3>1, <3>2
        <4>4. Len(handed') = Len(consumed) + 1 + Len(queue)
          BY <4>1, <4>2
        <4> QED
          BY <4>2, <4>3, <4>4
      <3>5. handed'[Len(consumed') + 1] = Bytes(held)'
        <4>1. handed[Len(consumed) + 1 + 1] = queue[1]
          BY <1>2, <1>3, <2>1, <2>2, <2>4 DEF NothingReordered
        <4> QED
          BY <1>2, <1>3, <2>1, <3>1, <3>2, <4>1
      <3>6. ASSUME NEW k \in 1 .. Len(queue')
            PROVE  handed'[Len(consumed') + 1 + k] = Bytes(queue[k])'
        <4>1. queue'[k] \in Chunk /\ k + 1 \in 1 .. Len(queue) /\ queue'[k] = queue[k + 1]
          BY <1>1, <1>2, <3>1 DEF BuffersTyped
        <4>2. handed[Len(consumed) + 1 + (k + 1)] = queue[k + 1]
          BY <1>2, <1>3, <2>1, <2>2, <4>1 DEF NothingReordered
        <4> QED
          BY <1>2, <1>3, <2>1, <3>2, <4>1, <4>2
      <3> QED
        BY <2>1, <3>2, <3>3, <3>4, <3>5, <3>6 DEF NothingReordered
    <2> QED
      BY <2>3, <2>4
  <1>12. CASE SinkFails
    BY <1>1, <1>12, OrderKept DEF SinkFails
  <1>13. CASE EndStream \/ FinishStream
    <2>1. UNCHANGED <<handed, consumed, held, queue, errored>>
      BY <1>13, Zenon DEF EndStream, FinishStream
    <2> QED
      BY <1>1, <2>1, OrderKept
  <1>14. CASE UNCHANGED vars
    BY <1>1, <1>14, OrderKept DEF vars, streamVars
  <1> QED
    BY <1>5, <1>6, <1>7, <1>8, <1>9, <1>10, <1>11, <1>12, <1>13, <1>14
       DEF Next, Native, EventLoop

\* What the stream has consumed and still holds is what it was given, in order.
THEOREM OrderCorrect == Spec => []NothingReordered
  <1>1. Init => TypeOK /\ Quiet /\ NothingReordered
    BY InitInv DEF Inv
  <1>2. TypeOK /\ Quiet /\ NothingReordered /\ [Next]_vars
          => (TypeOK /\ Quiet /\ NothingReordered)'
    BY CallsStep, BuffersStep, FlagsStep, QuietStep, OrderStep DEF TypeOK
  <1> QED
    BY <1>1, <1>2, PTL DEF Spec
-----------------------------------------------------------------------------
(* What a call without a destination returns.                              *)

\* A call into memory collects its buffers one by one, and returns all of them.
LEMMA MemoryStep ==
  TypeOK /\ Collected /\ MemoryIsWhole /\ [Next]_vars => Collected' /\ MemoryIsWhole'
  <1> SUFFICES ASSUME TypeOK, Collected, MemoryIsWhole, [Next]_vars
               PROVE  Collected' /\ MemoryIsWhole'
    OBVIOUS
  <1>1. CallsTyped /\ BuffersTyped
    BY DEF TypeOK
  <1>2. ASSUME UNCHANGED <<calls, next, buffers>> PROVE Collected' /\ MemoryIsWhole'
    BY <1>2 DEF Collected, MemoryIsWhole, Running, Last, Frame
  <1>3. ASSUME UNCHANGED calls PROVE MemoryIsWhole'
    BY <1>3 DEF MemoryIsWhole, Frame
  <1>4. ASSUME NEW call \in Call, calls' = Append(calls, call), call.outcome # "returned",
               ~Running, ~Crashed, Len(calls) < MaxCalls
        PROVE  MemoryIsWhole'
    <2>1. \A c \in 1 .. Len(calls) : calls'[c] = calls[c] /\ Frame(c)' = Frame(c)
      BY <1>1, <1>4, BeginTypes DEF Frame
    <2>2. Len(calls') = Len(calls) + 1 /\ calls'[Len(calls) + 1] = call
      BY <1>1, <1>4 DEF CallsTyped
    <2> QED
      BY <1>1, <1>4, <2>1, <2>2 DEF MemoryIsWhole, CallsTyped
  <1>5. ASSUME Running, NEW outcome \in Outcomes \ {"running"}, NEW result \in Seq(Chunk),
               End(outcome, result),
               outcome = "returned" /\ Last.to = "memory" => result = Frame(Len(calls))
        PROVE  Collected' /\ MemoryIsWhole'
    <2>1. ~Running'
      BY <1>1, <1>5, EndTypes
    <2>2. /\ Len(calls') = Len(calls)
          /\ \A c \in 1 .. Len(calls) - 1 : calls'[c] = calls[c]
          /\ calls'[Len(calls)] = [Last EXCEPT !.outcome = outcome, !.result = result]
      BY <1>1, <1>5, EndCall DEF Outcomes
    <2>7. Len(calls) \in Nat
      BY <1>1 DEF CallsTyped
    <2>3. Last \in Call /\ Last = calls[Len(calls)]
      BY <1>1, <1>5 DEF CallsTyped, Running, Last
    <2>4. /\ calls'[Len(calls)].to = Last.to /\ calls'[Len(calls)].chunks = Last.chunks
          /\ calls'[Len(calls)].outcome = outcome /\ calls'[Len(calls)].result = result
      BY <2>2, <2>3 DEF Call
    <2>5. \A c \in 1 .. Len(calls) : calls'[c].chunks = calls[c].chunks
      <3>1. \A c \in 1 .. Len(calls) : c = Len(calls) \/ c \in 1 .. Len(calls) - 1
        BY <2>7
      <3> QED
        BY <2>2, <2>3, <2>4, <3>1
    <2>6. \A c \in 1 .. Len(calls) : Frame(c)' = Frame(c)
      BY <2>5 DEF Frame
    <2>8. ASSUME NEW c \in 1 .. Len(calls'), calls'[c].to = "memory",
                 calls'[c].outcome = "returned"
          PROVE  calls'[c].result = Frame(c)'
      <3>1. CASE c = Len(calls)
        BY <1>5, <2>2, <2>4, <2>6, <2>8, <3>1
      <3>2. CASE c # Len(calls)
        <4>1. c \in 1 .. Len(calls) - 1 /\ c \in 1 .. Len(calls) /\ calls'[c] = calls[c]
          BY <2>2, <2>7, <3>2
        <4> QED
          BY <2>6, <2>8, <4>1 DEF MemoryIsWhole
      <3> QED
        BY <3>1, <3>2
    <2> QED
      BY <2>1, <2>8 DEF Collected, MemoryIsWhole
  <1>6. ASSUME NEW to \in Destinations, NEW format \in Formats, NEW chunks \in 1 .. MaxChunks,
               Write(to, format, chunks)
        PROVE  Collected' /\ MemoryIsWhole'
    <2> DEFINE call == [to |-> to, format |-> format, chunks |-> chunks,
                        outcome |-> "running", result |-> <<>>]
    <2>1. call \in Call /\ call.outcome # "returned"
      BY DEF Call, Outcomes
    <2>2. /\ calls' = Append(calls, call) /\ ~Running /\ ~Crashed /\ Len(calls) < MaxCalls
          /\ next' = 0 /\ buffers' = <<>>
      BY <1>6 DEF Write
    <2> HIDE DEF call
    <2>3. Collected'
      BY <2>2 DEF Collected
    <2> QED
      BY <1>4, <2>1, <2>2, <2>3
  <1>7. ASSUME NEW format \in Formats, NEW chunks \in 1 .. MaxChunks,
               CreateFails(format, chunks)
        PROVE  Collected' /\ MemoryIsWhole'
    <2> DEFINE call == [to |-> "path", format |-> format, chunks |-> chunks,
                        outcome |-> "panics", result |-> <<>>]
    <2>1. call \in Call /\ call.outcome # "returned" /\ call.outcome # "running"
      BY DEF Call, Outcomes, Destinations
    <2>2. calls' = Append(calls, call) /\ ~Running /\ ~Crashed /\ Len(calls) < MaxCalls
      BY <1>7 DEF CreateFails
    <2> HIDE DEF call
    <2>3. ~Running'
      BY <1>1, <2>1, <2>2, BeginTypes DEF Running
    <2> QED
      BY <1>4, <2>1, <2>2, <2>3 DEF Collected
  <1>8. CASE StreamLost \/ StreamQueued \/ StreamTaken \/ Spools
    <2>1. UNCHANGED calls /\ Last.to # "memory"
      <3>1. UNCHANGED calls /\ (Last.to = "stream" \/ Last.to = "path")
        BY <1>8, Zenon DEF StreamLost, StreamQueued, StreamTaken, Spools, Produces
      <3> QED
        BY <3>1
    <2> QED
      BY <1>3, <2>1 DEF Collected, Running, Last
  <1>9. CASE Collect
    <2>1. UNCHANGED calls /\ Running /\ Last.to = "memory" /\ next' = next + 1
          /\ buffers' = Append(buffers, <<Len(calls), next + 1>>) /\ next \in Nat
      BY <1>1, <1>9 DEF Collect, Produces, CallsTyped
    <2>2. buffers' = [k \in 1 .. next' |-> <<Len(calls), k>>]
      BY <2>1 DEF Collected
    <2> QED
      BY <1>3, <2>1, <2>2 DEF Collected
  <1>10. CASE StreamThrows \/ SpoolFails \/ WriterFails
    <2>1. \/ \E outcome \in {"throws", "panics"} : End(outcome, <<>>)
          \/ End(IF Last.format = "json" /\ Last.to # "path" THEN "panics" ELSE "throws", <<>>)
      BY <1>10, Zenon DEF StreamThrows, SpoolFails, WriterFails
    <2>2. \E outcome \in {"throws", "panics"} : End(outcome, <<>>)
      BY <2>1
    <2>3. Running
      BY <1>10, Zenon DEF StreamThrows, SpoolFails, WriterFails
    <2> QED
      BY <1>5, <2>2, <2>3, ChunkSequences DEF Outcomes
  <1>11. CASE Return
    <2> DEFINE result == IF Last.to = "memory" THEN buffers ELSE <<>>
    <2>1. result \in Seq(Chunk)
      BY <1>1 DEF BuffersTyped
    <2>2. Last.to = "memory" => result = Frame(Len(calls))
      BY <1>11 DEF Return, Collected, Frame, Last
    <2>3. Running /\ End("returned", result)
      BY <1>11, Zenon DEF Return
    <2> QED
      BY <1>5, <2>1, <2>2, <2>3 DEF Outcomes
  <1>12. CASE LastSpoolFails
    <2>1. /\ Running /\ Last.to = "path"
          /\ \E outcome \in {"returned", "throws"} : End(outcome, <<>>)
      BY <1>12, Zenon DEF LastSpoolFails
    <2>2. Last.to # "memory"
      BY <2>1
    <2> QED
      BY <1>5, <2>1, <2>2, ChunkSequences DEF Outcomes
  <1>13. CASE EventLoop
    BY <1>2, <1>13 DEF EventLoop, SinkDone, SinkFails, EndStream, FinishStream, callVars
  <1>14. CASE UNCHANGED vars
    BY <1>2, <1>14 DEF vars, callVars
  <1> QED
    BY <1>6, <1>7, <1>8, <1>9, <1>10, <1>11, <1>12, <1>13, <1>14 DEF Next, Native

\* A call without a destination that returns has returned the whole frame.
THEOREM MemoryCorrect == Spec => []MemoryIsWhole
  <1>1. Init => Inv
    BY InitInv
  <1>2. Inv /\ [Next]_vars => Inv'
    BY CallsStep, BuffersStep, FlagsStep, QuietStep, OrderStep, MemoryStep DEF Inv, TypeOK
  <1>3. Inv => MemoryIsWhole
    BY DEF Inv
  <1> QED
    BY <1>1, <1>2, <1>3, PTL DEF Spec
-----------------------------------------------------------------------------
(* What a stream and a file hold of the frames written to them.            *)

HIDE BoundsAssumption

\* Every buffer that the stream was handed is one of a call to the stream.
Origins ==
  \A k \in 1 .. Len(handed) :
    /\ handed[k][1] \in 1 .. Len(calls)
    /\ calls[handed[k][1]].to = "stream"
    /\ handed[k][2] <= calls[handed[k][1]].chunks

\* The k-th buffer handed is followed by the next of the same frame.
Followed(k) ==
  k < Len(handed) /\ handed[k + 1] = <<handed[k][1], handed[k][2] + 1>>

\* While a call runs, the last buffer of its frame is the last one handed, and
\* the others are followed by their next, unless the stream has failed.
RunningInv ==
  Running =>
    /\ \A k \in 1 .. Len(handed) : handed[k][1] = Len(calls) =>
         /\ ~ended
         /\ handed[k][2] <= next
         /\ handed[k][2] = next => k = Len(handed)
         /\ handed[k][2] < next => errored \/ Followed(k)
    /\ Last.to = "stream" /\ next > 0 /\ ~ended /\ ~errored =>
         handed # <<>> /\ handed[Len(handed)] = <<Len(calls), next>>

FramesInv == Origins /\ RunningInv /\ FramesDoNotMix

\* A stream that has finished has not failed.
FinishedInv == finished => ~errored

\* Until the call ends, the file and the BufWriter hold what was written, the
\* BufWriter no more than it has room for.
SpoolInv ==
  Running /\ Last.to = "path" =>
    /\ Len(spooled) <= Spool
    /\ ~diskFull
    /\ file \o spooled = [k \in 1 .. next |-> <<Len(calls), k>>]

WholeInv == TypeOK /\ Quiet /\ NothingReordered /\ FinishedInv /\ FramesInv
-----------------------------------------------------------------------------
\* FramesDoNotMix, buffer by buffer.
LEMMA Untangled ==
  FramesDoNotMix <=>
    \A k \in 1 .. Len(handed) :
      /\ calls[handed[k][1]].to = "stream"
      /\ handed[k][2] > 1 => k > 1 /\ handed[k - 1] = <<handed[k][1], handed[k][2] - 1>>
      /\ handed[k][2] < calls[handed[k][1]].chunks =>
           calls[handed[k][1]].outcome # "returned" \/ errored \/ Followed(k)
  <1>1. ASSUME NEW k \in 1 .. Len(handed)
        PROVE  k < Len(handed) <=> k # Len(handed)
    OBVIOUS
  <1> QED
    BY <1>1 DEF FramesDoNotMix, Followed

\* A buffer that was handed is a pair of a call and a position.
LEMMA ChunkParts ==
  ASSUME handed \in Seq(Chunk), NEW k \in 1 .. Len(handed)
  PROVE  /\ handed[k][1] \in Nat /\ handed[k][2] \in Nat \ {0}
         /\ handed[k] = <<handed[k][1], handed[k][2]>>
  <1>1. handed[k] \in (1 .. MaxCalls) \X (1 .. MaxChunks)
    BY DEF Chunk
  <1> QED
    BY <1>1

\* The stream is handed the next buffer of the running call.
LEMMA GivenStep ==
  ASSUME CallsTyped, handed \in Seq(Chunk), FramesInv,
         Running, Last.to = "stream", next < Last.chunks, ~ended, ~errored,
         UNCHANGED <<calls, ended>>, next' = next + 1,
         handed' = Append(handed, <<Len(calls), next + 1>>),
         <<Len(calls), next + 1>> \in Chunk
  PROVE  FramesInv'
  <1> DEFINE c == Len(calls)
             n == Len(handed)
  <1>1. /\ n \in Nat /\ c \in Nat /\ c \in 1 .. Len(calls) /\ next \in Nat
        /\ Len(handed') = n + 1 /\ handed'[n + 1] = <<c, next + 1>>
        /\ \A k \in 1 .. n : handed'[k] = handed[k]
        /\ calls[c].to = "stream" /\ next + 1 <= calls[c].chunks
        /\ calls[c].outcome = "running"
    <2>1. calls[c] \in Call /\ c \in 1 .. Len(calls)
      BY DEF CallsTyped, Running
    <2>2. calls[c].chunks \in Nat
      BY <2>1 DEF Call
    <2> QED
      BY <2>1, <2>2 DEF CallsTyped, Running, Last
  <1>2. \A k \in 1 .. n + 1 : k \in 1 .. n \/ k = n + 1
    BY <1>1
  <1>3. /\ \A k \in 1 .. n : handed[k][1] = c =>
             /\ handed[k][2] <= next
             /\ handed[k][2] = next => k = n
             /\ handed[k][2] < next => Followed(k)
        /\ next > 0 => handed # <<>> /\ handed[n] = <<c, next>>
    BY DEF FramesInv, RunningInv
  <1>4. \A k \in 1 .. n : handed[k][1] \in Nat /\ handed[k][2] \in Nat \ {0}
    BY ChunkParts
  <1>5. \A k \in 1 .. n : Followed(k) => Followed(k)'
    BY <1>1, <1>2 DEF Followed
  <1>6. Origins'
    <2>1. \A k \in 1 .. n : /\ handed[k][1] \in 1 .. Len(calls)
                            /\ calls[handed[k][1]].to = "stream"
                            /\ handed[k][2] <= calls[handed[k][1]].chunks
      BY DEF FramesInv, Origins
    <2> QED
      BY <1>1, <1>2, <2>1 DEF Origins
  \* The last buffer so far, if it is of the running call, gets its next.
  <1>7. ASSUME NEW k \in 1 .. n, handed[k][1] = c, handed[k][2] = next
        PROVE  Followed(k)'
    BY <1>1, <1>3, <1>7 DEF Followed
  <1>8. RunningInv'
    <2>1. ASSUME NEW k \in 1 .. Len(handed'), handed'[k][1] = Len(calls)
          PROVE  /\ handed'[k][2] <= next'
                 /\ handed'[k][2] = next' => k = Len(handed')
                 /\ handed'[k][2] < next' => Followed(k)'
      <3>1. CASE k \in 1 .. n
        <4>1. handed'[k] = handed[k] /\ handed[k][1] = c
          BY <1>1, <2>1, <3>1
        <4>2. handed[k][2] <= next /\ handed[k][2] \in Nat
          BY <1>3, <1>4, <3>1, <4>1
        <4>3. Followed(k)'
          <5>1. CASE handed[k][2] = next
            BY <1>7, <3>1, <4>1, <5>1
          <5>2. CASE handed[k][2] < next
            BY <1>3, <1>5, <3>1, <4>1, <5>2
          <5> QED
            BY <1>1, <4>2, <5>1, <5>2
        <4> QED
          BY <1>1, <4>1, <4>2, <4>3
      <3>2. CASE k = n + 1
        BY <1>1, <3>2
      <3> QED
        BY <1>1, <1>2, <3>1, <3>2
    <2>2. handed' # <<>> /\ handed'[Len(handed')] = <<Len(calls'), next'>>
      BY <1>1
    <2> QED
      BY <2>1, <2>2 DEF RunningInv
  <1>9. FramesDoNotMix'
    <2>1. ASSUME NEW k \in 1 .. n
          PROVE  /\ calls[handed'[k][1]].to = "stream"
                 /\ handed'[k][2] > 1 =>
                      k > 1 /\ handed'[k - 1] = <<handed'[k][1], handed'[k][2] - 1>>
                 /\ handed'[k][2] < calls[handed'[k][1]].chunks =>
                      calls[handed'[k][1]].outcome # "returned" \/ errored' \/ Followed(k)'
      <3>1. k > 1 => k - 1 \in 1 .. n
        BY <1>1
      <3> QED
        BY <1>1, <1>5, <3>1, Untangled DEF FramesInv
    <2>2. next + 1 > 1 => n + 1 > 1 /\ handed'[n] = <<c, next>>
      <3>1. ASSUME next > 0 PROVE n \in 1 .. n /\ handed'[n] = <<c, next>>
        BY <1>1, <1>3, <3>1
      <3> QED
        BY <1>1, <3>1
    <2>3. ASSUME NEW k \in 1 .. Len(handed')
          PROVE  /\ calls[handed'[k][1]].to = "stream"
                 /\ handed'[k][2] > 1 =>
                      k > 1 /\ handed'[k - 1] = <<handed'[k][1], handed'[k][2] - 1>>
                 /\ handed'[k][2] < calls[handed'[k][1]].chunks =>
                      calls[handed'[k][1]].outcome # "returned" \/ errored' \/ Followed(k)'
      <3>1. CASE k = n + 1
        BY <1>1, <2>2, <3>1
      <3> QED
        BY <1>1, <1>2, <2>1, <3>1
    <2>4. \A k \in 1 .. Len(handed') : k < Len(handed') <=> k # Len(handed')
      BY <1>1
    <2> QED
      BY <2>3, <2>4 DEF FramesDoNotMix, Followed
  <1> QED
    BY <1>6, <1>8, <1>9 DEF FramesInv

\* A buffer of the running call that is not handed over: the stream has ended
\* or failed, or is not the destination.
LEMMA MissedStep ==
  ASSUME CallsTyped, handed \in Seq(Chunk), FramesInv,
         Running, Last.to # "stream" \/ ended \/ errored,
         UNCHANGED <<calls, handed, ended>>, next' = next + 1, errored => errored'
  PROVE  FramesInv'
  <1>1. Last = calls[Len(calls)] /\ next \in Nat /\ UNCHANGED Last
    BY DEF Last, CallsTyped
  <1>2. Origins'
    BY DEF FramesInv, Origins
  <1>3. \A k \in 1 .. Len(handed) : handed[k][2] \in Nat
    BY ChunkParts
  <1>4. ASSUME NEW k \in 1 .. Len(handed), handed[k][1] = Len(calls)
        PROVE  ~ended /\ handed[k][2] <= next /\ errored
    <2>1. ~ended /\ handed[k][2] <= next
      BY <1>4 DEF FramesInv, RunningInv
    <2>2. Last.to = "stream"
      BY <1>1, <1>4 DEF FramesInv, Origins
    <2> QED
      BY <2>1, <2>2
  <1>5. RunningInv'
    BY <1>1, <1>3, <1>4 DEF RunningInv
  <1>6. FramesDoNotMix'
    BY DEF FramesInv, FramesDoNotMix
  <1> QED
    BY <1>2, <1>5, <1>6 DEF FramesInv

\* The running call ends; one that returns has written its whole frame.
LEMMA EndedStep ==
  ASSUME CallsTyped, FramesInv, handed \in Seq(Chunk),
         Running, NEW outcome \in Outcomes \ {"running"}, NEW result \in Seq(Chunk),
         End(outcome, result),
         outcome = "returned" => Last.to # "stream" \/ next = Last.chunks,
         UNCHANGED <<handed, ended, errored>>
  PROVE  FramesInv'
  <1>1. ~Running'
    BY EndTypes
  <1>2. /\ Len(calls') = Len(calls) /\ Len(calls) \in Nat
        /\ \A c \in 1 .. Len(calls) - 1 : calls'[c] = calls[c]
        /\ calls'[Len(calls)] = [Last EXCEPT !.outcome = outcome, !.result = result]
        /\ Last \in Call /\ Last = calls[Len(calls)]
    <2>1. outcome \in Outcomes
      OBVIOUS
    <2>2. Last \in Call /\ Last = calls[Len(calls)] /\ Len(calls) \in Nat
      BY DEF CallsTyped, Running, Last
    <2> QED
      BY <2>1, <2>2, EndCall
  <1>3. \A c \in 1 .. Len(calls) : calls'[c].to = calls[c].to /\ calls'[c].chunks = calls[c].chunks
    <2>1. \A c \in 1 .. Len(calls) : c = Len(calls) \/ c \in 1 .. Len(calls) - 1
      BY <1>2
    <2>2. calls'[Len(calls)].to = Last.to /\ calls'[Len(calls)].chunks = Last.chunks
      BY <1>2 DEF Call
    <2> QED
      BY <1>2, <2>1, <2>2
  <1>4. Origins'
    BY <1>2, <1>3 DEF FramesInv, Origins
  <1>5. RunningInv'
    BY <1>1 DEF RunningInv
  <1>6. ASSUME NEW k \in 1 .. Len(handed),
               handed[k][2] < calls'[handed[k][1]].chunks,
               calls'[handed[k][1]].outcome = "returned"
        PROVE  errored \/ Followed(k)
    <2>1. handed[k][1] \in 1 .. Len(calls) /\ calls[handed[k][1]].to = "stream"
      BY DEF FramesInv, Origins
    <2>2. CASE handed[k][1] = Len(calls)
      <3>1. outcome = "returned"
        BY <1>2, <1>6, <2>2 DEF Call
      <3>2. handed[k][2] < next
        BY <1>2, <1>3, <1>6, <2>1, <2>2, <3>1
      <3> QED
        BY <2>2, <3>2 DEF FramesInv, RunningInv
    <2>3. CASE handed[k][1] # Len(calls)
      <3>1. handed[k][1] \in 1 .. Len(calls) - 1
        BY <1>2, <2>1, <2>3
      <3>2. calls'[handed[k][1]] = calls[handed[k][1]]
        BY <1>2, <3>1
      <3> QED
        BY <1>6, <3>2, Untangled DEF FramesInv
    <2> QED
      BY <2>2, <2>3
  <1>7. FramesDoNotMix'
    <2>1. \A k \in 1 .. Len(handed) : handed[k][1] \in 1 .. Len(calls)
      BY DEF FramesInv, Origins
    <2>2. \A k \in 1 .. Len(handed) :
            calls'[handed[k][1]].outcome = "returned" \/ calls'[handed[k][1]].outcome # "returned"
      OBVIOUS
    <2>3. \A k \in 1 .. Len(handed) : Followed(k) => k # Len(handed)
      BY DEF Followed
    <2> QED
      BY <1>3, <1>6, <2>1, <2>3 DEF FramesInv, FramesDoNotMix, Followed
  <1> QED
    BY <1>4, <1>5, <1>7 DEF FramesInv

\* A call begins: nothing of its frame has been handed over.
LEMMA BegunStep ==
  ASSUME CallsTyped, FramesInv, handed \in Seq(Chunk),
         ~Running, ~Crashed, Len(calls) < MaxCalls, NEW call \in Call,
         calls' = Append(calls, call), next' = 0,
         UNCHANGED <<handed, ended, errored>>
  PROVE  FramesInv'
  <1>1. /\ Len(calls') = Len(calls) + 1 /\ Len(calls) \in Nat
        /\ \A c \in 1 .. Len(calls) : calls'[c] = calls[c]
    BY BeginTypes DEF CallsTyped
  <1>2. \A k \in 1 .. Len(handed) :
          handed[k][1] \in 1 .. Len(calls) /\ handed[k][1] \in 1 .. Len(calls')
          /\ handed[k][1] # Len(calls') /\ calls'[handed[k][1]] = calls[handed[k][1]]
    BY <1>1 DEF FramesInv, Origins
  <1>3. Origins'
    BY <1>2 DEF FramesInv, Origins
  <1>4. RunningInv'
    BY <1>2 DEF RunningInv
  <1>5. FramesDoNotMix'
    BY <1>2 DEF FramesInv, FramesDoNotMix
  <1> QED
    BY <1>3, <1>4, <1>5 DEF FramesInv

\* What happens to the stream between the calls, or beside one.
LEMMA AsideStep ==
  ASSUME FramesInv, UNCHANGED <<calls, next, handed>>, errored => errored',
         ~Running \/ UNCHANGED <<ended, errored>>
  PROVE  FramesInv'
  <1>1. Origins'
    BY DEF FramesInv, Origins
  <1>2. RunningInv'
    BY DEF FramesInv, RunningInv, Running, Last, Followed
  <1>3. FramesDoNotMix'
    BY DEF FramesInv, FramesDoNotMix
  <1> QED
    BY <1>1, <1>2, <1>3 DEF FramesInv

\* A stream that fails does not finish.
LEMMA FinishedStep == Quiet /\ FinishedInv /\ [Next]_vars => FinishedInv'
  <1> SUFFICES ASSUME Quiet, FinishedInv, [Next]_vars PROVE FinishedInv'
    OBVIOUS
  <1> USE DEF Quiet, FinishedInv
  <1>1. ASSUME UNCHANGED <<finished, errored>> PROVE FinishedInv'
    BY <1>1
  <1>2. ASSUME NEW to \in Destinations, NEW format \in Formats, NEW chunks \in 1 .. MaxChunks,
               Write(to, format, chunks)
        PROVE  FinishedInv'
    BY <1>1, <1>2 DEF Write, streamVars
  <1>3. ASSUME NEW format \in Formats, NEW chunks \in 1 .. MaxChunks,
               CreateFails(format, chunks)
        PROVE  FinishedInv'
    BY <1>1, <1>3 DEF CreateFails, streamVars
  <1>4. CASE StreamLost
    BY <1>4 DEF StreamLost
  <1>5. CASE StreamQueued \/ StreamTaken
    BY <1>5, Zenon DEF StreamQueued, StreamTaken
  <1>6. CASE StreamThrows \/ Collect \/ Spools \/ SpoolFails \/ WriterFails \/ Return
             \/ LastSpoolFails
    <2>1. UNCHANGED streamVars
      BY <1>6, Zenon DEF StreamThrows, Collect, Spools, SpoolFails, WriterFails, Return,
                         LastSpoolFails
    <2> QED
      BY <1>1, <2>1 DEF streamVars
  <1>7. CASE SinkDone \/ EndStream
    BY <1>7, Zenon DEF SinkDone, EndStream
  <1>8. CASE SinkFails \/ FinishStream
    BY <1>8, Zenon DEF SinkFails, FinishStream
  <1>9. CASE UNCHANGED vars
    BY <1>1, <1>9 DEF vars, streamVars
  <1> QED
    BY <1>2, <1>3, <1>4, <1>5, <1>6, <1>7, <1>8, <1>9 DEF Next, Native, EventLoop

\* A call hands the stream the buffers of its frame, one after another.
LEMMA FramesStep == TypeOK /\ FramesInv /\ [Next]_vars => FramesInv'
  <1> SUFFICES ASSUME TypeOK, FramesInv, [Next]_vars PROVE FramesInv'
    OBVIOUS
  <1>1. CallsTyped /\ handed \in Seq(Chunk) /\ buffers \in Seq(Chunk)
    BY DEF TypeOK, BuffersTyped
  <1>2. ASSUME NEW to \in Destinations, NEW format \in Formats, NEW chunks \in 1 .. MaxChunks,
               Write(to, format, chunks)
        PROVE  FramesInv'
    <2> DEFINE call == [to |-> to, format |-> format, chunks |-> chunks,
                        outcome |-> "running", result |-> <<>>]
    <2>1. call \in Call
      BY DEF Call, Outcomes
    <2>2. /\ calls' = Append(calls, call) /\ ~Running /\ ~Crashed /\ Len(calls) < MaxCalls
          /\ next' = 0 /\ UNCHANGED <<handed, ended, errored>>
      BY <1>2 DEF Write, streamVars
    <2> HIDE DEF call
    <2> QED
      BY <1>1, <2>1, <2>2, BegunStep
  <1>3. ASSUME NEW format \in Formats, NEW chunks \in 1 .. MaxChunks,
               CreateFails(format, chunks)
        PROVE  FramesInv'
    <2> DEFINE call == [to |-> "path", format |-> format, chunks |-> chunks,
                        outcome |-> "panics", result |-> <<>>]
    <2>1. call \in Call
      BY DEF Call, Outcomes, Destinations
    <2>2. /\ calls' = Append(calls, call) /\ ~Running /\ ~Crashed /\ Len(calls) < MaxCalls
          /\ next' = 0 /\ UNCHANGED <<handed, ended, errored>>
      BY <1>3 DEF CreateFails, streamVars
    <2> HIDE DEF call
    <2> QED
      BY <1>1, <2>1, <2>2, BegunStep
  <1>4. CASE StreamLost
    <2>1. /\ Running /\ (ended \/ errored) /\ next' = next + 1
          /\ UNCHANGED <<calls, handed, ended>> /\ (errored => errored')
      BY <1>4 DEF StreamLost, Produces
    <2> QED
      BY <1>1, <2>1, MissedStep
  <1>5. CASE StreamQueued \/ StreamTaken
    <2>1. /\ Produces("stream") /\ ~ended /\ ~errored /\ handed' = Append(handed, scratch')
          /\ UNCHANGED <<calls, ended>>
      BY <1>5, Zenon DEF StreamQueued, StreamTaken
    <2>2. /\ Running /\ Last.to = "stream" /\ next < Last.chunks /\ next' = next + 1
          /\ scratch' = <<Len(calls), next + 1>>
      BY <2>1 DEF Produces
    <2>3. scratch' \in Chunk
      BY <1>1, <2>1, ProducesChunk
    <2> QED
      BY <1>1, <2>1, <2>2, <2>3, GivenStep
  <1>6. CASE Collect \/ Spools
    <2>1. /\ Produces("memory") \/ Produces("path")
          /\ UNCHANGED <<calls, handed, ended, errored>>
      BY <1>6, Zenon DEF Collect, Spools, streamVars
    <2>2. Running /\ Last.to # "stream" /\ next' = next + 1
      BY <2>1 DEF Produces
    <2> QED
      BY <1>1, <2>1, <2>2, MissedStep
  <1>7. CASE StreamThrows \/ SpoolFails \/ WriterFails
    <2>1. /\ Running /\ UNCHANGED <<handed, ended, errored>>
          /\ \/ \E outcome \in {"throws", "panics"} : End(outcome, <<>>)
             \/ End(IF Last.format = "json" /\ Last.to # "path" THEN "panics" ELSE "throws", <<>>)
      BY <1>7, Zenon DEF StreamThrows, SpoolFails, WriterFails, streamVars
    <2>2. \E outcome \in {"throws", "panics"} : End(outcome, <<>>)
      BY <2>1
    <2> QED
      BY <1>1, <2>1, <2>2, EndedStep, ChunkSequences DEF Outcomes
  <1>8. CASE Return
    <2> DEFINE result == IF Last.to = "memory" THEN buffers ELSE <<>>
    <2>1. result \in Seq(Chunk)
      BY <1>1
    <2>2. Running /\ next = Last.chunks /\ End("returned", result)
          /\ UNCHANGED <<handed, ended, errored>>
      BY <1>8, Zenon DEF Return, streamVars
    <2> QED
      BY <1>1, <2>1, <2>2, EndedStep DEF Outcomes
  <1>9. CASE LastSpoolFails
    <2>1. /\ Running /\ Last.to = "path" /\ UNCHANGED <<handed, ended, errored>>
          /\ \E outcome \in {"returned", "throws"} : End(outcome, <<>>)
      BY <1>9, Zenon DEF LastSpoolFails, streamVars
    <2>2. Last.to # "stream"
      BY <2>1
    <2> QED
      BY <1>1, <2>1, <2>2, EndedStep, ChunkSequences DEF Outcomes
  <1>10. CASE EventLoop
    <2>1. ~Running /\ UNCHANGED <<calls, next, handed>> /\ (errored => errored')
      <3>1. CASE SinkDone \/ EndStream \/ FinishStream
        <4>1. ~Running /\ UNCHANGED <<calls, next, handed, errored>>
          BY <3>1, Zenon DEF SinkDone, EndStream, FinishStream, Turn, callVars
        <4> QED
          BY <4>1
      <3>2. CASE SinkFails
        BY <3>2 DEF SinkFails, Turn, callVars
      <3> QED
        BY <1>10, <3>1, <3>2 DEF EventLoop
    <2> QED
      BY <2>1, AsideStep
  <1>11. CASE UNCHANGED vars
    BY <1>11, AsideStep DEF vars, callVars, streamVars
  <1> QED
    BY <1>2, <1>3, <1>4, <1>5, <1>6, <1>7, <1>8, <1>9, <1>10, <1>11 DEF Next, Native

\* Nothing has been handed at first.
LEMMA WholeInitial == Init => WholeInv
  <1> SUFFICES ASSUME Init PROVE WholeInv
    OBVIOUS
  <1>1. TypeOK /\ Quiet /\ NothingReordered
    BY InitInv DEF Inv
  <1>2. FinishedInv /\ FramesInv
    BY DEF Init, FinishedInv, FramesInv, Origins, RunningInv, Running, FramesDoNotMix
  <1> QED
    BY <1>1, <1>2 DEF WholeInv

\* Every step keeps the invariant of the streams.
LEMMA WholeStep == WholeInv /\ [Next]_vars => WholeInv'
  BY CallsStep, BuffersStep, FlagsStep, QuietStep, OrderStep, FinishedStep, FramesStep
     DEF WholeInv, TypeOK

\* The sink's input is the frames, one after the other: no buffer of one call
\* lies between those of another, and only a call that failed leaves a gap.
THEOREM FramesCorrect == Spec => []FramesDoNotMix
  <1>1. WholeInv => FramesDoNotMix
    BY DEF WholeInv, FramesInv
  <1> QED
    BY <1>1, WholeInitial, WholeStep, PTL DEF Spec

\* A set of naturals that is not empty has a least element.
LEMMA LeastNatural ==
  ASSUME NEW T, T \subseteq Nat, T # {}
  PROVE  \E x \in T : \A y \in T : x <= y
  <1>1. \E x \in T : \A y \in T : ~ (<<y, x>> \in OpToRel(<, Nat))
    BY NatLessThanWellFounded, WFMin
  <1>2. PICK x \in T : \A y \in T : ~ (<<y, x>> \in OpToRel(<, Nat))
    BY <1>1
  <1>3. \A y \in T : ~ (y < x)
    BY <1>2 DEF OpToRel
  <1> QED
    BY <1>3

\* Of a call that returned, the stream that has not failed was handed the last
\* buffer, if it was handed any.
LEMMA LastHanded ==
  ASSUME WholeInv, ~errored, NEW k \in 1 .. Len(handed),
         calls[handed[k][1]].outcome = "returned"
  PROVE  \E j \in 1 .. Len(handed) :
           handed[j] = <<handed[k][1], calls[handed[k][1]].chunks>>
  <1> DEFINE c == handed[k][1]
             last == calls[c].chunks
             T == {d \in 0 .. last : \E j \in 1 .. Len(handed) :
                                       handed[j] = <<c, last - d>>}
  <1>1. handed \in Seq(Chunk) /\ CallsTyped
    BY DEF WholeInv, TypeOK, BuffersTyped
  <1>2. c \in 1 .. Len(calls) /\ last \in Nat
    <2>1. c \in 1 .. Len(calls)
      BY DEF WholeInv, FramesInv, Origins
    <2>2. calls[c] \in Call
      BY <1>1, <2>1 DEF CallsTyped
    <2> QED
      BY <2>1, <2>2 DEF Call
  <1>3. /\ handed[k][2] \in Nat /\ handed[k] = <<c, handed[k][2]>>
        /\ handed[k][2] <= last
    BY <1>1, ChunkParts DEF WholeInv, FramesInv, Origins
  <1>4. last - handed[k][2] \in T
    <2>1. /\ last - handed[k][2] \in 0 .. last
          /\ last - (last - handed[k][2]) = handed[k][2]
      BY <1>2, <1>3
    <2> QED
      BY <1>3, <2>1
  <1>5. PICK d \in T : \A y \in T : d <= y
    <2>1. T \subseteq Nat /\ T # {}
      BY <1>2, <1>4
    <2> HIDE DEF T
    <2> QED
      BY <2>1, LeastNatural
  <1>6. PICK j \in 1 .. Len(handed) : handed[j] = <<c, last - d>>
    BY <1>5
  <1>7. d = 0
    <2> SUFFICES ASSUME d # 0 PROVE FALSE
      OBVIOUS
    <2>1. d \in Nat /\ d <= last /\ d - 1 \in 0 .. last /\ last - d < last
      BY <1>2, <1>5
    <2>2. handed[j][1] = c /\ handed[j][2] = last - d
      BY <1>6
    <2>3. Followed(j)
      BY <1>6, <2>1, <2>2, Untangled DEF WholeInv, FramesInv
    <2>4. j + 1 \in 1 .. Len(handed) /\ handed[j + 1] = <<c, last - (d - 1)>>
      <3>1. (last - d) + 1 = last - (d - 1)
        BY <1>2, <2>1
      <3> QED
        BY <1>1, <2>2, <2>3, <3>1 DEF Followed
    <2>5. d - 1 \in T
      BY <2>1, <2>4
    <2> QED
      BY <1>5, <2>1, <2>5
  <1> QED
    BY <1>2, <1>6, <1>7

\* A stream that announces 'finish' has consumed the whole of every frame whose
\* call returned while it was open.
THEOREM FinishedCorrect == Spec => []FinishedIsWhole
  <1>1. ASSUME WholeInv, finished PROVE consumed = handed /\ ~errored
    <2>1. held = Idle /\ ~errored
      BY <1>1 DEF WholeInv, Quiet, FinishedInv
    <2>2. queue = <<>>
      BY <1>1, <2>1 DEF WholeInv, NothingReordered
    <2>3. /\ Len(handed) = Len(consumed)
          /\ \A k \in 1 .. Len(consumed) : consumed[k] = handed[k]
          /\ handed \in Seq(Chunk) /\ consumed \in Seq(Chunk)
      BY <1>1, <2>1, <2>2 DEF WholeInv, NothingReordered, Prefix, TypeOK, BuffersTyped
    <2> QED
      BY <2>1, <2>3
  <1>2. WholeInv => FinishedIsWhole
    BY <1>1, LastHanded DEF FinishedIsWhole
  <1> QED
    BY <1>2, WholeInitial, WholeStep, PTL DEF Spec
-----------------------------------------------------------------------------
(* What a file holds.                                                      *)

FileInv == TypeOK /\ SpoolInv /\ FileIsWhole

\* Two sequences of one length with the same elements are one.
LEMMA SameSequence ==
  ASSUME NEW S, NEW s \in Seq(S), NEW t \in Seq(S), Len(s) = Len(t),
         \A k \in 1 .. Len(s) : s[k] = t[k]
  PROVE  s = t
  OBVIOUS

\* What is added to the part that waits is added to the whole.
LEMMA AppendToRest ==
  ASSUME NEW S, NEW s \in Seq(S), NEW t \in Seq(S), NEW x \in S
  PROVE  /\ s \o Append(t, x) = Append(s \o t, x)
         /\ s \o <<>> = s
         /\ Len(s \o t) = Len(s) + Len(t)
  <1>1. s \o Append(t, x) \in Seq(S) /\ Append(s \o t, x) \in Seq(S)
    OBVIOUS
  <1>2. /\ Len(s \o Append(t, x)) = Len(s) + Len(t) + 1
        /\ Len(Append(s \o t, x)) = Len(s) + Len(t) + 1
    OBVIOUS
  <1>3. \A k \in 1 .. Len(s) + Len(t) + 1 : (s \o Append(t, x))[k] = Append(s \o t, x)[k]
    OBVIOUS
  <1> QED
    BY <1>1, <1>2, <1>3, SameSequence

\* What was written so far is a prefix of the frame.
LEMMA WrittenPrefix ==
  ASSUME NEW n \in Nat, NEW c \in Nat, n <= calls[c].chunks, calls[c].chunks \in Nat
  PROVE  /\ Prefix([k \in 1 .. n |-> <<c, k>>], Frame(c))
         /\ Len([k \in 1 .. n |-> <<c, k>>]) = n
         /\ n = calls[c].chunks => [k \in 1 .. n |-> <<c, k>>] = Frame(c)
  BY DEF Prefix, Frame

\* A step moves buffers from the BufWriter to the file in order, or ends the call.
LEMMA FileStep == TypeOK /\ SpoolInv /\ FileIsWhole /\ [Next]_vars => (SpoolInv /\ FileIsWhole)'
  <1> SUFFICES ASSUME TypeOK, SpoolInv, FileIsWhole, [Next]_vars
               PROVE  (SpoolInv /\ FileIsWhole)'
    OBVIOUS
  <1>1. /\ CallsTyped /\ CallsTyped' /\ BuffersTyped
        /\ spooled \in Seq(Chunk) /\ file \in Seq(Chunk)
    BY CallsStep DEF TypeOK, BuffersTyped
  <1>2. Spool \in Nat
    BY BoundsAssumption
  \* While a call runs, what was written is a prefix of its frame.
  <1>3. Running' /\ SpoolInv' => FileIsWhole'
    <2> SUFFICES ASSUME Running', SpoolInv', Last'.to = "path"
                 PROVE  Prefix(file \o spooled, Frame(Len(calls)))' /\ Last'.outcome # "returned"
      BY DEF FileIsWhole
    <2>1. (file \o spooled)' = [k \in 1 .. next' |-> <<Len(calls'), k>>]
      BY DEF SpoolInv
    <2>2. Last' = calls'[Len(calls')] /\ Last' \in Call /\ next' \in Nat /\ Len(calls') \in Nat
          /\ next' <= Last'.chunks
      BY <1>1 DEF CallsTyped, Running, Last
    <2>3. Last'.chunks \in Nat
      BY <2>2 DEF Call
    <2> QED
      BY <2>1, <2>2, <2>3 DEF Prefix, Frame, Running
  \* A call to another place, or one that ended before, leaves the file alone.
  <1>4. ASSUME UNCHANGED <<calls, next, spooled, file, diskFull>>
        PROVE  (SpoolInv /\ FileIsWhole)'
    BY <1>4 DEF SpoolInv, FileIsWhole, Running, Last, Frame, Prefix
  <1>5. ASSUME Last'.to # "path"
        PROVE  (SpoolInv /\ FileIsWhole)'
    BY <1>5 DEF SpoolInv, FileIsWhole
  <1>6. ASSUME NEW to \in Destinations, NEW format \in Formats, NEW chunks \in 1 .. MaxChunks,
               Write(to, format, chunks)
        PROVE  (SpoolInv /\ FileIsWhole)'
    <2> DEFINE call == [to |-> to, format |-> format, chunks |-> chunks,
                        outcome |-> "running", result |-> <<>>]
    <2>1. call \in Call /\ call.outcome = "running" /\ call.to = to
      BY DEF Call, Outcomes
    <2>2. /\ calls' = Append(calls, call) /\ ~Running /\ ~Crashed /\ Len(calls) < MaxCalls
          /\ next' = 0 /\ spooled' = <<>> /\ diskFull' = FALSE
          /\ file' = IF to = "path" THEN <<>> ELSE file
      BY <1>6 DEF Write
    <2> HIDE DEF call
    <2>3. Last' = call
      BY <1>1, <2>1, <2>2, BeginTypes
    <2>4. CASE to = "path"
      <3>1. file' \o spooled' = [k \in 1 .. next' |-> <<Len(calls'), k>>]
        BY <2>2, <2>4
      <3>2. Running'
        BY <2>1, <2>2, <2>3, <1>1 DEF Running, CallsTyped
      <3>3. SpoolInv'
        BY <1>2, <2>2, <3>1 DEF SpoolInv
      <3> QED
        BY <1>3, <3>2, <3>3
    <2> QED
      BY <1>5, <2>1, <2>3, <2>4
  <1>7. ASSUME NEW format \in Formats, NEW chunks \in 1 .. MaxChunks,
               CreateFails(format, chunks)
        PROVE  (SpoolInv /\ FileIsWhole)'
    <2> DEFINE call == [to |-> "path", format |-> format, chunks |-> chunks,
                        outcome |-> "panics", result |-> <<>>]
    <2>1. call \in Call /\ call.outcome = "panics"
      BY DEF Call, Outcomes, Destinations
    <2>2. calls' = Append(calls, call) /\ ~Running /\ ~Crashed /\ Len(calls) < MaxCalls
      BY <1>7 DEF CreateFails
    <2> HIDE DEF call
    <2>3. Last' = call
      BY <1>1, <2>1, <2>2, BeginTypes
    <2> QED
      BY <2>1, <2>3 DEF SpoolInv, FileIsWhole, Running
  <1>8. CASE StreamLost \/ StreamQueued \/ StreamTaken \/ Collect
    <2>1. UNCHANGED calls /\ (Last.to = "stream" \/ Last.to = "memory")
      BY <1>8, Zenon DEF StreamLost, StreamQueued, StreamTaken, Collect, Produces
    <2>2. Last'.to # "path"
      BY <2>1 DEF Last
    <2> QED
      BY <1>5, <2>2
  <1>9. CASE Spools
    <2> DEFINE new == <<Len(calls), next + 1>>
    <2>1. /\ Running /\ Last.to = "path" /\ UNCHANGED <<calls, diskFull>>
          /\ next' = next + 1 /\ scratch' = new
      BY <1>9 DEF Spools, Produces
    <2>2. new \in Chunk /\ next \in Nat
      <3>1. Produces("path")
        BY <1>9 DEF Spools
      <3>2. scratch' \in Chunk
        BY <1>1, <3>1, ProducesChunk
      <3> QED
        BY <1>1, <2>1, <3>2 DEF CallsTyped
    <2>3. /\ file \o spooled = [k \in 1 .. next |-> <<Len(calls), k>>]
          /\ Len(spooled) <= Spool /\ ~diskFull
      BY <2>1 DEF SpoolInv
    <2>4. /\ file' \o spooled' = Append(file \o spooled, new)
          /\ Len(spooled') <= Spool
      <3>1. CASE Len(spooled) < Spool
        <4>1. spooled' = Append(spooled, new) /\ file' = file
          BY <1>9, <2>1, <3>1 DEF Spools
        <4> QED
          BY <1>1, <1>2, <2>2, <3>1, <4>1, AppendToRest
      <3>2. CASE ~(Len(spooled) < Spool)
        <4>1. file' = Append(file \o spooled, new) /\ spooled' = <<>>
          BY <1>9, <2>1, <3>2 DEF Spools
        <4>2. Append(file \o spooled, new) \in Seq(Chunk)
          BY <1>1, <2>2, ChunkSequences
        <4> QED
          BY <1>2, <4>1, <4>2, ChunkSequences, AppendToRest
      <3> QED
        BY <3>1, <3>2
    <2>5. Append(file \o spooled, new) = [k \in 1 .. next + 1 |-> <<Len(calls), k>>]
      BY <2>2, <2>3
    <2>6. Running' /\ SpoolInv'
      BY <2>1, <2>3, <2>4, <2>5 DEF SpoolInv, Running, Last
    <2> QED
      BY <1>3, <2>6
  \* A call ends: what it leaves in the file and the BufWriter.
  <1>10. ASSUME Running, NEW outcome \in Outcomes \ {"running"}, NEW result \in Seq(Chunk),
                End(outcome, result), spooled' = <<>>,
                Last.to = "path" /\ outcome # "panics" =>
                  /\ Prefix(file', Frame(Len(calls)))
                  /\ outcome = "returned" =>
                       IF diskFull' THEN Len(file') + Spool >= Last.chunks
                       ELSE file' = Frame(Len(calls)),
                file' \in Seq(Chunk)
         PROVE  (SpoolInv /\ FileIsWhole)'
    <2>1. ~Running'
      BY <1>1, <1>10, EndTypes
    <2>2. /\ Len(calls') = Len(calls) /\ Len(calls) \in Nat
          /\ calls'[Len(calls)] = [Last EXCEPT !.outcome = outcome, !.result = result]
          /\ Last \in Call /\ Last = calls[Len(calls)]
      <3>1. outcome \in Outcomes
        BY <1>10
      <3>2. Last \in Call /\ Last = calls[Len(calls)] /\ Len(calls) \in Nat
        BY <1>1, <1>10 DEF CallsTyped, Running, Last
      <3> QED
        BY <1>1, <1>10, <3>1, <3>2, EndCall
    <2>3. /\ Last'.to = Last.to /\ Last'.chunks = Last.chunks /\ Last'.outcome = outcome
          /\ Frame(Len(calls))' = Frame(Len(calls))
      <3>1. /\ calls'[Len(calls)].to = Last.to /\ calls'[Len(calls)].chunks = Last.chunks
            /\ calls'[Len(calls)].outcome = outcome
        BY <2>2 DEF Call
      <3> QED
        BY <2>2, <3>1 DEF Last, Frame
    <2>4. file' \o spooled' = file'
      BY <1>10, ChunkSequences, AppendToRest
    <2> QED
      BY <1>10, <2>1, <2>2, <2>3, <2>4 DEF SpoolInv, FileIsWhole, Prefix
  \* What the running call wrote, piece by piece.
  <1>11. ASSUME Running, Last.to = "path"
         PROVE  /\ Prefix(file \o spooled, Frame(Len(calls))) /\ Prefix(file, Frame(Len(calls)))
                /\ Len(file) + Len(spooled) = next /\ Len(spooled) <= Spool /\ ~diskFull
                /\ next = Last.chunks => file \o spooled = Frame(Len(calls))
    <2>1. /\ Last = calls[Len(calls)] /\ next \in Nat /\ Len(calls) \in Nat
          /\ next <= Last.chunks /\ Last.chunks \in Nat
      <3>1. Last = calls[Len(calls)] /\ Last \in Call
        BY <1>1, <1>11 DEF CallsTyped, Running, Last
      <3> QED
        BY <1>1, <1>11, <3>1 DEF CallsTyped, Call
    <2>2. file \o spooled = [k \in 1 .. next |-> <<Len(calls), k>>]
      BY <1>11 DEF SpoolInv
    <2>3. /\ Prefix(file \o spooled, Frame(Len(calls))) /\ Len(file \o spooled) = next
          /\ next = Last.chunks => file \o spooled = Frame(Len(calls))
      BY <2>1, <2>2, WrittenPrefix
    <2>4. Len(file \o spooled) = Len(file) + Len(spooled)
      BY <1>1
    <2>5. \A k \in 1 .. Len(file) : (file \o spooled)[k] = file[k]
      BY <1>1
    <2>6. Prefix(file, Frame(Len(calls)))
      BY <1>1, <2>3, <2>4, <2>5 DEF Prefix
    <2> QED
      BY <1>11, <2>3, <2>4, <2>6 DEF SpoolInv
  <1>12. CASE StreamThrows
    <2>1. Running /\ End("panics", <<>>) /\ UNCHANGED <<spooled, file, diskFull>>
          /\ Last.to = "stream"
      BY <1>12 DEF StreamThrows, fileVars
    <2>2. Last'.outcome = "panics" \/ Last'.to # "path"
      <3>1. /\ Len(calls') = Len(calls)
            /\ calls'[Len(calls)] = [Last EXCEPT !.outcome = "panics", !.result = <<>>]
        BY <1>1, <2>1, EndCall, ChunkSequences DEF Outcomes
      <3>2. Last \in Call
        BY <1>1, <2>1 DEF CallsTyped, Running, Last
      <3> QED
        BY <2>1, <3>1, <3>2 DEF Last, Call
    <2> QED
      BY <2>2 DEF SpoolInv, FileIsWhole, Running
  <1>13. CASE SpoolFails
    <2>1. /\ Running /\ Last.to = "path" /\ End("throws", <<>>) /\ spooled' = <<>>
          /\ file' = file
      BY <1>13 DEF SpoolFails
    <2> QED
      BY <1>1, <1>10, <1>11, <2>1, ChunkSequences DEF Outcomes
  <1>14. CASE WriterFails
    <2>1. /\ Running /\ spooled' = <<>> /\ file' = file \o spooled
          /\ \E outcome \in {"throws", "panics"} : End(outcome, <<>>)
      <3>1. /\ Running /\ spooled' = <<>> /\ file' = file \o spooled
            /\ End(IF Last.format = "json" /\ Last.to # "path" THEN "panics" ELSE "throws", <<>>)
        BY <1>14, Zenon DEF WriterFails
      <3> QED
        BY <3>1
    <2>2. file' \in Seq(Chunk)
      BY <1>1, <2>1, ChunkSequences
    <2> QED
      BY <1>10, <1>11, <2>1, <2>2, ChunkSequences DEF Outcomes
  <1>15. CASE Return
    <2> DEFINE result == IF Last.to = "memory" THEN buffers ELSE <<>>
    <2>1. result \in Seq(Chunk)
      BY <1>1 DEF BuffersTyped
    <2>2. /\ Running /\ next = Last.chunks /\ End("returned", result)
          /\ spooled' = <<>> /\ file' = file \o spooled /\ UNCHANGED diskFull
      BY <1>15, Zenon DEF Return
    <2>3. file' \in Seq(Chunk)
      BY <1>1, <2>2, ChunkSequences
    <2> QED
      BY <1>10, <1>11, <2>1, <2>2, <2>3 DEF Outcomes
  <1>16. CASE LastSpoolFails
    <2>1. /\ Running /\ Last.to = "path" /\ next = Last.chunks /\ diskFull' = TRUE
          /\ spooled' = <<>> /\ file' = file
          /\ \E outcome \in {"returned", "throws"} : End(outcome, <<>>)
      BY <1>16, Zenon DEF LastSpoolFails
    <2>2. Len(file') + Spool >= Last.chunks
      BY <1>1, <1>2, <1>11, <2>1
    <2> QED
      BY <1>1, <1>10, <1>11, <2>1, <2>2, ChunkSequences DEF Outcomes
  <1>17. CASE EventLoop
    <2>1. UNCHANGED <<calls, next, spooled, file, diskFull>>
      BY <1>17, Zenon DEF EventLoop, SinkDone, SinkFails, EndStream, FinishStream, callVars,
                          fileVars
    <2> QED
      BY <1>4, <2>1
  <1>18. CASE UNCHANGED vars
    BY <1>4, <1>18 DEF vars, callVars, fileVars
  <1> QED
    BY <1>6, <1>7, <1>8, <1>9, <1>12, <1>13, <1>14, <1>15, <1>16, <1>17, <1>18
       DEF Next, Native

\* A file holds a prefix of the frame last written to it, and all of it once the
\* call has returned; where the disk failed, a call that returned all the same
\* has lost no more than the BufWriter held.
THEOREM FileCorrect == Spec => []FileIsWhole
  <1>1. Init => FileInv
    BY InitInv DEF Init, Inv, FileInv, SpoolInv, FileIsWhole, Running
  <1>2. FileInv /\ [Next]_vars => FileInv'
    BY CallsStep, BuffersStep, FlagsStep, FileStep DEF FileInv, TypeOK
  <1>3. FileInv => FileIsWhole
    BY DEF FileInv
  <1> QED
    BY <1>1, <1>2, <1>3, PTL DEF Spec
=============================================================================
