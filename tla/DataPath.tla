------------------------------ MODULE DataPath ------------------------------
(***************************************************************************)
(* The chunks of one file from the sender's mapped file to the receiver's: *)
(* the pool tasks of sendFile and its loop that shows their progress, the  *)
(* frames that KCPTransport cuts into KCP segments and puts together again *)
(* (src/net/transport.cpp and ikcp_send in stream mode), and the pool      *)
(* tasks that run processChunk.                                            *)
(*                                                                         *)
(* Between the two ends segments arrive once and in order: module KcpLink  *)
(* shows that.  Handshake, faults and destruction are in module Session.   *)
(***************************************************************************)
EXTENDS ChunkCodec, SequencesExt

CONSTANTS
    FileSizes,      \* sizes of files, not 0: an empty file cannot be mapped
    NumStreams,     \* kNumStreams
    HeaderSize,     \* sizeof(chunkWireHeader)
    ByteValues,     \* 256
    max_send_size,
    mss,
    IKCP_WND_RCV

ASSUME DataPathAssumption ==
    /\ FileSizes \subseteq Nat \ {0}
    /\ {NumStreams, max_send_size, mss, ByteValues} \subseteq Nat \ {0}
    /\ {HeaderSize, IKCP_WND_RCV} \subseteq Nat
    \* "128 KB max per ikcp_send to respect IKCP_WND_RCV limit"
    /\ CeilDiv(max_send_size, mss) < IKCP_WND_RCV
    \* A message is far shorter than four bytes can say.
    /\ HeaderSize + ChunkSize + LzSlack + TagSize
          < ByteValues * ByteValues * ByteValues * ByteValues

Streams == 0 .. NumStreams - 1
Key     == "derive_key(pin)"
Hole    == 0

VARIABLES
    file_view,      \* the sender's file; its bytes are all different
    strategy,
    task,           \* per chunk, where the sender's task is
    frame,          \* per chunk, the message it sends
    sent,           \* per chunk, the bytes of its frame given to ikcp_send
    kcpMutex,       \* per stream, the chunks whose tasks hold the mutex
    snd_queue,      \* per stream, segments not yet in KCP's window
    segments,       \* per stream, segments on their way
    stream_buffer,  \* per stream, the receiver's
    pushed,         \* history: per stream, chunks in the order of the mutex
    handed,         \* history: per stream, what on_received_ was called with
    toProcess,      \* messages with a pool task of the receiver
    write_view,     \* the receiver's file
    completedChunks,
    chunks_recv_,
    trans_complete_,
    chunks_sent_,       \* the sender's counters
    bytes_transferred_,
    sendPc,             \* where the thread in sendFile is
    shown               \* the percentage it gave to on_progress_ last

taskVars == <<task, frame, sent>>
linkVars == <<kcpMutex, snd_queue, segments, pushed>>
fileVars == <<write_view, completedChunks, chunks_recv_, trans_complete_>>
showVars == <<chunks_sent_, bytes_transferred_, sendPc, shown>>
vars     == <<file_view, strategy, taskVars, linkVars, stream_buffer, handed,
              toProcess, fileVars, showVars>>

Chunks      == ChunkIds(Len(file_view))
StreamOf(c) == c % NumStreams

------------------------------------------------------------------------------
(* Frames: four bytes of length, then the message.  A byte is the chunk it is *)
(* of, its place in the message (0 for the length) and its value.             *)

Encoded == {c \in Chunks : task[c] # "queued"}

BodySize(c) == HeaderSize + frame[c].compressed_size

Body(c) == [i \in 1 .. BodySize(c) |-> <<c, i, 1>>]

\* The lowest byte comes first.
PlaceValue ==
    <<1, ByteValues, ByteValues * ByteValues, ByteValues * ByteValues * ByteValues>>

LengthByte(n, i) == (n \div PlaceValue[i]) % ByteValues

Frame(c) == [i \in 1 .. 4 |-> <<c, 0, LengthByte(BodySize(c), i)>>] \o Body(c)

frameLength(buffer) ==
    buffer[1][3] * PlaceValue[1] + buffer[2][3] * PlaceValue[2]
      + buffer[3][3] * PlaceValue[3] + buffer[4][3] * PlaceValue[4]

HoldsFrame(buffer) ==
    Len(buffer) >= 4 /\ Len(buffer) >= 4 + frameLength(buffer)

\* How much of data the last segment of the queue takes.
Fills(queue, data) ==
    IF queue = <<>> THEN 0 ELSE Min({Len(data), mss - Len(Last(queue))})

Fragments(data) ==
    [k \in 1 .. CeilDiv(Len(data), mss) |->
       SubSeq(data, (k - 1) * mss + 1, Min({k * mss, Len(data)}))]

\* ikcp_send in stream mode: the queue it leaves, and whether it returned an
\* error.  Data that needs too many segments is not queued.
ikcp_send(queue, data) ==
    LET n      == Fills(queue, data)
        filled == IF n = 0 THEN queue
                  ELSE [queue EXCEPT ![Len(queue)] = @ \o SubSeq(data, 1, n)]
        rest   == SubSeq(data, n + 1, Len(data))
        fits   == CeilDiv(Len(rest), mss) < IKCP_WND_RCV
    IN  [queue |-> IF fits THEN filled \o Fragments(rest) ELSE filled,
         error |-> ~fits /\ n = 0]

------------------------------------------------------------------------------
(* The sender's task for chunk c *)

\* Compress, encrypt, header.
Encode(c) ==
    /\ task[c] = "queued"
    /\ LET chunk == Slice(file_view, c) IN
       \E size \in CompressedSizes(chunk.payloadSize, strategy) :
          frame' = [frame EXCEPT ![c] = ChunkMessage(chunk, strategy, size, Key)]
    /\ task' = [task EXCEPT ![c] = "encoded"]
    /\ UNCHANGED <<file_view, strategy, sent, linkVars, stream_buffer, handed,
                   toProcess, fileVars, showVars>>

\* MUTANT: the mutex is taken for each piece, not for the frame.
LockNot(c) ==
    /\ task[c] = "encoded"
    /\ task' = [task EXCEPT ![c] = "sending"]
    /\ pushed' = [pushed EXCEPT ![StreamOf(c)] = Append(@, c)]
    /\ UNCHANGED <<file_view, strategy, frame, sent, kcpMutex, snd_queue, segments,
                   stream_buffer, handed, toProcess, fileVars, showVars>>

\* sendChunk takes the stream's mutex.
Lock(c) ==
    /\ task[c] = "encoded"
    /\ kcpMutex[StreamOf(c)] = {}
    /\ kcpMutex' = [kcpMutex EXCEPT ![StreamOf(c)] = {c}]
    /\ task' = [task EXCEPT ![c] = "sending"]
    /\ pushed' = [pushed EXCEPT ![StreamOf(c)] = Append(@, c)]
    /\ UNCHANGED <<file_view, strategy, frame, sent, snd_queue, segments,
                   stream_buffer, handed, toProcess, fileVars, showVars>>

\* MUTANT: the frame is given to ikcp_send in one piece.
PieceWhole(c) == Frame(c)

\* The next piece of the frame.
Piece(c) ==
    SubSeq(Frame(c), sent[c] + 1, Min({sent[c] + max_send_size, Len(Frame(c))}))

\* One round of the loop; an error ends it.
SendPiece(c) ==
    /\ task[c] = "sending"
    /\ \E r \in {ikcp_send(snd_queue[StreamOf(c)], Piece(c))} :
          /\ snd_queue' = [snd_queue EXCEPT ![StreamOf(c)] = r.queue]
          /\ sent' = [sent EXCEPT ![c] = IF r.error THEN @ ELSE @ + Len(Piece(c))]
          /\ task' = [task EXCEPT ![c] =
                IF r.error \/ sent'[c] = Len(Frame(c)) THEN "flush" ELSE "sending"]
    /\ UNCHANGED <<file_view, strategy, frame, kcpMutex, segments, pushed,
                   stream_buffer, handed, toProcess, fileVars, showVars>>

\* ikcp_flush moves as many segments as the window has room for.
Flush(st, n) ==
    /\ snd_queue' = [snd_queue EXCEPT ![st] = SubSeq(@, n + 1, Len(@))]
    /\ segments' = [segments EXCEPT ![st] = @ \o SubSeq(snd_queue[st], 1, n)]

Unlock(c) ==
    /\ task[c] = "flush"
    /\ \E n \in 0 .. Len(snd_queue[StreamOf(c)]) : Flush(StreamOf(c), n)
    /\ kcpMutex' = [kcpMutex EXCEPT ![StreamOf(c)] = @ \ {c}]
    /\ task' = [task EXCEPT ![c] = "pushed"]
    /\ UNCHANGED <<file_view, strategy, frame, sent, pushed, stream_buffer, handed,
                   toProcess, fileVars, showVars>>

\* MUTANT: add_bytes is given the size of a full chunk.
AddedFull(c) == ChunkSize

\* What the task adds to bytes_transferred_.
Added(c) == Slice(file_view, c).payloadSize

\* Two counters, one after the other.
CountSent(c) ==
    /\ task[c] = "pushed"
    /\ chunks_sent_' = chunks_sent_ + 1
    /\ task' = [task EXCEPT ![c] = "counted"]
    /\ UNCHANGED <<file_view, strategy, frame, sent, linkVars, stream_buffer, handed,
                   toProcess, fileVars, bytes_transferred_, sendPc, shown>>

AddBytes(c) ==
    /\ task[c] = "counted"
    /\ bytes_transferred_' = bytes_transferred_ + Added(c)
    /\ task' = [task EXCEPT ![c] = "done"]
    /\ UNCHANGED <<file_view, strategy, frame, sent, linkVars, stream_buffer, handed,
                   toProcess, fileVars, chunks_sent_, sendPc, shown>>

------------------------------------------------------------------------------
(* The thread in sendFile, once the tasks are submitted *)

\* A round of the loop.  It began with a test of chunks_sent_, but tasks go on
\* between the test and the reading of bytes_transferred_: the last of them may
\* have counted by now.
Show ==
    /\ sendPc = "loop"
    /\ shown' = get_progress_per(bytes_transferred_, Len(file_view))
    /\ UNCHANGED <<file_view, strategy, taskVars, linkVars, stream_buffer, handed,
                   toProcess, fileVars, chunks_sent_, bytes_transferred_, sendPc>>

\* The test ends the loop, and 100 is shown without looking at the bytes.
ShowDone ==
    /\ sendPc = "loop"
    /\ ~(chunks_sent_ < Cardinality(Chunks))
    /\ shown' = 100
    /\ sendPc' = "joining"
    /\ UNCHANGED <<file_view, strategy, taskVars, linkVars, stream_buffer, handed,
                   toProcess, fileVars, chunks_sent_, bytes_transferred_>>

\* Every future is ready.
SendFileReturns ==
    /\ sendPc = "joining"
    /\ \A c \in Chunks : task[c] = "done"
    /\ sendPc' = "returned"
    /\ UNCHANGED <<file_view, strategy, taskVars, linkVars, stream_buffer, handed,
                   toProcess, fileVars, chunks_sent_, bytes_transferred_, shown>>

------------------------------------------------------------------------------
(* The sender's io thread *)

\* ikcp_input or ikcp_update, then a flush.
IoFlush(st) ==
    /\ kcpMutex[st] = {}
    /\ \E n \in 1 .. Len(snd_queue[st]) : Flush(st, n)
    /\ UNCHANGED <<file_view, strategy, taskVars, kcpMutex, pushed, stream_buffer,
                   handed, toProcess, fileVars, showVars>>

------------------------------------------------------------------------------
(* The receiver's io thread *)

\* ikcp_recv hands up one segment, when the buffer holds no whole frame.
ReadSegment(st) ==
    /\ ~HoldsFrame(stream_buffer[st])
    /\ segments[st] # <<>>
    /\ stream_buffer' = [stream_buffer EXCEPT ![st] = @ \o Head(segments[st])]
    /\ segments' = [segments EXCEPT ![st] = Tail(@)]
    /\ UNCHANGED <<file_view, strategy, taskVars, kcpMutex, snd_queue, pushed,
                   handed, toProcess, fileVars, showVars>>

AfterFrame(buffer) == SubSeq(buffer, 5 + frameLength(buffer), Len(buffer))

\* A whole frame is cut off and handed to handleRecv, which makes a task of it.
HandUp(st) ==
    /\ HoldsFrame(stream_buffer[st])
    /\ LET buffer == stream_buffer[st]
           data   == SubSeq(buffer, 5, 4 + frameLength(buffer))
       IN  /\ handed' = [handed EXCEPT ![st] = Append(@, data)]
           /\ stream_buffer' = [stream_buffer EXCEPT ![st] = AfterFrame(buffer)]
           /\ toProcess' = toProcess \cup {c \in Encoded : data = Body(c)}
    /\ UNCHANGED <<file_view, strategy, taskVars, linkVars, fileVars, showVars>>

------------------------------------------------------------------------------
(* The receiver's task for the message of chunk c *)

\* processChunk; its early returns leave the file as it was, or written but
\* not counted.  The bytes it adds to the receiver's own metrics_ are left out:
\* recvFile stores no on_progress_, and nothing else reads them.
ProcessChunk(c) ==
    /\ c \in toProcess
    /\ toProcess' = toProcess \ {c}
    /\ LET m  == frame[c]
           ok == Writes(m, Len(write_view), Key)
                   /\ Verifies(m, Written(m, write_view))
       IN  /\ write_view' = IF Writes(m, Len(write_view), Key)
                            THEN Written(m, write_view) ELSE write_view
           /\ completedChunks' = [completedChunks EXCEPT ![m.chunk_id] = @ \/ ok]
           /\ chunks_recv_' = chunks_recv_ + (IF ok THEN 1 ELSE 0)
           /\ trans_complete_' = (\/ trans_complete_
                                  \/ ok /\ chunks_recv_' = Cardinality(Chunks))
    /\ UNCHANGED <<file_view, strategy, taskVars, linkVars, stream_buffer, handed,
                   showVars>>

------------------------------------------------------------------------------
\* The handshake has been answered: the receiver has mapped its file, and no
\* chunk is there yet.
Init ==
    /\ \E size \in FileSizes : file_view = [i \in 1 .. size |-> i]
    /\ strategy \in Strategies
    /\ task = [c \in Chunks |-> "queued"]
    /\ frame = [c \in Chunks |-> <<>>]
    /\ sent = [c \in Chunks |-> 0]
    /\ kcpMutex = [st \in Streams |-> {}]
    /\ snd_queue = [st \in Streams |-> <<>>]
    /\ segments = [st \in Streams |-> <<>>]
    /\ stream_buffer = [st \in Streams |-> <<>>]
    /\ pushed = [st \in Streams |-> <<>>]
    /\ handed = [st \in Streams |-> <<>>]
    /\ toProcess = {}
    /\ write_view = [i \in DOMAIN file_view |-> Hole]
    /\ completedChunks = [c \in Chunks |-> FALSE]
    /\ chunks_recv_ = 0 /\ trans_complete_ = FALSE
    /\ chunks_sent_ = 0 /\ bytes_transferred_ = 0 /\ sendPc = "loop" /\ shown = 0

Task(c) ==
    \/ Encode(c) \/ Lock(c) \/ SendPiece(c) \/ Unlock(c)
    \/ CountSent(c) \/ AddBytes(c)

SendFile   == Show \/ ShowDone \/ SendFileReturns
IoRecv(st) == ReadSegment(st) \/ HandUp(st)

Next ==
    \/ \E c \in Chunks : Task(c) \/ ProcessChunk(c)
    \/ \E st \in Streams : IoFlush(st) \/ IoRecv(st)
    \/ SendFile

Spec == Init /\ [][Next]_vars

\* The pools run their tasks and the io threads their loops.  Nothing here goes
\* round for ever (a percentage shown again changes nothing), so it is enough
\* that some thread goes on while one can.
FairSpec == Spec /\ WF_vars(Next)
=============================================================================
