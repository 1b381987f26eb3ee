------------------------------- MODULE Session -------------------------------
(***************************************************************************)
(* One Sxaint transfer: the Session that sends a file and the Session that *)
(* receives it (src/net/session.cpp), with the callers in main.cpp that    *)
(* log the result and destroy the Session.                                 *)
(*                                                                         *)
(* Threads.  On the sending side: the thread in sendFile, the workers of   *)
(* its ThreadPool (one task per chunk) and the transport's io thread,      *)
(* which runs handleRecv.  On the receiving side: the thread in recvFile,  *)
(* the io thread and one pool task per message received.  Every atomic     *)
(* operation and every critical section is one step.  The pool starts      *)
(* tasks in the order of submission on several workers; here a submitted   *)
(* task may take its next step at any time, which allows every order.      *)
(*                                                                         *)
(* The transport is what KCPTransport offers its user: one reliable FIFO   *)
(* queue of messages per stream, whose undelivered part dies with the      *)
(* sending Session.                                                        *)
(***************************************************************************)
EXTENDS Integers, Sequences, FiniteSets

CONSTANTS
    NumChunks,      \* chunks of the file, hs.total_chunks
    NumStreams,     \* kNumStreams
    Pins,           \* PINs a user may type at the sender
    ExpectedPin,    \* expected_pin_ of the receiver
    HighWater,      \* the 32000 of the back-pressure loop, in messages
    MaxFaults       \* bound on operations that throw or fail verification

ASSUME SessionAssumption ==
    /\ NumChunks \in Nat \ {0}
    /\ NumStreams \in Nat \ {0}
    /\ ExpectedPin \in Pins
    /\ HighWater \in Nat
    /\ MaxFaults \in Nat

Chunks  == 0 .. NumChunks - 1
Streams == 0 .. NumStreams - 1

VARIABLES
    pin,                 \* the PIN passed to sendFile
    sPc,                 \* where the thread running sendFile is
    next,                \* chunk.id of the dispatch loop
    sTask,               \* the sender's pool task of each chunk
    chunks_sent,
    handshake_acked,
    handshake_rejected,
    resume_bitfield,     \* the chunks whose bit is set
    sIo,                 \* the sender's io thread, inside handleRecv
    history,             \* what main.cpp logged for this file
    up,                  \* messages to the receiver, per stream
    down,                \* messages to the sender, stream 0
    hsTasks,             \* the receiver's pool tasks for handshakes
    chunkTasks,          \* the receiver's pool tasks for chunks
    expectedChunks,
    total_chunks,        \* current_manifest_.total_chunks
    completedChunks,     \* current_manifest_, the chunks whose bit is set
    write_view,          \* size of the span, in chunks
    mapped,              \* file_mapper_ holds a view of the target file
    content,             \* bytes of each chunk in the target file
    chunks_recv,
    trans_complete,
    rPc,                 \* where the thread running recvFile is
    faults               \* faults so far

sendFileVars  == <<pin, sPc, next, history>>
sendTaskVars  == <<sTask, chunks_sent>>
sendIoVars    == <<handshake_acked, handshake_rejected, resume_bitfield, sIo>>
sendVars      == <<sendFileVars, sendTaskVars, sendIoVars>>
manifestVars  == <<expectedChunks, total_chunks, completedChunks>>
fileVars      == <<write_view, mapped, content>>
countVars     == <<chunks_recv, trans_complete>>
recvVars      == <<hsTasks, chunkTasks, manifestVars, fileVars, countVars, rPc>>
vars          == <<sendVars, up, down, recvVars, faults>>

------------------------------------------------------------------------------
(* Messages (include/net/protocol.h). *)

Handshake == [type |-> "handshake", pin |-> pin, total_chunks |-> NumChunks]
ChunkData(c) == [type |-> "chunkData", chunk_id |-> c]

\* packed is the number of chunks the bitfield sent along has bits for.
HandshakeAck(n) ==
    [type |-> "handshakeAck", total_chunks |-> n,
     packed |-> total_chunks, bits |-> completedChunks]
HandshakeReject == [type |-> "handshakeReject"]

StreamOf(c) == c % NumStreams

\* sendChunk, one way and the other, and the frame that net_loop hands up.
SendUp(st, m) == up' = [up EXCEPT ![st] = Append(@, m)]
SendDown(m)   == down' = Append(down, m)
Deliver(st)   == up' = [up EXCEPT ![st] = Tail(@)]

\* ~KCPTransport frees what KCP still queues; packets already on the wire may
\* complete a prefix of each stream.
ReleaseStreams ==
    \E kept \in [Streams -> 0 .. NumChunks + 1] :
       /\ \A st \in Streams : kept[st] <= Len(up[st])
       /\ up' = [st \in Streams |-> SubSeq(up[st], 1, kept[st])]

\* FileMapper: a sparse file of n chunks is created and mapped; the view goes.
MapWrite(n) ==
    /\ write_view' = n
    /\ mapped' = TRUE
    /\ content' = [c \in Chunks |-> "hole"]
Unmap == mapped' = FALSE /\ UNCHANGED <<write_view, content>>

LogHistory(status) == history' = status

Fault == faults < MaxFaults /\ faults' = faults + 1

------------------------------------------------------------------------------
(* Sender: the thread that runs sendFile, and its caller in main.cpp. *)

SendHandshake ==
    /\ sPc = "start"
    /\ sPc' = "waitAck"
    /\ SendUp(0, Handshake)
    /\ UNCHANGED <<pin, next, history, sendTaskVars, sendIoVars, down,
                   recvVars, faults>>

\* The file cannot be opened or mapped: main.cpp gives up on the queue.
SendFileThrows ==
    /\ sPc = "start"
    /\ Fault
    /\ sPc' = "threw"
    /\ UNCHANGED <<pin, next, history, sendTaskVars, sendIoVars, up, down,
                   recvVars>>

\* sendFile returns on a rejection too, and main.cpp logs "Success".
HandshakeAnswered ==
    /\ sPc = "waitAck"
    /\ handshake_acked
    /\ IF handshake_rejected
       THEN sPc' = "returned" /\ LogHistory("Success")
       ELSE sPc' = "dispatch" /\ UNCHANGED history
    /\ UNCHANGED <<pin, next, sendTaskVars, sendIoVars, up, down, recvVars,
                   faults>>

\* Only the backlog of stream 0 is looked at.
DispatchChunk ==
    /\ sPc = "dispatch"
    /\ next < NumChunks
    /\ IF next \in resume_bitfield
       THEN chunks_sent' = chunks_sent + 1 /\ UNCHANGED sTask
       ELSE /\ Len(up[0]) <= HighWater
            /\ sTask' = [sTask EXCEPT ![next] = "queued"]
            /\ UNCHANGED chunks_sent
    /\ next' = next + 1
    /\ UNCHANGED <<pin, sPc, history, sendIoVars, up, down, recvVars, faults>>

AllDispatched ==
    /\ sPc = "dispatch"
    /\ next = NumChunks
    /\ sPc' = "waitSent"
    /\ UNCHANGED <<pin, next, history, sendTaskVars, sendIoVars, up, down,
                   recvVars, faults>>

\* All counted, then every future is collected; main.cpp logs "Success".
SendFileReturns ==
    /\ sPc = "waitSent"
    /\ chunks_sent >= NumChunks
    /\ \A c \in Chunks : sTask[c] \notin {"queued", "pushed"}
    /\ sPc' = "returned"
    /\ LogHistory("Success")
    /\ UNCHANGED <<pin, next, sendTaskVars, sendIoVars, up, down, recvVars,
                   faults>>

\* After its pause main.cpp destroys the Session, whatever is still queued.
SenderCloses ==
    /\ sPc = "returned"
    /\ sPc' = "closed"
    /\ ReleaseStreams
    /\ UNCHANGED <<pin, next, history, sendTaskVars, sendIoVars, down,
                   recvVars, faults>>

------------------------------------------------------------------------------
(* Sender: the pool task of chunk c. *)

\* MUTANT: the chunk is handed to the transport twice.
PushChunkTwice(c) ==
    /\ sTask[c] = "queued"
    /\ sTask' = [sTask EXCEPT ![c] = "pushed"]
    /\ up' = [up EXCEPT ![StreamOf(c)] =
                 @ \o <<ChunkData(c), ChunkData(c)>>]
    /\ UNCHANGED <<sendFileVars, chunks_sent, sendIoVars, down, recvVars,
                   faults>>

\* sendChunk gives the whole frame to KCP; that ikcp_send may refuse a piece,
\* and does not, is in module DataPath.
PushChunk(c) ==
    /\ sTask[c] = "queued"
    /\ sTask' = [sTask EXCEPT ![c] = "pushed"]
    /\ SendUp(StreamOf(c), ChunkData(c))
    /\ UNCHANGED <<sendFileVars, chunks_sent, sendIoVars, down, recvVars,
                   faults>>

CountSent(c) ==
    /\ sTask[c] = "pushed"
    /\ sTask' = [sTask EXCEPT ![c] = "sent"]
    /\ chunks_sent' = chunks_sent + 1
    /\ UNCHANGED <<sendFileVars, sendIoVars, up, down, recvVars, faults>>

\* MUTANT: the counter is moved out of the try block.
SendTaskThrowsCounted(c) ==
    /\ sTask[c] = "queued"
    /\ Fault
    /\ sTask' = [sTask EXCEPT ![c] = "threw"]
    /\ chunks_sent' = chunks_sent + 1
    /\ UNCHANGED <<sendFileVars, sendIoVars, up, down, recvVars>>

\* Compression or encryption throws; the task logs it and ends.
SendTaskThrows(c) ==
    /\ sTask[c] = "queued"
    /\ Fault
    /\ sTask' = [sTask EXCEPT ![c] = "threw"]
    /\ UNCHANGED <<sendFileVars, chunks_sent, sendIoVars, up, down, recvVars>>

------------------------------------------------------------------------------
(* Sender: the io thread. *)

ProcessHandshakeAck ==
    /\ sPc # "closed"
    /\ sIo = "idle"
    /\ down # <<>>
    /\ Head(down).type = "handshakeAck"
    /\ down' = Tail(down)
    /\ IF handshake_acked
       THEN UNCHANGED <<resume_bitfield, sIo>>
       ELSE /\ resume_bitfield' =
                  {c \in Head(down).bits : c < Head(down).total_chunks}
            /\ sIo' = "setAcked"
    /\ UNCHANGED <<sendFileVars, sendTaskVars, handshake_acked,
                   handshake_rejected, up, recvVars, faults>>

\* MUTANT: handshake_acked_ is set before handshake_rejected_.
ProcessRejectSwapped ==
    /\ sPc # "closed"
    /\ sIo = "idle"
    /\ down # <<>>
    /\ Head(down).type = "handshakeReject"
    /\ down' = Tail(down)
    /\ handshake_acked' = TRUE
    /\ sIo' = "setAcked"
    /\ UNCHANGED <<sendFileVars, sendTaskVars, handshake_rejected,
                   resume_bitfield, up, recvVars, faults>>

ProcessReject ==
    /\ sPc # "closed"
    /\ sIo = "idle"
    /\ down # <<>>
    /\ Head(down).type = "handshakeReject"
    /\ down' = Tail(down)
    /\ handshake_rejected' = TRUE
    /\ sIo' = "setAcked"
    /\ UNCHANGED <<sendFileVars, sendTaskVars, handshake_acked,
                   resume_bitfield, up, recvVars, faults>>

\* MUTANT: the answer is not signalled to the waiting thread.
SetAckedLost ==
    /\ sIo = "setAcked"
    /\ sIo' = "idle"
    /\ UNCHANGED <<sendFileVars, sendTaskVars, handshake_acked,
                   handshake_rejected, resume_bitfield, up, down, recvVars,
                   faults>>

SetAcked ==
    /\ sIo = "setAcked"
    /\ handshake_acked' = TRUE
    /\ sIo' = "idle"
    /\ UNCHANGED <<sendFileVars, sendTaskVars, handshake_rejected,
                   resume_bitfield, up, down, recvVars, faults>>

------------------------------------------------------------------------------
(* Receiver: the io thread turns each message into a pool task. *)

\* The io thread outlives the pool, whose submit throws once it is shut down; by
\* then recvFile has returned and every message has been taken.
HandleRecv(st) ==
    /\ rPc # "closed"
    /\ up[st] # <<>>
    /\ Deliver(st)
    /\ LET m == Head(up[st]) IN
       \/ /\ m.type = "handshake"
          /\ hsTasks' = Append(hsTasks,
                [pc |-> "queued", pin |-> m.pin, total |-> m.total_chunks])
          /\ UNCHANGED chunkTasks
       \/ /\ m.type = "chunkData"
          /\ chunkTasks' = Append(chunkTasks,
                [pc |-> "queued", id |-> m.chunk_id, received |-> 0])
          /\ UNCHANGED hsTasks
    /\ UNCHANGED <<sendVars, down, manifestVars, fileVars, countVars, rPc,
                   faults>>

------------------------------------------------------------------------------
(* Receiver: processHandshake, run by the pool for the i-th handshake. *)

\* A worker may still take a task.
PoolRuns == rPc \notin {"joined", "closed"}

HsStep(i, from, to) ==
    /\ i \in DOMAIN hsTasks
    /\ hsTasks[i].pc = from
    /\ hsTasks' = [hsTasks EXCEPT ![i] = [@ EXCEPT !.pc = to]]
    /\ UNCHANGED <<sendVars, up, chunkTasks, rPc>>

\* MUTANT: the acknowledgement is sent as soon as the PIN is accepted.
HsLockedAcksEarly(i) ==
    /\ PoolRuns
    /\ HsStep(i, "queued", "accepted")
    /\ expectedChunks' = hsTasks[i].total
    /\ SendDown(HandshakeAck(hsTasks[i].total))
    /\ UNCHANGED <<total_chunks, completedChunks, fileVars, countVars, faults>>

\* The critical section: answer a repeated handshake with the bitfield, reject
\* a wrong PIN, or claim the transfer.
HsLocked(i) ==
    /\ PoolRuns
    /\ i \in DOMAIN hsTasks
    /\ LET hs == hsTasks[i] IN
       IF expectedChunks > 0
       THEN /\ HsStep(i, "queued", "done")
            /\ SendDown(HandshakeAck(hs.total))
            /\ UNCHANGED expectedChunks
       ELSE IF hs.pin # ExpectedPin
       THEN /\ HsStep(i, "queued", "done")
            /\ SendDown(HandshakeReject)
            /\ UNCHANGED expectedChunks
       ELSE /\ HsStep(i, "queued", "accepted")
            /\ expectedChunks' = hs.total
            /\ UNCHANGED down
    /\ UNCHANGED <<total_chunks, completedChunks, fileVars, countVars, faults>>

\* Outside the lock: a fresh manifest and counter, then the file.
HsManifest(i) ==
    /\ HsStep(i, "accepted", "manifest")
    /\ total_chunks' = hsTasks[i].total
    /\ completedChunks' = {}
    /\ chunks_recv' = 0
    /\ UNCHANGED <<down, expectedChunks, fileVars, trans_complete, faults>>

HsMap(i) ==
    /\ HsStep(i, "manifest", "mapped")
    /\ MapWrite(hsTasks[i].total)
    /\ UNCHANGED <<down, manifestVars, countVars, faults>>

\* The path, the file or the view cannot be made; expectedChunks_ stays set.
HsThrows(i) ==
    /\ Fault
    /\ \E from \in {"accepted", "manifest"} : HsStep(i, from, "threw")
    /\ UNCHANGED <<down, manifestVars, fileVars, countVars>>

\* MUTANT: the acknowledgement does not wait for the file to be mapped.
HsAckUnmapped(i) ==
    /\ HsStep(i, "manifest", "done")
    /\ SendDown(HandshakeAck(hsTasks[i].total))
    /\ UNCHANGED <<manifestVars, fileVars, countVars, faults>>

HsAck(i) ==
    /\ HsStep(i, "mapped", "done")
    /\ SendDown(HandshakeAck(hsTasks[i].total))
    /\ UNCHANGED <<manifestVars, fileVars, countVars, faults>>

------------------------------------------------------------------------------
(* Receiver: processChunk, run by the pool for the i-th chunk message. *)

ChunkStep(i, from, to) ==
    /\ i \in DOMAIN chunkTasks
    /\ chunkTasks[i].pc = from
    /\ chunkTasks' = [chunkTasks EXCEPT ![i] = [@ EXCEPT !.pc = to]]
    /\ UNCHANGED <<sendVars, up, down, hsTasks, rPc>>

InView(c) == c < write_view

\* MUTANT: the bit is set before the bytes are verified.
AdmitChunkMarks(i) ==
    /\ PoolRuns
    /\ ChunkStep(i, "queued", "admitted")
    /\ completedChunks' = completedChunks \cup {chunkTasks[i].id}
    /\ UNCHANGED <<expectedChunks, total_chunks, fileVars, countVars, faults>>

AdmitChunk(i) ==
    /\ PoolRuns
    /\ ChunkStep(i, "queued",
                 IF InView(chunkTasks[i].id) THEN "admitted" ELSE "dropped")
    /\ UNCHANGED <<manifestVars, fileVars, countVars, faults>>

\* Decrypt, decompress into the view, check the CRC of what is there.
StoreChunk(i) ==
    /\ ChunkStep(i, "admitted", "stored")
    /\ content' = [content EXCEPT ![chunkTasks[i].id] = "data"]
    /\ UNCHANGED <<manifestVars, write_view, mapped, countVars, faults>>

\* MUTANT: a chunk that fails verification is counted as received.
ChunkFailsCounted(i) ==
    /\ Fault
    /\ ChunkStep(i, "admitted", "failed")
    /\ chunks_recv' = chunks_recv + 1
    /\ UNCHANGED <<manifestVars, fileVars, trans_complete>>

\* MUTANT: a chunk that fails verification gives up the view of the file.
ChunkFailsUnmaps(i) ==
    /\ Fault
    /\ ChunkStep(i, "admitted", "failed")
    /\ write_view' = 0
    /\ UNCHANGED <<manifestVars, mapped, content, countVars>>

\* One of the three fails: before the view is touched, or after.
ChunkFails(i) ==
    /\ Fault
    /\ ChunkStep(i, "admitted", "failed")
    /\ \/ UNCHANGED content
       \/ content' = [content EXCEPT ![chunkTasks[i].id] = "garbage"]
    /\ UNCHANGED <<manifestVars, write_view, mapped, countVars>>

MarkCompleted(i) ==
    /\ ChunkStep(i, "stored", "marked")
    /\ completedChunks' = completedChunks \cup {chunkTasks[i].id}
    /\ UNCHANGED <<expectedChunks, total_chunks, fileVars, countVars, faults>>

CountReceived(i) ==
    /\ i \in DOMAIN chunkTasks
    /\ chunkTasks[i].pc = "marked"
    /\ chunkTasks' = [chunkTasks EXCEPT
          ![i] = [@ EXCEPT !.pc = "counted", !.received = chunks_recv + 1]]
    /\ chunks_recv' = chunks_recv + 1
    /\ UNCHANGED <<sendVars, up, down, hsTasks, rPc, manifestVars, fileVars,
                   trans_complete, faults>>

\* MUTANT: completion is tested with > instead of equality.
FinishChunkLate(i) ==
    /\ ChunkStep(i, "counted", "done")
    /\ trans_complete' =
          (trans_complete \/ chunkTasks[i].received > expectedChunks)
    /\ UNCHANGED <<manifestVars, fileVars, chunks_recv, faults>>

\* MUTANT: completion is read off the id of the last chunk.
FinishChunkByLastId(i) ==
    /\ ChunkStep(i, "counted", "done")
    /\ trans_complete' =
          (trans_complete \/ chunkTasks[i].id = expectedChunks - 1)
    /\ UNCHANGED <<manifestVars, fileVars, chunks_recv, faults>>

FinishChunk(i) ==
    /\ ChunkStep(i, "counted", "done")
    /\ trans_complete' =
          (trans_complete \/ chunkTasks[i].received = expectedChunks)
    /\ UNCHANGED <<manifestVars, fileVars, chunks_recv, faults>>

------------------------------------------------------------------------------
(* Receiver: the thread that runs recvFile, and its caller in main.cpp. *)

\* MUTANT: recvFile gives up waiting once data has started to arrive.
RecvFileGivesUp ==
    /\ rPc = "waiting"
    /\ chunks_recv > 0
    /\ rPc' = "returned"
    /\ UNCHANGED <<sendVars, up, down, hsTasks, chunkTasks, manifestVars,
                   fileVars, countVars, faults>>

RecvFileReturns ==
    /\ rPc = "waiting"
    /\ trans_complete
    /\ rPc' = "returned"
    /\ UNCHANGED <<sendVars, up, down, hsTasks, chunkTasks, manifestVars,
                   fileVars, countVars, faults>>

\* ~Session destroys file_mapper_ before thread_pool_: the view goes first,
\* tasks may still be running.
ReceiverUnmaps ==
    /\ rPc = "returned"
    /\ rPc' = "unmapped"
    /\ Unmap
    /\ UNCHANGED <<sendVars, up, down, hsTasks, chunkTasks, manifestVars,
                   countVars, faults>>

\* ~ThreadPool joins the workers, each at the end of its current task.
ReceiverJoins ==
    /\ rPc = "unmapped"
    /\ \A i \in DOMAIN hsTasks :
          hsTasks[i].pc \in {"queued", "done", "threw"}
    /\ \A i \in DOMAIN chunkTasks :
          chunkTasks[i].pc \in {"queued", "done", "dropped", "failed"}
    /\ rPc' = "joined"
    /\ UNCHANGED <<sendVars, up, down, hsTasks, chunkTasks, manifestVars,
                   fileVars, countVars, faults>>

\* ~KCPTransport joins the io thread and releases the KCP objects.
ReceiverCloses ==
    /\ rPc = "joined"
    /\ rPc' = "closed"
    /\ UNCHANGED <<sendVars, up, down, hsTasks, chunkTasks, manifestVars,
                   fileVars, countVars, faults>>

------------------------------------------------------------------------------
(* The specification. *)

Init ==
    /\ pin \in Pins
    /\ sPc = "start" /\ next = 0 /\ history = "none"
    /\ sTask = [c \in Chunks |-> "none"] /\ chunks_sent = 0
    /\ handshake_acked = FALSE /\ handshake_rejected = FALSE
    /\ resume_bitfield = {} /\ sIo = "idle"
    /\ up = [st \in Streams |-> <<>>] /\ down = <<>>
    /\ hsTasks = <<>> /\ chunkTasks = <<>>
    /\ expectedChunks = 0 /\ total_chunks = 0 /\ completedChunks = {}
    /\ write_view = 0 /\ mapped = FALSE
    /\ content = [c \in Chunks |-> "absent"]
    /\ chunks_recv = 0 /\ trans_complete = FALSE
    /\ rPc = "waiting" /\ faults = 0

SendFile ==
    \/ SendHandshake \/ SendFileThrows \/ HandshakeAnswered
    \/ DispatchChunk \/ AllDispatched \/ SendFileReturns \/ SenderCloses

SendTask(c) == PushChunk(c) \/ CountSent(c) \/ SendTaskThrows(c)

SenderIo == ProcessHandshakeAck \/ ProcessReject \/ SetAcked

ProcessHandshake(i) ==
    HsLocked(i) \/ HsManifest(i) \/ HsMap(i) \/ HsThrows(i) \/ HsAck(i)

ProcessChunk(i) ==
    \/ AdmitChunk(i) \/ StoreChunk(i) \/ ChunkFails(i)
    \/ MarkCompleted(i) \/ CountReceived(i) \/ FinishChunk(i)

RecvFile ==
    RecvFileReturns \/ ReceiverUnmaps \/ ReceiverJoins \/ ReceiverCloses

Next ==
    \/ SendFile
    \/ \E c \in Chunks : SendTask(c)
    \/ SenderIo
    \/ \E st \in Streams : HandleRecv(st)
    \/ \E i \in DOMAIN hsTasks : ProcessHandshake(i)
    \/ \E i \in DOMAIN chunkTasks : ProcessChunk(i)
    \/ RecvFile

Spec == Init /\ [][Next]_vars

\* Every thread keeps running, a pool task submitted is eventually run, and a
\* message KCP still holds is eventually delivered.
Fairness ==
    /\ WF_vars(SendFile)
    /\ \A c \in Chunks : WF_vars(SendTask(c))
    /\ WF_vars(SenderIo)
    /\ \A st \in Streams : WF_vars(HandleRecv(st))
    /\ WF_vars(ProcessHandshake(1))
    /\ \A c \in Chunks : WF_vars(ProcessChunk(c + 1))
    /\ WF_vars(RecvFile)

FairSpec == Spec /\ Fairness
==============================================================================
