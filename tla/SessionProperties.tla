-------------------------- MODULE SessionProperties --------------------------
(***************************************************************************)
(* What one Sxaint transfer must and must not do: the properties that the  *)
(* runs check and that the proof modules prove of Session.                 *)
(***************************************************************************)
EXTENDS Session

------------------------------------------------------------------------------
(* Types. *)

UpMessage ==
    [type : {"handshake"}, pin : Pins, total_chunks : {NumChunks}]
    \cup [type : {"chunkData"}, chunk_id : Chunks]

DownMessage ==
    [type : {"handshakeAck"}, total_chunks : {NumChunks}, packed : Nat,
     bits : SUBSET Chunks]
    \cup [type : {"handshakeReject"}]

HsTask ==
    [pc : {"queued", "accepted", "manifest", "mapped", "threw", "done"},
     pin : Pins, total : {NumChunks}]

ChunkTask ==
    [pc : {"queued", "admitted", "dropped", "stored", "failed", "marked",
           "counted", "done"},
     id : Chunks, received : Nat]

SendTypeOK ==
    /\ pin \in Pins
    /\ sPc \in {"start", "waitAck", "dispatch", "waitSent", "returned",
                "closed", "threw"}
    /\ next \in 0 .. NumChunks
    /\ history \in {"none", "Success"}
    /\ sTask \in [Chunks -> {"none", "queued", "pushed", "sent", "threw"}]
    /\ chunks_sent \in Nat
    /\ handshake_acked \in BOOLEAN
    /\ handshake_rejected \in BOOLEAN
    /\ resume_bitfield \in SUBSET Chunks
    /\ sIo \in {"idle", "setAcked"}

RecvTypeOK ==
    /\ hsTasks \in Seq(HsTask)
    /\ chunkTasks \in Seq(ChunkTask)
    /\ expectedChunks \in {0, NumChunks}
    /\ total_chunks \in {0, NumChunks}
    /\ completedChunks \in SUBSET Chunks
    /\ write_view \in {0, NumChunks}
    /\ mapped \in BOOLEAN
    /\ content \in [Chunks -> {"absent", "hole", "data", "garbage"}]
    /\ chunks_recv \in Nat
    /\ trans_complete \in BOOLEAN
    /\ rPc \in {"waiting", "returned", "unmapped", "joined", "closed"}

\* The type invariant: every variable keeps its type, and next, the id of the
\* chunk sendFile dispatches, never runs past the end of the file.
TypeOK ==
    /\ SendTypeOK
    /\ RecvTypeOK
    /\ up \in [Streams -> Seq(UpMessage)]
    /\ down \in Seq(DownMessage)
    /\ faults \in 0 .. MaxFaults

------------------------------------------------------------------------------
(* Safety. *)

\* trans_complete_ is set by a count alone (processChunk compares the value it
\* got from fetch_add with expectedChunks_).  When it is set, every chunk of
\* the file holds verified bytes and has its bit in the manifest, whatever
\* order the pool ran the chunks in and whichever of them failed.
CompletionSound ==
    trans_complete =>
        \A c \in Chunks : content[c] = "data" /\ c \in completedChunks

\* A bit in the manifest, which a sender would use to skip the chunk, is set
\* only for bytes that are in the file and passed the CRC check.
BitfieldSound ==
    \A c \in completedChunks : content[c] = "data"

\* ~Session unmaps the file before it joins the pool.  No task is then between
\* processChunk's check of write_view_ and the end of its writes: the one that
\* completed the transfer was the last to have any.
NoWriteAfterUnmap ==
    \A i \in DOMAIN chunkTasks : chunkTasks[i].pc = "admitted" => mapped

\* processChunk silently drops a chunk it has no view for, and nobody sends it
\* again.  Handshake and chunks are handled by different pool threads; the
\* acknowledgement orders them, so that this never happens.
NoChunkDropped ==
    \A i \in DOMAIN chunkTasks : chunkTasks[i].pc # "dropped"

\* processHandshakeACk reads one bit for each of the ack's total_chunks from
\* the packed bitfield that came with it: the two lengths agree, so it never
\* reads past the end of the vector.
AckInBounds ==
    \A i \in DOMAIN down :
        down[i].type = "handshakeAck" => down[i].packed = down[i].total_chunks

\* When sendFile returns after an accepted handshake, every chunk was handed to
\* the transport or is one the receiver already has: a task that threw keeps
\* the counter below the total.
SentMeansSent ==
    sPc \in {"returned", "closed"} /\ ~handshake_rejected =>
        \A c \in Chunks : sTask[c] = "sent" \/ c \in resume_bitfield

\* With a wrong PIN the receiver creates no file and the sender, whose thread
\* reads handshake_rejected_ only after it saw handshake_acked_, sends no chunk.
WrongPinSendsNothing ==
    pin # ExpectedPin =>
        /\ write_view = 0
        /\ \A c \in Chunks : sTask[c] = "none"

\* Verified bytes in the target file are never overwritten or lost, by a later
\* message, a failing task or the destruction of the Session.
VerifiedDataStable ==
    [][\A c \in Chunks : content[c] = "data" => content'[c] = "data"]_vars

\* The receiver implements FileTransfer: it opens one file, stores every chunk
\* once and declares the file complete when it is.
Transfer == INSTANCE FileTransfer WITH
    open     <- write_view > 0,
    stored   <- {c \in Chunks : content[c] = "data"},
    complete <- trans_complete

ImplementsFileTransfer == Transfer!Spec

------------------------------------------------------------------------------
(* Liveness. *)

\* A chunk handed to the transport died with the sender's Session.
CutOff ==
    \E c \in Chunks :
       /\ sTask[c] = "sent"
       /\ \A i \in DOMAIN chunkTasks : chunkTasks[i].id # c
       /\ \A i \in DOMAIN up[StreamOf(c)] :
             up[StreamOf(c)][i] # ChunkData(c)

\* With the right PIN, without a fault, and unless the sender's Session is
\* destroyed with data still queued, the file arrives, sendFile and recvFile
\* return and both Sessions are destroyed.
Delivered ==
    pin = ExpectedPin ~>
       \/ trans_complete /\ sPc = "closed" /\ rPc = "closed"
       \/ faults > 0 \/ CutOff

\* With a wrong PIN sendFile does not wait for ever: it returns, unless it
\* could not open its file in the first place.
RejectedReturns ==
    pin # ExpectedPin ~>
       \/ sPc = "closed" /\ handshake_rejected
       \/ sPc = "threw"

\* Chunk c's task threw, on the sender or on the receiver.
ChunkFailed(c) ==
    \/ sTask[c] = "threw"
    \/ \E i \in DOMAIN chunkTasks :
          chunkTasks[i].id = c /\ chunkTasks[i].pc = "failed"

\* A chunk's task that throws is never run again, on either side, and keeps
\* both calls from returning; but it takes no other chunk with it.  Every
\* chunk whose own task did not throw reaches the file and is verified.
FaultContained ==
    pin = ExpectedPin ~>
       \/ sPc = "threw" \/ CutOff
       \/ \E i \in DOMAIN hsTasks : hsTasks[i].pc = "threw"
       \/ \A c \in Chunks : content[c] = "data" \/ ChunkFailed(c)

------------------------------------------------------------------------------
(* What the program tells its user, and does not keep. *)

\* main.cpp logs a file as sent with "Success" only when its transfer was not
\* "aborted" because of the PIN (session.cpp, sendFile).
SuccessMeansAccepted ==
    history = "Success" => ~handshake_rejected

\* A file logged as sent with "Success" is eventually complete at the receiver.
SuccessMeansDelivered ==
    history = "Success" /\ ~handshake_rejected ~> trans_complete
==============================================================================
