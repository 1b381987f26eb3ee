-------------------------- MODULE SessionInvariant --------------------------
(***************************************************************************)
(* The inductive invariant behind the safety properties of Session.        *)
(*                                                                         *)
(* None of those properties is inductive by itself: that a count of chunks *)
(* proves a whole file rests on every chunk being sent, delivered and      *)
(* counted at most once, and that no chunk meets an unmapped file rests on *)
(* the order of handshake, mapping, acknowledgement and dispatch.          *)
(***************************************************************************)
EXTENDS SessionProperties

------------------------------------------------------------------------------
(* The handshake comes first. *)

NoAnswerYet ==
    /\ down = <<>> /\ sIo = "idle"
    /\ ~handshake_acked /\ ~handshake_rejected

NoChunkYet ==
    /\ next = 0 /\ chunks_sent = 0
    /\ \A c \in Chunks : sTask[c] = "none"
    /\ chunkTasks = <<>>

NothingReceived ==
    /\ chunks_recv = 0 /\ completedChunks = {} /\ ~trans_complete
    /\ rPc = "waiting"
    /\ \A c \in Chunks : content[c] # "data"

NoFile == total_chunks = 0 /\ write_view = 0 /\ ~mapped

Ready ==
    /\ expectedChunks = NumChunks
    /\ total_chunks = NumChunks
    /\ write_view = NumChunks

\* Nothing has reached the receiver: the handshake is unsent or under way.
BeforeHandshake ==
    /\ sPc \in {"start", "threw", "waitAck"}
    /\ expectedChunks = 0
    /\ NoFile /\ NoAnswerYet /\ NoChunkYet /\ NothingReceived
    /\ \A st \in Streams :
          up[st] # <<>> => st = 0 /\ sPc = "waitAck" /\ up[st] = <<Handshake>>

\* The receiver is working on the handshake; its sender waits.
DuringHandshake ==
    /\ sPc = "waitAck"
    /\ NoAnswerYet /\ NoChunkYet /\ NothingReceived
    /\ hsTasks[1].pc = "queued" => expectedChunks = 0 /\ NoFile
    /\ hsTasks[1].pc # "queued" =>
          pin = ExpectedPin /\ expectedChunks = NumChunks
    /\ hsTasks[1].pc \in {"accepted", "manifest", "threw"} =>
          write_view = 0 /\ ~mapped
    /\ hsTasks[1].pc \in {"manifest", "mapped"} =>
          total_chunks = NumChunks
    /\ hsTasks[1].pc = "mapped" => write_view = NumChunks /\ mapped

Accepted ==
    /\ Ready
    /\ rPc \in {"waiting", "returned"} => mapped
    /\ ~handshake_rejected
    /\ \A k \in DOMAIN down :
          /\ down[k].type = "handshakeAck"
          /\ down[k].packed = NumChunks
          /\ down[k].bits = {}
    /\ sPc = "waitAck" => NoChunkYet

Rejected ==
    /\ sPc \in {"waitAck", "returned", "closed"}
    /\ expectedChunks = 0
    /\ NoFile /\ NoChunkYet /\ NothingReceived
    /\ \A k \in DOMAIN down : down[k].type = "handshakeReject"
    /\ handshake_acked \/ sIo = "setAcked" => handshake_rejected

HandshakeDone ==
    /\ sPc \notin {"start", "threw"}
    /\ pin = ExpectedPin => Accepted
    /\ pin # ExpectedPin => Rejected

\* One handshake, in one of its phases; once it is received the streams carry
\* chunks only.
HandshakeInv ==
    /\ resume_bitfield = {}
    /\ hsTasks = <<>> => BeforeHandshake
    /\ hsTasks # <<>> =>
          /\ Len(hsTasks) = 1
          /\ hsTasks[1].pin = pin
          /\ hsTasks[1].pc # "done" => DuringHandshake
          /\ hsTasks[1].pc = "done" => HandshakeDone
          /\ \A st \in Streams : \A k \in DOMAIN up[st] :
                up[st][k].type = "chunkData"

------------------------------------------------------------------------------
(* Every chunk travels once. *)

Travelled == {"pushed", "sent"}

\* A chunk in a stream is in its own stream, pushed, and not yet in the pool.
UpSound ==
    \A st \in Streams : \A k \in DOMAIN up[st] :
       up[st][k].type = "chunkData" =>
          /\ StreamOf(up[st][k].chunk_id) = st
          /\ sTask[up[st][k].chunk_id] \in Travelled
          /\ \A i \in DOMAIN chunkTasks :
                chunkTasks[i].id # up[st][k].chunk_id

UpDistinct ==
    \A st \in Streams : \A j, k \in DOMAIN up[st] :
       /\ up[st][j].type = "chunkData"
       /\ up[st][k].type = "chunkData"
       /\ up[st][j].chunk_id = up[st][k].chunk_id
       => j = k

TasksTravelled ==
    \A i \in DOMAIN chunkTasks : sTask[chunkTasks[i].id] \in Travelled

TasksDistinct ==
    \A i, j \in DOMAIN chunkTasks :
       chunkTasks[i].id = chunkTasks[j].id => i = j

UniqueInv == UpSound /\ UpDistinct /\ TasksTravelled /\ TasksDistinct

------------------------------------------------------------------------------
(* What the sender has counted. *)

SentChunks == {c \in Chunks : sTask[c] = "sent"}

SentInv ==
    /\ chunks_sent = Cardinality(SentChunks)
    /\ \A c \in Chunks : next <= c => sTask[c] = "none"
    /\ SentMeansSent

------------------------------------------------------------------------------
(* What the receiver has counted. *)

StoredPcs  == {"stored", "marked", "counted", "done"}
MarkedPcs  == {"marked", "counted", "done"}
CountedPcs == {"counted", "done"}

CountedChunks ==
    {c \in Chunks : \E i \in DOMAIN chunkTasks :
        chunkTasks[i].id = c /\ chunkTasks[i].pc \in CountedPcs}

\* Each task's chunk is as far as the task is, and no chunk is further.
DataInv ==
    /\ \A i \in DOMAIN chunkTasks :
          /\ chunkTasks[i].pc \in StoredPcs => content[chunkTasks[i].id] = "data"
          /\ chunkTasks[i].pc \in MarkedPcs => chunkTasks[i].id \in completedChunks
    /\ \A c \in Chunks : content[c] = "data" =>
          \E i \in DOMAIN chunkTasks :
             chunkTasks[i].id = c /\ chunkTasks[i].pc \in StoredPcs
    /\ BitfieldSound

\* The counter counts chunks, and completion means it got to the last one.
CountInv ==
    /\ chunks_recv = Cardinality(CountedChunks)
    /\ \A i \in DOMAIN chunkTasks :
          chunkTasks[i].pc = "counted" => chunkTasks[i].received <= chunks_recv
    /\ trans_complete => chunks_recv >= NumChunks
    /\ rPc # "waiting" => trans_complete

\* The inductive invariant: the phase of the handshake, the uniqueness of
\* every chunk on its way, and the exactness of both counters.
IndInv ==
    /\ TypeOK
    /\ HandshakeInv
    /\ UniqueInv
    /\ SentInv
    /\ DataInv
    /\ CountInv
    /\ NoChunkDropped
    /\ NoWriteAfterUnmap
=============================================================================
