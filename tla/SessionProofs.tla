---------------------------- MODULE SessionProofs ----------------------------
(***************************************************************************)
(* Theorems about Session, for every number of chunks and streams, every   *)
(* set of PINs and any number of faults.                                   *)
(***************************************************************************)
EXTENDS SessionProperties, FiniteSetTheorems, TLAPS

------------------------------------------------------------------------------
(* Type correctness. *)

\* Chunk c of sendFile goes to stream c % 4, which is one of the streams.
LEMMA StreamOfInStreams ==
    ASSUME NEW c \in Chunks
    PROVE  StreamOf(c) \in Streams
BY SessionAssumption DEF Chunks, Streams, StreamOf

\* Stream 0, which carries the handshake, always exists.
LEMMA ZeroInStreams == 0 \in Streams
BY SessionAssumption DEF Streams

\* Appending an element of S to a sequence over S.
LEMMA AppendInSeq ==
    ASSUME NEW S, NEW s \in Seq(S), NEW e \in S
    PROVE  Append(s, e) \in Seq(S)
OBVIOUS

\* Changing the pc of a handshake task keeps the type of the task list.
LEMMA HsTaskType ==
    ASSUME hsTasks \in Seq(HsTask), NEW i, NEW from, NEW to,
           to \in {"queued", "accepted", "manifest", "mapped", "threw", "done"},
           HsStep(i, from, to)
    PROVE  /\ hsTasks' \in Seq(HsTask)
           /\ hsTasks[i] \in HsTask
           /\ UNCHANGED <<sendVars, up, chunkTasks, rPc>>
<1>1. hsTasks[i] \in HsTask /\ i \in DOMAIN hsTasks
  BY DEF HsStep
<1>2. [hsTasks[i] EXCEPT !.pc = to] \in HsTask
  BY <1>1 DEF HsTask
<1>3. hsTasks' = [hsTasks EXCEPT ![i] = [hsTasks[i] EXCEPT !.pc = to]]
  BY <1>1 DEF HsStep
<1>4. hsTasks' \in Seq(HsTask)
  BY <1>1, <1>2, <1>3
<1> QED
  BY <1>1, <1>4 DEF HsStep

\* Changing the pc of a chunk task keeps the type of the task list.
LEMMA ChunkTaskType ==
    ASSUME chunkTasks \in Seq(ChunkTask), NEW i, NEW from, NEW to,
           to \in {"queued", "admitted", "dropped", "stored", "failed",
                   "marked", "counted", "done"},
           ChunkStep(i, from, to)
    PROVE  /\ chunkTasks' \in Seq(ChunkTask)
           /\ chunkTasks[i] \in ChunkTask
           /\ UNCHANGED <<sendVars, up, down, hsTasks, rPc>>
<1>1. chunkTasks[i] \in ChunkTask /\ i \in DOMAIN chunkTasks
  BY DEF ChunkStep
<1>2. [chunkTasks[i] EXCEPT !.pc = to] \in ChunkTask
  BY <1>1 DEF ChunkTask
<1>3. chunkTasks' = [chunkTasks EXCEPT ![i] = [chunkTasks[i] EXCEPT !.pc = to]]
  BY <1>1 DEF ChunkStep
<1>4. chunkTasks' \in Seq(ChunkTask)
  BY <1>1, <1>2, <1>3
<1> QED
  BY <1>1, <1>4 DEF ChunkStep

\* The type invariant is inductive by itself.
LEMMA TypeInit == Init => TypeOK
<1> SUFFICES ASSUME Init PROVE TypeOK
  OBVIOUS
<1> USE SessionAssumption DEF Init
<1>1. SendTypeOK
  <2>1. handshake_acked \in BOOLEAN /\ handshake_rejected \in BOOLEAN
    OBVIOUS
  <2> QED
    BY <2>1 DEF SendTypeOK
<1>2. RecvTypeOK
  <2>1. mapped \in BOOLEAN /\ trans_complete \in BOOLEAN
    OBVIOUS
  <2>2. hsTasks \in Seq(HsTask) /\ chunkTasks \in Seq(ChunkTask)
    OBVIOUS
  <2> QED
    BY <2>1, <2>2 DEF RecvTypeOK
<1>3. up \in [Streams -> Seq(UpMessage)] /\ down \in Seq(DownMessage)
  OBVIOUS
<1> QED
  BY <1>1, <1>2, <1>3 DEF TypeOK

\* No step of a transfer breaks the types.
LEMMA TypeNext == TypeOK /\ [Next]_vars => TypeOK'
<1> SUFFICES ASSUME TypeOK, [Next]_vars PROVE TypeOK'
  OBVIOUS
<1> USE SessionAssumption, StreamOfInStreams, ZeroInStreams
<1> USE DEF TypeOK, sendFileVars, sendTaskVars, sendIoVars, sendVars,
            manifestVars, fileVars, countVars, recvVars, Fault
<1>1. CASE SendHandshake
  BY <1>1 DEF SendHandshake, SendUp, Handshake, UpMessage, SendTypeOK, RecvTypeOK
<1>2. CASE SendFileThrows
  BY <1>2 DEF SendFileThrows, SendTypeOK, RecvTypeOK
<1>3. CASE HandshakeAnswered
  BY <1>3 DEF HandshakeAnswered, SendTypeOK, RecvTypeOK, LogHistory
<1>4. CASE DispatchChunk
  <2>1. next' \in 0 .. NumChunks
    BY <1>4 DEF DispatchChunk, SendTypeOK
  <2>2. sTask' \in [Chunks -> {"none", "queued", "pushed", "sent", "threw"}]
    BY <1>4 DEF DispatchChunk, SendTypeOK
  <2>3. chunks_sent' \in Nat
    BY <1>4 DEF DispatchChunk, SendTypeOK
  <2> QED
    BY <1>4, <2>1, <2>2, <2>3 DEF DispatchChunk, SendTypeOK, RecvTypeOK
<1>5. CASE AllDispatched
  BY <1>5 DEF AllDispatched, SendTypeOK, RecvTypeOK
<1>6. CASE SendFileReturns
  BY <1>6 DEF SendFileReturns, SendTypeOK, RecvTypeOK, LogHistory
<1>7. CASE SenderCloses
  <2>1. up' \in [Streams -> Seq(UpMessage)]
    BY <1>7 DEF SenderCloses, ReleaseStreams
  <2> QED
    BY <1>7, <2>1 DEF SenderCloses, SendTypeOK, RecvTypeOK, ReleaseStreams
<1>8. ASSUME NEW c \in Chunks, PushChunk(c) PROVE TypeOK'
  <2>1. ChunkData(c) \in UpMessage
    BY DEF ChunkData, UpMessage
  <2> QED
    BY <1>8, <2>1 DEF PushChunk, SendUp, SendTypeOK, RecvTypeOK
<1>9. ASSUME NEW c \in Chunks, CountSent(c) PROVE TypeOK'
  BY <1>9 DEF CountSent, SendTypeOK, RecvTypeOK
<1>10. ASSUME NEW c \in Chunks, SendTaskThrows(c) PROVE TypeOK'
  BY <1>10 DEF SendTaskThrows, SendTypeOK, RecvTypeOK
<1>11. CASE ProcessHandshakeAck
  <2>1. Head(down) \in DownMessage /\ Tail(down) \in Seq(DownMessage)
    BY <1>11 DEF ProcessHandshakeAck
  <2>2. Head(down).bits \in SUBSET Chunks
    BY <1>11, <2>1 DEF ProcessHandshakeAck, DownMessage
  <2> QED
    BY <1>11, <2>1, <2>2 DEF ProcessHandshakeAck, SendTypeOK, RecvTypeOK
<1>12. CASE ProcessReject
  BY <1>12 DEF ProcessReject, SendTypeOK, RecvTypeOK
<1>13. CASE SetAcked
  BY <1>13 DEF SetAcked, SendTypeOK, RecvTypeOK
<1>14. ASSUME NEW st \in Streams, HandleRecv(st) PROVE TypeOK'
  <2> DEFINE m == Head(up[st])
  <2>1. m \in UpMessage /\ Tail(up[st]) \in Seq(UpMessage)
    BY <1>14 DEF HandleRecv, Deliver
  <2>2. up' \in [Streams -> Seq(UpMessage)]
    BY <1>14, <2>1 DEF HandleRecv, Deliver
  <2>3. hsTasks' \in Seq(HsTask)
    <3>1. m.type = "handshake" =>
             [pc |-> "queued", pin |-> m.pin, total |-> m.total_chunks] \in HsTask
      BY <2>1 DEF UpMessage, HsTask
    <3>2. \/ UNCHANGED hsTasks
          \/ /\ m.type = "handshake"
             /\ hsTasks' = Append(hsTasks,
                   [pc |-> "queued", pin |-> m.pin, total |-> m.total_chunks])
      BY <1>14 DEF HandleRecv, Deliver
    <3>3. hsTasks \in Seq(HsTask)
      BY DEF RecvTypeOK
    <3> QED
      BY <3>1, <3>2, <3>3, AppendInSeq
  <2>4. chunkTasks' \in Seq(ChunkTask)
    <3>1. m.type = "chunkData" =>
             [pc |-> "queued", id |-> m.chunk_id, received |-> 0] \in ChunkTask
      BY <2>1 DEF UpMessage, ChunkTask
    <3>2. \/ UNCHANGED chunkTasks
          \/ /\ m.type = "chunkData"
             /\ chunkTasks' = Append(chunkTasks,
                   [pc |-> "queued", id |-> m.chunk_id, received |-> 0])
      BY <1>14 DEF HandleRecv, Deliver
    <3>3. chunkTasks \in Seq(ChunkTask)
      BY DEF RecvTypeOK
    <3> QED
      BY <3>1, <3>2, <3>3, AppendInSeq
  <2> QED
    BY <1>14, <2>2, <2>3, <2>4 DEF HandleRecv, SendTypeOK, RecvTypeOK, Deliver
<1>15. ASSUME NEW i, HsLocked(i) PROVE TypeOK'
  <2>1. /\ hsTasks' \in Seq(HsTask)
        /\ hsTasks[i] \in HsTask
        /\ UNCHANGED <<sendVars, up, chunkTasks, rPc>>
    BY <1>15, HsTaskType DEF HsLocked, RecvTypeOK
  <2>2. HandshakeAck(hsTasks[i].total) \in DownMessage
    BY <2>1 DEF HandshakeAck, DownMessage, HsTask, RecvTypeOK
  <2>3. HandshakeReject \in DownMessage
    BY DEF HandshakeReject, DownMessage
  <2>4. expectedChunks' \in {0, NumChunks}
    BY <1>15, <2>1 DEF HsLocked, RecvTypeOK, HsTask
  <2>5. \/ down' = down
        \/ down' = Append(down, HandshakeAck(hsTasks[i].total))
        \/ down' = Append(down, HandshakeReject)
    BY <1>15 DEF HsLocked, SendDown
  <2>6. down' \in Seq(DownMessage)
    BY <2>2, <2>3, <2>5, AppendInSeq
  <2> QED
    BY <1>15, <2>1, <2>4, <2>6 DEF HsLocked, SendTypeOK, RecvTypeOK
<1>16. ASSUME NEW i, HsManifest(i) PROVE TypeOK'
  <2>1. /\ hsTasks' \in Seq(HsTask)
        /\ hsTasks[i] \in HsTask
        /\ UNCHANGED <<sendVars, up, chunkTasks, rPc>>
    BY <1>16, HsTaskType DEF HsManifest, RecvTypeOK
  <2> QED
    BY <1>16, <2>1 DEF HsManifest, HsTask, SendTypeOK, RecvTypeOK
<1>17. ASSUME NEW i, HsMap(i) PROVE TypeOK'
  <2>1. /\ hsTasks' \in Seq(HsTask)
        /\ hsTasks[i] \in HsTask
        /\ UNCHANGED <<sendVars, up, chunkTasks, rPc>>
    BY <1>17, HsTaskType DEF HsMap, RecvTypeOK, MapWrite
  <2> QED
    BY <1>17, <2>1 DEF HsMap, HsTask, SendTypeOK, RecvTypeOK, MapWrite
<1>18. ASSUME NEW i, HsThrows(i) PROVE TypeOK'
  <2>1. /\ hsTasks' \in Seq(HsTask)
        /\ UNCHANGED <<sendVars, up, chunkTasks, rPc>>
    BY <1>18, HsTaskType DEF HsThrows, RecvTypeOK
  <2> QED
    BY <1>18, <2>1 DEF HsThrows, SendTypeOK, RecvTypeOK
<1>19. ASSUME NEW i, HsAck(i) PROVE TypeOK'
  <2>1. /\ hsTasks' \in Seq(HsTask)
        /\ hsTasks[i] \in HsTask
        /\ UNCHANGED <<sendVars, up, chunkTasks, rPc>>
    BY <1>19, HsTaskType DEF HsAck, RecvTypeOK
  <2>2. HandshakeAck(hsTasks[i].total) \in DownMessage
    BY <2>1 DEF HandshakeAck, DownMessage, HsTask, RecvTypeOK
  <2> QED
    BY <1>19, <2>1, <2>2 DEF HsAck, SendDown, SendTypeOK, RecvTypeOK
<1>20. ASSUME NEW i, AdmitChunk(i) PROVE TypeOK'
  <2>1. /\ chunkTasks' \in Seq(ChunkTask)
        /\ UNCHANGED <<sendVars, up, down, hsTasks, rPc>>
    BY <1>20, ChunkTaskType DEF AdmitChunk, RecvTypeOK
  <2> QED
    BY <1>20, <2>1 DEF AdmitChunk, SendTypeOK, RecvTypeOK
<1>21. ASSUME NEW i, StoreChunk(i) PROVE TypeOK'
  <2>1. /\ chunkTasks' \in Seq(ChunkTask)
        /\ UNCHANGED <<sendVars, up, down, hsTasks, rPc>>
    BY <1>21, ChunkTaskType DEF StoreChunk, RecvTypeOK
  <2>2. content' \in [Chunks -> {"absent", "hole", "data", "garbage"}]
    BY <1>21 DEF StoreChunk, RecvTypeOK
  <2> QED
    BY <1>21, <2>1, <2>2 DEF StoreChunk, SendTypeOK, RecvTypeOK
<1>22. ASSUME NEW i, ChunkFails(i) PROVE TypeOK'
  <2>1. /\ chunkTasks' \in Seq(ChunkTask)
        /\ UNCHANGED <<sendVars, up, down, hsTasks, rPc>>
    BY <1>22, ChunkTaskType DEF ChunkFails, RecvTypeOK
  <2>2. content' \in [Chunks -> {"absent", "hole", "data", "garbage"}]
    BY <1>22 DEF ChunkFails, RecvTypeOK
  <2> QED
    BY <1>22, <2>1, <2>2 DEF ChunkFails, SendTypeOK, RecvTypeOK
<1>23. ASSUME NEW i, MarkCompleted(i) PROVE TypeOK'
  <2>1. /\ chunkTasks' \in Seq(ChunkTask)
        /\ chunkTasks[i].id \in Chunks
        /\ UNCHANGED <<sendVars, up, down, hsTasks, rPc>>
    BY <1>23, ChunkTaskType DEF MarkCompleted, RecvTypeOK, ChunkTask
  <2> QED
    BY <1>23, <2>1 DEF MarkCompleted, SendTypeOK, RecvTypeOK
<1>24. ASSUME NEW i, CountReceived(i) PROVE TypeOK'
  <2>1. chunkTasks[i] \in ChunkTask
    BY <1>24 DEF CountReceived, RecvTypeOK
  <2>2. [chunkTasks[i] EXCEPT !.pc = "counted", !.received = chunks_recv + 1]
           \in ChunkTask
    <3>1. chunks_recv + 1 \in Nat
      BY DEF RecvTypeOK
    <3> HIDE DEF TypeOK
    <3> QED
      BY <2>1, <3>1 DEF ChunkTask
  <2>3. chunkTasks' \in Seq(ChunkTask)
    BY <1>24, <2>1, <2>2 DEF CountReceived, RecvTypeOK
  <2>4. /\ chunks_recv' = chunks_recv + 1
        /\ UNCHANGED <<sendVars, up, down, hsTasks, rPc, manifestVars, fileVars,
                       trans_complete, faults>>
    BY <1>24 DEF CountReceived
  <2> QED
    BY <2>3, <2>4 DEF SendTypeOK, RecvTypeOK
<1>25. ASSUME NEW i, FinishChunk(i) PROVE TypeOK'
  <2>1. /\ chunkTasks' \in Seq(ChunkTask)
        /\ UNCHANGED <<sendVars, up, down, hsTasks, rPc>>
    BY <1>25, ChunkTaskType DEF FinishChunk, RecvTypeOK
  <2> QED
    BY <1>25, <2>1 DEF FinishChunk, SendTypeOK, RecvTypeOK
<1>26. CASE RecvFileReturns
  <2>1. /\ rPc' = "returned"
        /\ UNCHANGED <<sendVars, up, down, hsTasks, chunkTasks, manifestVars, fileVars,
                       countVars, faults>>
    BY <1>26 DEF RecvFileReturns
  <2> QED
    BY <2>1 DEF SendTypeOK, RecvTypeOK
<1>27. CASE ReceiverUnmaps
  <2>1. /\ rPc' = "unmapped" /\ mapped' = FALSE
        /\ UNCHANGED <<sendVars, up, down, hsTasks, chunkTasks, manifestVars, write_view,
                       content, countVars, faults>>
    BY <1>27 DEF ReceiverUnmaps, Unmap
  <2>2. SendTypeOK'
    BY <2>1 DEF SendTypeOK
  <2>3. RecvTypeOK'
    BY <2>1 DEF RecvTypeOK
  <2>4. UNCHANGED <<up, down, faults>>
    BY <2>1
  <2> QED  BY <2>2, <2>3, <2>4
<1>28. CASE ReceiverJoins \/ ReceiverCloses
  BY <1>28 DEF ReceiverJoins, ReceiverCloses, SendTypeOK, RecvTypeOK
<1>29. CASE UNCHANGED vars
  BY <1>29 DEF vars, SendTypeOK, RecvTypeOK
<1> QED
  BY <1>1, <1>2, <1>3, <1>4, <1>5, <1>6, <1>7, <1>8, <1>9, <1>10, <1>11,
     <1>12, <1>13, <1>14, <1>15, <1>16, <1>17, <1>18, <1>19, <1>20, <1>21,
     <1>22, <1>23, <1>24, <1>25, <1>26, <1>27, <1>28, <1>29
  DEF Next, SendFile, SendTask, SenderIo, ProcessHandshake, ProcessChunk,
      RecvFile

\* Every reachable state of a transfer is well typed.
THEOREM TypeCorrect == Spec => []TypeOK
<1>1. Init => TypeOK
  BY TypeInit
<1>2. TypeOK /\ [Next]_vars => TypeOK'
  BY TypeNext
<1> QED
  BY <1>1, <1>2, PTL DEF Spec
==============================================================================
