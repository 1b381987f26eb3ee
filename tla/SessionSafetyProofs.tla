------------------------ MODULE SessionSafetyProofs ------------------------
(***************************************************************************)
(* The safety properties of Session, for every number of chunks and        *)
(* streams, every set of PINs and any number of faults.                    *)
(***************************************************************************)
EXTENDS SessionInvariant, SessionProofs

------------------------------------------------------------------------------
(* What one step of a task changes. *)

\* A step of the handshake task: there is one task, and only its pc changes.
LEMMA HsStepEffect ==
    ASSUME TypeOK, HandshakeInv, NEW i, NEW from, NEW to, HsStep(i, from, to)
    PROVE  /\ i = 1
           /\ hsTasks # <<>> /\ hsTasks' # <<>>
           /\ Len(hsTasks') = 1
           /\ hsTasks[i].pc = from /\ hsTasks'[1].pc = to
           /\ hsTasks'[1].pin = pin
           /\ hsTasks[i].pin = pin
           /\ hsTasks[i].total = NumChunks
           /\ UNCHANGED <<sendVars, up, chunkTasks, rPc>>
<1>1. hsTasks \in Seq(HsTask)
  BY DEF TypeOK, RecvTypeOK
<1>2. i \in DOMAIN hsTasks /\ hsTasks[i].pc = from
  BY DEF HsStep
<1>3. hsTasks # <<>> /\ Len(hsTasks) = 1 /\ hsTasks[1].pin = pin
  BY <1>1, <1>2 DEF HandshakeInv
<1>4. i = 1 /\ hsTasks[1] \in HsTask
  BY <1>1, <1>2, <1>3
<1>5. hsTasks' = [hsTasks EXCEPT ![1] = [hsTasks[1] EXCEPT !.pc = to]]
  BY <1>4 DEF HsStep
<1>6. hsTasks'[1] = [hsTasks[1] EXCEPT !.pc = to] /\ DOMAIN hsTasks' = DOMAIN hsTasks
  BY <1>1, <1>3, <1>5
<1>7. hsTasks'[1].pc = to /\ hsTasks'[1].pin = hsTasks[1].pin
  BY <1>4, <1>6 DEF HsTask
<1>8. hsTasks[1].total = NumChunks
  BY <1>4 DEF HsTask
<1>9. hsTasks' # <<>> /\ Len(hsTasks') = 1
  BY <1>1, <1>3, <1>5
<1> QED
  BY <1>2, <1>3, <1>4, <1>7, <1>8, <1>9 DEF HsStep

\* A step of a chunk task: only the pc of that task changes.
LEMMA ChunkStepEffect ==
    ASSUME TypeOK, NEW i, NEW from, NEW to, ChunkStep(i, from, to)
    PROVE  /\ i \in DOMAIN chunkTasks
           /\ chunkTasks[i].pc = from
           /\ DOMAIN chunkTasks' = DOMAIN chunkTasks
           /\ \A j \in DOMAIN chunkTasks :
                 /\ chunkTasks'[j].id = chunkTasks[j].id
                 /\ chunkTasks'[j].received = chunkTasks[j].received
                 /\ chunkTasks'[j].pc = IF j = i THEN to ELSE chunkTasks[j].pc
           /\ UNCHANGED <<sendVars, up, down, hsTasks, rPc>>
<1>1. chunkTasks \in Seq(ChunkTask)
  BY DEF TypeOK, RecvTypeOK
<1>2. i \in DOMAIN chunkTasks /\ chunkTasks[i].pc = from
  BY DEF ChunkStep
<1>3. chunkTasks' = [chunkTasks EXCEPT ![i] = [chunkTasks[i] EXCEPT !.pc = to]]
  BY <1>2 DEF ChunkStep
<1>4. DOMAIN chunkTasks' = DOMAIN chunkTasks
  BY <1>3
<1>5. ASSUME NEW j \in DOMAIN chunkTasks
      PROVE  /\ chunkTasks'[j].id = chunkTasks[j].id
             /\ chunkTasks'[j].received = chunkTasks[j].received
             /\ chunkTasks'[j].pc = IF j = i THEN to ELSE chunkTasks[j].pc
  <2>1. chunkTasks[j] \in ChunkTask
    BY <1>1
  <2>2. chunkTasks'[j] =
           IF j = i THEN [chunkTasks[j] EXCEPT !.pc = to] ELSE chunkTasks[j]
    BY <1>3
  <2> QED
    BY <2>1, <2>2 DEF ChunkTask
<1> QED
  BY <1>2, <1>4, <1>5 DEF ChunkStep

\* CountReceived also records the value that fetch_add returned.
LEMMA CountReceivedEffect ==
    ASSUME TypeOK, NEW i, CountReceived(i)
    PROVE  /\ i \in DOMAIN chunkTasks
           /\ chunkTasks[i].pc = "marked"
           /\ DOMAIN chunkTasks' = DOMAIN chunkTasks
           /\ \A j \in DOMAIN chunkTasks :
                 /\ chunkTasks'[j].id = chunkTasks[j].id
                 /\ chunkTasks'[j].received =
                       IF j = i THEN chunks_recv + 1 ELSE chunkTasks[j].received
                 /\ chunkTasks'[j].pc =
                       IF j = i THEN "counted" ELSE chunkTasks[j].pc
<1>1. chunkTasks \in Seq(ChunkTask)
  BY DEF TypeOK, RecvTypeOK
<1>2. i \in DOMAIN chunkTasks /\ chunkTasks[i].pc = "marked"
  BY DEF CountReceived
<1>3. chunkTasks' = [chunkTasks EXCEPT ![i] =
         [chunkTasks[i] EXCEPT !.pc = "counted", !.received = chunks_recv + 1]]
  BY <1>2 DEF CountReceived
<1>4. DOMAIN chunkTasks' = DOMAIN chunkTasks
  BY <1>3
<1>5. ASSUME NEW j \in DOMAIN chunkTasks
      PROVE  /\ chunkTasks'[j].id = chunkTasks[j].id
             /\ chunkTasks'[j].received =
                   IF j = i THEN chunks_recv + 1 ELSE chunkTasks[j].received
             /\ chunkTasks'[j].pc = IF j = i THEN "counted" ELSE chunkTasks[j].pc
  <2>1. chunkTasks[j] \in ChunkTask
    BY <1>1
  <2>2. chunkTasks'[j] =
           IF j = i THEN [chunkTasks[j] EXCEPT !.pc = "counted",
                                               !.received = chunks_recv + 1]
                    ELSE chunkTasks[j]
    BY <1>3
  <2> QED
    BY <2>1, <2>2 DEF ChunkTask
<1> QED
  BY <1>2, <1>4, <1>5

------------------------------------------------------------------------------
(* The handshake comes first. *)

\* A sender past the handshake talks to a receiver that accepted it.
LEMMA PastHandshake ==
    ASSUME TypeOK, HandshakeInv, sPc \in {"dispatch", "waitSent"}
    PROVE  /\ hsTasks # <<>> /\ hsTasks[1].pc = "done"
           /\ pin = ExpectedPin
           /\ Accepted
BY DEF HandshakeInv, BeforeHandshake, DuringHandshake, HandshakeDone, Rejected

\* A chunk in the hands of the receiver's pool was sent after an accepted
\* handshake: the file is mapped for it.
LEMMA ChunkMeansAccepted ==
    ASSUME TypeOK, HandshakeInv, chunkTasks # <<>>
    PROVE  /\ hsTasks # <<>> /\ hsTasks[1].pc = "done"
           /\ pin = ExpectedPin
           /\ Accepted
BY DEF HandshakeInv, BeforeHandshake, DuringHandshake, HandshakeDone, Rejected,
       NoChunkYet

\* So was a chunk that the sender's pool works on.
LEMMA TaskMeansAccepted ==
    ASSUME TypeOK, HandshakeInv, NEW c \in Chunks, sTask[c] # "none"
    PROVE  /\ hsTasks # <<>> /\ hsTasks[1].pc = "done"
           /\ pin = ExpectedPin
           /\ Accepted
           /\ sPc # "waitAck"
BY DEF HandshakeInv, BeforeHandshake, DuringHandshake, HandshakeDone, Rejected,
       NoChunkYet, Accepted

\* An answer under way, or taken, belongs to a handshake that is done.
LEMMA AnswerMeansDone ==
    ASSUME TypeOK, HandshakeInv,
           down # <<>> \/ sIo = "setAcked" \/ handshake_acked
    PROVE  hsTasks # <<>> /\ hsTasks[1].pc = "done" /\ HandshakeDone
BY DEF HandshakeInv, BeforeHandshake, DuringHandshake, NoAnswerYet

\* The streams carry a handshake or chunks that were pushed.
LEMMA HandshakeNext == TypeOK /\ HandshakeInv /\ UniqueInv /\ CountInv
                          /\ [Next]_vars => HandshakeInv'
<1> SUFFICES ASSUME TypeOK, HandshakeInv, UniqueInv, CountInv, [Next]_vars
             PROVE  HandshakeInv'
  OBVIOUS
<1> USE SessionAssumption, ZeroInStreams
<1> USE DEF sendFileVars, sendTaskVars, sendIoVars, sendVars,
            manifestVars, fileVars, countVars, recvVars, Fault,
            HandshakeInv, BeforeHandshake, DuringHandshake, HandshakeDone, Accepted,
            Rejected, NoAnswerYet, NoChunkYet, NothingReceived, NoFile, Ready
<1>1. CASE SendHandshake
  <2>1. hsTasks = <<>> /\ hsTasks' = <<>> /\ BeforeHandshake
    BY <1>1 DEF SendHandshake
  <2>2. \A st \in Streams : up[st] = <<>>
    BY <1>1, <2>1 DEF SendHandshake
  <2>3. up' = [up EXCEPT ![0] = <<Handshake>>] /\ Handshake' = Handshake
    <3>1. Append(<<>>, Handshake) = <<Handshake>>
      OBVIOUS
    <3>2. up' = [up EXCEPT ![0] = Append(up[0], Handshake)]
      BY <1>1 DEF SendHandshake, SendUp
    <3> QED
      BY <1>1, <2>2, <3>1, <3>2 DEF SendHandshake, Handshake
  <2>4. \A st \in Streams : up'[st] # <<>> => st = 0 /\ up'[st] = <<Handshake>>
    BY <2>2, <2>3 DEF TypeOK
  <2> QED
    BY <1>1, <2>1, <2>3, <2>4 DEF SendHandshake
<1>2. CASE SendFileThrows
  BY <1>2 DEF SendFileThrows, Handshake
<1>3. CASE HandshakeAnswered
  <2>1. hsTasks # <<>> /\ hsTasks[1].pc = "done" /\ HandshakeDone
    BY <1>3, AnswerMeansDone DEF HandshakeAnswered, LogHistory
  <2> QED
    BY <1>3, <2>1 DEF HandshakeAnswered, LogHistory
<1>4. CASE DispatchChunk
  BY <1>4, PastHandshake DEF DispatchChunk
<1>5. CASE AllDispatched
  BY <1>5, PastHandshake DEF AllDispatched
<1>6. CASE SendFileReturns
  BY <1>6, PastHandshake DEF SendFileReturns, LogHistory
<1>7. CASE SenderCloses
  <2>1. hsTasks # <<>> /\ hsTasks[1].pc = "done" /\ HandshakeDone
    BY <1>7 DEF SenderCloses, ReleaseStreams
  <2>2. \A st \in Streams : \A k \in DOMAIN up'[st] :
           up'[st][k].type = "chunkData"
    BY <1>7, <2>1 DEF SenderCloses, TypeOK, ReleaseStreams
  <2> QED
    BY <1>7, <2>1, <2>2 DEF SenderCloses, ReleaseStreams
<1>8. ASSUME NEW c \in Chunks, PushChunk(c) PROVE HandshakeInv'
  <2>1. /\ hsTasks # <<>> /\ hsTasks[1].pc = "done" /\ pin = ExpectedPin
        /\ Accepted /\ sPc # "waitAck"
    BY <1>8, TaskMeansAccepted DEF PushChunk
  <2>2. \A st \in Streams : \A k \in DOMAIN up'[st] :
           up'[st][k].type = "chunkData"
    BY <1>8, <2>1 DEF PushChunk, SendUp, ChunkData, TypeOK
  <2> QED
    BY <1>8, <2>1, <2>2 DEF PushChunk
<1>9. ASSUME NEW c \in Chunks, CountSent(c) PROVE HandshakeInv'
  <2>1. /\ hsTasks # <<>> /\ hsTasks[1].pc = "done" /\ pin = ExpectedPin
        /\ Accepted /\ sPc # "waitAck"
    BY <1>9, TaskMeansAccepted DEF CountSent
  <2> QED
    BY <1>9, <2>1 DEF CountSent
<1>10. ASSUME NEW c \in Chunks, SendTaskThrows(c) PROVE HandshakeInv'
  <2>1. /\ hsTasks # <<>> /\ hsTasks[1].pc = "done" /\ pin = ExpectedPin
        /\ Accepted /\ sPc # "waitAck"
    BY <1>10, TaskMeansAccepted DEF SendTaskThrows
  <2> QED
    BY <1>10, <2>1 DEF SendTaskThrows
<1>11. CASE ProcessHandshakeAck
  <2>1. hsTasks # <<>> /\ hsTasks[1].pc = "done" /\ HandshakeDone
    BY <1>11, AnswerMeansDone DEF ProcessHandshakeAck
  <2>2. Head(down) = down[1] /\ 1 \in DOMAIN down
    BY <1>11 DEF ProcessHandshakeAck, TypeOK
  <2>3. pin = ExpectedPin /\ Head(down).bits = {}
    BY <1>11, <2>1, <2>2 DEF ProcessHandshakeAck
  <2>4. \A k \in DOMAIN down' : k + 1 \in DOMAIN down /\ down'[k] = down[k + 1]
    BY <1>11 DEF ProcessHandshakeAck, TypeOK
  <2>5. resume_bitfield' = {}
    BY <1>11, <2>3 DEF ProcessHandshakeAck
  <2> QED
    BY <1>11, <2>1, <2>3, <2>4, <2>5 DEF ProcessHandshakeAck
<1>12. CASE ProcessReject
  <2>1. hsTasks # <<>> /\ hsTasks[1].pc = "done" /\ HandshakeDone
    BY <1>12, AnswerMeansDone DEF ProcessReject
  <2>2. Head(down) = down[1] /\ 1 \in DOMAIN down
    BY <1>12 DEF ProcessReject, TypeOK
  <2>3. pin # ExpectedPin
    BY <1>12, <2>1, <2>2 DEF ProcessReject
  <2>4. \A k \in DOMAIN down' : k + 1 \in DOMAIN down /\ down'[k] = down[k + 1]
    BY <1>12 DEF ProcessReject, TypeOK
  <2> QED
    BY <1>12, <2>1, <2>3, <2>4 DEF ProcessReject
<1>13. CASE SetAcked
  <2>1. hsTasks # <<>> /\ hsTasks[1].pc = "done" /\ HandshakeDone
    BY <1>13, AnswerMeansDone DEF SetAcked
  <2> QED
    BY <1>13, <2>1 DEF SetAcked
<1>14. ASSUME NEW st \in Streams, HandleRecv(st) PROVE HandshakeInv'
  <2> DEFINE m == Head(up[st])
  <2>1. /\ up[st] \in Seq(UpMessage) /\ up[st] # <<>>
        /\ m = up[st][1] /\ 1 \in DOMAIN up[st] /\ m \in UpMessage
    BY <1>14 DEF HandleRecv, TypeOK, Deliver
  <2>2. up' = [up EXCEPT ![st] = Tail(up[st])]
    BY <1>14 DEF HandleRecv, Deliver
  <2>3. CASE m.type = "handshake"
    <3>1. hsTasks = <<>> /\ BeforeHandshake
      BY <2>1, <2>3
    <3>2. st = 0 /\ sPc = "waitAck" /\ up[st] = <<Handshake>> /\ m = Handshake
      BY <2>1, <3>1
    <3>3. hsTasks' = Append(<<>>,
             [pc |-> "queued", pin |-> pin, total |-> NumChunks])
      BY <1>14, <2>3, <3>1, <3>2 DEF HandleRecv, Handshake, Deliver
    <3>4. /\ hsTasks' # <<>> /\ Len(hsTasks') = 1
          /\ hsTasks'[1].pc = "queued" /\ hsTasks'[1].pin = pin
      BY <3>3
    <3>5. \A t \in Streams : up'[t] = <<>>
      BY <2>1, <2>2, <3>1, <3>2 DEF TypeOK
    <3> QED
      BY <1>14, <2>3, <3>1, <3>2, <3>4, <3>5 DEF HandleRecv, Deliver
  <2>4. CASE m.type = "chunkData"
    <3>1. m.chunk_id \in Chunks /\ sTask[m.chunk_id] \in Travelled
      BY <2>1, <2>4 DEF UniqueInv, UpSound, UpMessage
    <3>2. /\ hsTasks # <<>> /\ hsTasks[1].pc = "done" /\ pin = ExpectedPin
          /\ Accepted /\ sPc # "waitAck"
      BY <3>1, TaskMeansAccepted DEF Travelled
    <3>3. \A t \in Streams : \A k \in DOMAIN up'[t] :
             up'[t][k].type = "chunkData"
      BY <2>1, <2>2, <3>2 DEF TypeOK
    <3> QED
      BY <1>14, <2>4, <3>2, <3>3 DEF HandleRecv, Deliver
  <2> QED
    BY <2>1, <2>3, <2>4 DEF UpMessage
<1>15. ASSUME NEW i, HsLocked(i) PROVE HandshakeInv'
  <2>1. /\ hsTasks # <<>> /\ hsTasks[1].pc = "queued" /\ i = 1
        /\ expectedChunks = 0 /\ hsTasks[i].pin = pin
        /\ hsTasks[i].total = NumChunks
    BY <1>15, HsStepEffect DEF HsLocked
  <2>2. CASE pin # ExpectedPin
    <3>1. HsStep(i, "queued", "done") /\ down' = Append(down, HandshakeReject)
             /\ UNCHANGED expectedChunks
      BY <1>15, <2>1, <2>2 DEF HsLocked, SendDown
    <3>2. \A k \in DOMAIN down' : down'[k].type = "handshakeReject"
      BY <2>1, <3>1 DEF HandshakeReject
    <3> QED
      BY <1>15, <2>1, <2>2, <3>1, <3>2, HsStepEffect DEF HsLocked
  <2>3. CASE pin = ExpectedPin
    <3>1. HsStep(i, "queued", "accepted") /\ UNCHANGED down
             /\ expectedChunks' = NumChunks
      BY <1>15, <2>1, <2>3 DEF HsLocked
    <3> QED
      BY <1>15, <2>1, <2>3, <3>1, HsStepEffect DEF HsLocked
  <2> QED
    BY <2>2, <2>3
<1>16. ASSUME NEW i, HsManifest(i) PROVE HandshakeInv'
  BY <1>16, HsStepEffect DEF HsManifest
<1>17. ASSUME NEW i, HsMap(i) PROVE HandshakeInv'
  BY <1>17, HsStepEffect DEF HsMap, MapWrite
<1>18. ASSUME NEW i, HsThrows(i) PROVE HandshakeInv'
  BY <1>18, HsStepEffect DEF HsThrows
<1>19. ASSUME NEW i, HsAck(i) PROVE HandshakeInv'
  <2>1. HsStep(i, "mapped", "done") /\ hsTasks[i].total = NumChunks
    BY <1>19, HsStepEffect DEF HsAck
  <2>2. down' = Append(<<>>, HandshakeAck(NumChunks))
    <3>1. down = <<>>
      BY <1>19, <2>1, HsStepEffect
    <3>2. down' = Append(down, HandshakeAck(hsTasks[i].total))
      BY <1>19 DEF HsAck, SendDown
    <3> QED
      BY <2>1, <3>1, <3>2
  <2>3. \A k \in DOMAIN down' : /\ down'[k].type = "handshakeAck"
                                /\ down'[k].packed = NumChunks
                                /\ down'[k].bits = {}
    BY <2>1, <2>2, HsStepEffect DEF HandshakeAck
  <2> QED
    BY <1>19, <2>1, <2>3, HsStepEffect DEF HsAck
<1>20. ASSUME NEW i \in DOMAIN chunkTasks, ProcessChunk(i) PROVE HandshakeInv'
  <2>1. chunkTasks # <<>>
    OBVIOUS
  <2>2. /\ hsTasks # <<>> /\ hsTasks[1].pc = "done" /\ pin = ExpectedPin
        /\ Accepted /\ sPc # "waitAck"
    BY <2>1, ChunkMeansAccepted
  <2>3. UNCHANGED <<sendVars, up, down, hsTasks, rPc, expectedChunks,
                    total_chunks, write_view, mapped>>
    BY <1>20 DEF ProcessChunk, ChunkStep, AdmitChunk, StoreChunk, ChunkFails,
                 MarkCompleted, CountReceived, FinishChunk
  <2> QED
    BY <2>2, <2>3
<1>26. CASE RecvFileReturns
  BY <1>26 DEF RecvFileReturns, Handshake
<1>27. CASE ReceiverUnmaps
  BY <1>27 DEF ReceiverUnmaps, Handshake, Unmap
<1>28. CASE ReceiverJoins \/ ReceiverCloses
  BY <1>28 DEF ReceiverJoins, ReceiverCloses, Handshake
<1>29. CASE UNCHANGED vars
  BY <1>29 DEF vars, Handshake
<1> QED
  BY <1>1, <1>2, <1>3, <1>4, <1>5, <1>6, <1>7, <1>8, <1>9, <1>10, <1>11,
     <1>12, <1>13, <1>14, <1>15, <1>16, <1>17, <1>18, <1>19, <1>20,
     <1>26, <1>27, <1>28, <1>29
  DEF Next, SendFile, SendTask, SenderIo, ProcessHandshake, RecvFile

------------------------------------------------------------------------------
(* Every chunk travels once. *)

\* Removing messages from the streams, and tasks advancing, keep it so.
LEMMA UniqueShrinks ==
    ASSUME TypeOK, UniqueInv, UNCHANGED chunkTasks,
           \A c \in Chunks : sTask[c] \in Travelled => sTask'[c] \in Travelled,
           \A st \in Streams : \A k \in DOMAIN up'[st] :
              up'[st][k].type = "chunkData" =>
                 k \in DOMAIN up[st] /\ up'[st][k] = up[st][k]
    PROVE  UniqueInv'
<1>1. /\ up \in [Streams -> Seq(UpMessage)]
      /\ chunkTasks \in Seq(ChunkTask)
  BY DEF TypeOK, RecvTypeOK
<1>2. \A st \in Streams : \A k \in DOMAIN up[st] :
         up[st][k].type = "chunkData" => up[st][k].chunk_id \in Chunks
  BY <1>1 DEF UpMessage
<1>3. UpSound'
  BY <1>2 DEF UniqueInv, UpSound
<1>4. UpDistinct'
  BY DEF UniqueInv, UpDistinct
<1>5. TasksTravelled'
  <2>1. \A i \in DOMAIN chunkTasks : chunkTasks[i] \in ChunkTask
    BY <1>1
  <2>2. \A i \in DOMAIN chunkTasks : chunkTasks[i].id \in Chunks
    BY <2>1 DEF ChunkTask
  <2> QED
    BY <2>2 DEF UniqueInv, TasksTravelled
<1>6. TasksDistinct'
  BY DEF UniqueInv, TasksDistinct
<1> QED
  BY <1>3, <1>4, <1>5, <1>6 DEF UniqueInv

\* No chunk is pushed, delivered or handed to the pool twice.
LEMMA UniqueNext == TypeOK /\ UniqueInv /\ SentInv /\ [Next]_vars => UniqueInv'
<1> SUFFICES ASSUME TypeOK, UniqueInv, SentInv, [Next]_vars PROVE UniqueInv'
  OBVIOUS
<1> USE SessionAssumption, StreamOfInStreams
<1> USE DEF sendFileVars, sendTaskVars, sendIoVars, sendVars,
            manifestVars, fileVars, countVars, recvVars, Fault
<1>0. /\ up \in [Streams -> Seq(UpMessage)]
      /\ chunkTasks \in Seq(ChunkTask)
      /\ sTask \in [Chunks -> {"none", "queued", "pushed", "sent", "threw"}]
  BY DEF TypeOK, SendTypeOK, RecvTypeOK
<1>1. CASE SendHandshake
  <2>1. up' = [up EXCEPT ![0] = Append(up[0], Handshake)]
    BY <1>1 DEF SendHandshake, SendUp
  <2>2. ASSUME NEW st \in Streams, NEW k \in DOMAIN up'[st],
               up'[st][k].type = "chunkData"
        PROVE  k \in DOMAIN up[st] /\ up'[st][k] = up[st][k]
    <3>1. CASE st # 0
      BY <1>0, <2>1, <3>1
    <3>2. CASE st = 0
      <4>1. up'[0] = Append(up[0], Handshake) /\ up[0] \in Seq(UpMessage)
        BY <1>0, <2>1, ZeroInStreams
      <4>2. k = Len(up[0]) + 1 => up'[0][k] = Handshake
        BY <4>1
      <4>3. k # Len(up[0]) + 1
        BY <2>2, <3>2, <4>2 DEF Handshake
      <4> QED
        BY <2>2, <3>2, <4>1, <4>3
    <3> QED
      BY <3>1, <3>2
  <2> QED
    BY <1>1, <2>2, UniqueShrinks DEF SendHandshake
<1>2. CASE DispatchChunk
  <2>1. \A c \in Chunks : sTask[c] \in Travelled => sTask'[c] \in Travelled
    <3>1. next \in Chunks => sTask[next] = "none"
      BY DEF SentInv, TypeOK, SendTypeOK
    <3>2. sTask' = sTask \/ sTask' = [sTask EXCEPT ![next] = "queued"]
      BY <1>2 DEF DispatchChunk
    <3> QED
      BY <1>0, <3>1, <3>2 DEF Travelled
  <2> QED
    BY <1>2, <2>1, UniqueShrinks DEF DispatchChunk
<1>3. CASE SenderCloses
  <2>1. ASSUME NEW st \in Streams, NEW k \in DOMAIN up'[st]
        PROVE  k \in DOMAIN up[st] /\ up'[st][k] = up[st][k]
    BY <1>0, <1>3, <2>1 DEF SenderCloses, ReleaseStreams
  <2> QED
    BY <1>3, <2>1, UniqueShrinks DEF SenderCloses, ReleaseStreams
<1>4. ASSUME NEW c \in Chunks, PushChunk(c) PROVE UniqueInv'
  <2>1. up' = [up EXCEPT ![StreamOf(c)] = Append(up[StreamOf(c)], ChunkData(c))]
    BY <1>4 DEF PushChunk, SendUp
  <2>2. ASSUME NEW st \in Streams, NEW k \in DOMAIN up'[st]
        PROVE  \/ k \in DOMAIN up[st] /\ up'[st][k] = up[st][k]
               \/ /\ st = StreamOf(c) /\ k = Len(up[st]) + 1
                  /\ k \notin DOMAIN up[st]
                  /\ up'[st][k].type = "chunkData" /\ up'[st][k].chunk_id = c
    <3>1. CASE st # StreamOf(c)
      BY <1>0, <2>1, <3>1
    <3>2. CASE st = StreamOf(c)
      <4>1. up'[st] = Append(up[st], ChunkData(c)) /\ up[st] \in Seq(UpMessage)
        BY <1>0, <2>1, <3>2
      <4>2. \/ k \in DOMAIN up[st] /\ up'[st][k] = up[st][k]
            \/ k = Len(up[st]) + 1 /\ k \notin DOMAIN up[st]
                  /\ up'[st][k] = ChunkData(c)
        BY <2>2, <4>1
      <4> QED
        BY <3>2, <4>2 DEF ChunkData
    <3> QED
      BY <3>1, <3>2
  <2>3. /\ sTask[c] = "queued" /\ sTask'[c] = "pushed"
        /\ \A d \in Chunks : d # c => sTask'[d] = sTask[d]
        /\ UNCHANGED chunkTasks
    BY <1>0, <1>4 DEF PushChunk
  <2>4. \A st \in Streams : \A k \in DOMAIN up[st] :
           up[st][k].type = "chunkData" =>
              up[st][k].chunk_id # c /\ up[st][k].chunk_id \in Chunks
    <3> SUFFICES ASSUME NEW st \in Streams, NEW k \in DOMAIN up[st],
                        up[st][k].type = "chunkData"
                 PROVE  /\ up[st][k].chunk_id # c
                        /\ up[st][k].chunk_id \in Chunks
      OBVIOUS
    <3>1. up[st] \in Seq(UpMessage)
      BY <1>0
    <3>2. up[st][k] \in UpMessage
      BY <3>1
    <3>3. up[st][k].chunk_id \in Chunks
      BY <3>2 DEF UpMessage
    <3> QED
      BY <2>3, <3>3 DEF Travelled, UniqueInv, UpSound
  <2>5. ASSUME NEW i \in DOMAIN chunkTasks
        PROVE  chunkTasks[i].id # c /\ chunkTasks[i].id \in Chunks
    <3>1. chunkTasks[i] \in ChunkTask
      BY <1>0
    <3> QED
      BY <2>3, <3>1 DEF Travelled, ChunkTask, UniqueInv, TasksTravelled
  <2>6. UpSound'
    BY <2>2, <2>3, <2>4, <2>5 DEF UniqueInv, UpSound, Travelled
  <2>7. UpDistinct'
    BY <2>2, <2>4 DEF UniqueInv, UpDistinct
  <2>8. TasksTravelled' /\ TasksDistinct'
    BY <2>3, <2>5 DEF UniqueInv, TasksTravelled, TasksDistinct
  <2> QED
    BY <2>6, <2>7, <2>8 DEF UniqueInv
<1>5. ASSUME NEW c \in Chunks, CountSent(c) \/ SendTaskThrows(c) PROVE UniqueInv'
  <2>1. \A d \in Chunks : sTask[d] \in Travelled => sTask'[d] \in Travelled
    BY <1>0, <1>5 DEF CountSent, SendTaskThrows, Travelled
  <2>2. UNCHANGED <<up, chunkTasks>>
    BY <1>5 DEF CountSent, SendTaskThrows
  <2> QED
    BY <2>1, <2>2, UniqueShrinks
<1>6. ASSUME NEW st \in Streams, HandleRecv(st) PROVE UniqueInv'
  <2> DEFINE m == Head(up[st])
  <2>1. /\ up[st] # <<>> /\ m = up[st][1] /\ 1 \in DOMAIN up[st]
        /\ m \in UpMessage
    BY <1>0, <1>6 DEF HandleRecv, Deliver
  <2>2. /\ \A t \in Streams : t # st => up'[t] = up[t]
        /\ \A k \in DOMAIN up'[st] : /\ k + 1 \in DOMAIN up[st] /\ k + 1 # 1
                                     /\ up'[st][k] = up[st][k + 1]
        /\ DOMAIN up'[st] \subseteq Nat
    BY <1>0, <1>6 DEF HandleRecv, Deliver
  <2>3. UNCHANGED sTask
    BY <1>6 DEF HandleRecv, Deliver
  <2>4. CASE m.type = "handshake"
    <3>1. UNCHANGED chunkTasks
      BY <1>6, <2>4 DEF HandleRecv, Deliver
    <3> QED
      BY <2>2, <2>3, <3>1
      DEF UniqueInv, UpSound, UpDistinct, TasksTravelled, TasksDistinct
  <2>5. CASE m.type = "chunkData"
    <3>1. chunkTasks' = Append(chunkTasks,
             [pc |-> "queued", id |-> m.chunk_id, received |-> 0])
      BY <1>6, <2>5 DEF HandleRecv, Deliver
    <3>2. \A i \in DOMAIN chunkTasks' :
             \/ i \in DOMAIN chunkTasks /\ chunkTasks'[i] = chunkTasks[i]
             \/ i = Len(chunkTasks) + 1 /\ chunkTasks'[i].id = m.chunk_id
      BY <1>0, <3>1
    <3>3. /\ sTask[m.chunk_id] \in Travelled
          /\ \A i \in DOMAIN chunkTasks : chunkTasks[i].id # m.chunk_id
          /\ \A t \in Streams : \A k \in DOMAIN up'[t] :
                up'[t][k].type = "chunkData" => up'[t][k].chunk_id # m.chunk_id
      BY <2>1, <2>2, <2>5 DEF UniqueInv, UpSound, UpDistinct
    <3> QED
      BY <2>2, <2>3, <3>2, <3>3
      DEF UniqueInv, UpSound, UpDistinct, TasksTravelled, TasksDistinct
  <2> QED
    BY <2>1, <2>4, <2>5 DEF UpMessage
<1>7. ASSUME NEW i, ProcessChunk(i) PROVE UniqueInv'
  <2>1. /\ DOMAIN chunkTasks' = DOMAIN chunkTasks
        /\ \A j \in DOMAIN chunkTasks : chunkTasks'[j].id = chunkTasks[j].id
    BY <1>7, ChunkStepEffect, CountReceivedEffect
    DEF ProcessChunk, AdmitChunk, StoreChunk, ChunkFails, MarkCompleted,
        FinishChunk
  <2>2. UNCHANGED <<up, sTask>>
    BY <1>7 DEF ProcessChunk, ChunkStep, AdmitChunk, StoreChunk, ChunkFails,
                MarkCompleted, CountReceived, FinishChunk
  <2> QED
    BY <2>1, <2>2
    DEF UniqueInv, UpSound, UpDistinct, TasksTravelled, TasksDistinct
<1>8. CASE UNCHANGED <<up, chunkTasks, sTask>>
  BY <1>8 DEF UniqueInv, UpSound, UpDistinct, TasksTravelled, TasksDistinct
<1>9. ASSUME NEW i, ProcessHandshake(i) PROVE UNCHANGED <<up, chunkTasks, sTask>>
  BY <1>9 DEF ProcessHandshake, HsStep, HsLocked, HsManifest, HsMap, HsThrows,
              HsAck, MapWrite
<1>10. CASE \/ SendFileThrows \/ HandshakeAnswered \/ AllDispatched
            \/ SendFileReturns \/ SenderIo \/ RecvFile \/ UNCHANGED vars
  BY <1>8, <1>10 DEF SendFileThrows, HandshakeAnswered, AllDispatched,
        SendFileReturns, SenderIo, ProcessHandshakeAck, ProcessReject, SetAcked,
        RecvFile, RecvFileReturns, ReceiverUnmaps, ReceiverJoins,
        ReceiverCloses, vars, LogHistory, Unmap
<1> QED
  BY <1>1, <1>2, <1>3, <1>4, <1>5, <1>6, <1>7, <1>8, <1>9, <1>10
  DEF Next, SendFile, SendTask

------------------------------------------------------------------------------
(* The sender's counter. *)

\* The chunks of a file are finitely many, NumChunks of them.
LEMMA ChunksFinite == IsFiniteSet(Chunks) /\ Cardinality(Chunks) = NumChunks
<1>1. 0 \in Int /\ NumChunks - 1 \in Int /\ ~(0 > NumChunks - 1)
  BY SessionAssumption
<1>2. IsFiniteSet(0 .. NumChunks - 1)
        /\ Cardinality(0 .. NumChunks - 1) = NumChunks - 1 - 0 + 1
  BY <1>1, FS_Interval
<1> QED
  BY <1>2, SessionAssumption DEF Chunks

\* A set of chunks as large as the file is the file.
LEMMA AllChunks ==
    ASSUME NEW S \in SUBSET Chunks
    PROVE  /\ IsFiniteSet(S) /\ Cardinality(S) \in Nat
           /\ Cardinality(S) >= NumChunks => S = Chunks
<1>1. IsFiniteSet(S) /\ Cardinality(S) <= Cardinality(Chunks)
         /\ (Cardinality(Chunks) = Cardinality(S) => Chunks = S)
  BY ChunksFinite, FS_Subset
<1>2. Cardinality(S) \in Nat
  BY <1>1, FS_CardinalityType
<1> QED
  BY <1>1, <1>2, ChunksFinite, SessionAssumption

\* chunks_sent_ counts the chunks handed to the transport, no more, no less.
LEMMA SentNext == TypeOK /\ HandshakeInv /\ SentInv /\ [Next]_vars => SentInv'
<1> SUFFICES ASSUME TypeOK, HandshakeInv, SentInv, [Next]_vars PROVE SentInv'
  OBVIOUS
<1> USE SessionAssumption
<1> USE DEF sendFileVars, sendTaskVars, sendIoVars, sendVars,
            manifestVars, fileVars, countVars, recvVars, Fault
<1>0. /\ sTask \in [Chunks -> {"none", "queued", "pushed", "sent", "threw"}]
      /\ next \in Nat /\ Chunks \subseteq Nat
      /\ resume_bitfield = {}
  BY DEF TypeOK, SendTypeOK, HandshakeInv, Chunks
<1>1. CASE DispatchChunk
  <2>1. /\ next \in Chunks /\ sTask[next] = "none" /\ sPc' = "dispatch"
        /\ sTask' = [sTask EXCEPT ![next] = "queued"]
        /\ next' = next + 1 /\ UNCHANGED chunks_sent
    BY <1>0, <1>1 DEF DispatchChunk, SentInv, Chunks
  <2>2. SentChunks' = SentChunks
    BY <1>0, <2>1 DEF SentChunks
  <2>3. \A c \in Chunks : next' <= c => sTask'[c] = "none"
    BY <1>0, <2>1 DEF SentInv
  <2> QED
    BY <2>1, <2>2, <2>3 DEF SentInv, SentMeansSent
<1>2. CASE SendFileReturns
  <2>1. SentChunks = Chunks
    BY <1>2, AllChunks DEF SendFileReturns, SentInv, SentChunks, LogHistory
  <2>2. UNCHANGED <<next, sTask, chunks_sent>>
    BY <1>2 DEF SendFileReturns, LogHistory
  <2> QED
    BY <2>1, <2>2 DEF SentInv, SentMeansSent, SentChunks
<1>3. ASSUME NEW c \in Chunks, PushChunk(c) \/ SendTaskThrows(c) PROVE SentInv'
  <2>1. /\ sTask[c] = "queued"
        /\ \E v \in {"pushed", "threw"} : sTask' = [sTask EXCEPT ![c] = v]
        /\ UNCHANGED <<next, chunks_sent, sPc, handshake_rejected,
                       resume_bitfield>>
    BY <1>3 DEF PushChunk, SendTaskThrows
  <2>2. SentChunks' = SentChunks
    BY <1>0, <2>1 DEF SentChunks
  <2> QED
    BY <1>0, <2>1, <2>2 DEF SentInv, SentMeansSent
<1>4. ASSUME NEW c \in Chunks, CountSent(c) PROVE SentInv'
  <2>1. /\ sTask[c] = "pushed" /\ sTask' = [sTask EXCEPT ![c] = "sent"]
        /\ chunks_sent' = chunks_sent + 1
        /\ UNCHANGED <<next, sPc, handshake_rejected, resume_bitfield>>
    BY <1>4 DEF CountSent
  <2>2. SentChunks' = SentChunks \cup {c} /\ c \notin SentChunks
    BY <1>0, <2>1 DEF SentChunks
  <2>3. Cardinality(SentChunks') = Cardinality(SentChunks) + 1
    BY <2>2, AllChunks, FS_AddElement DEF SentChunks
  <2> QED
    BY <1>0, <2>1, <2>3 DEF SentInv, SentMeansSent
<1>5. CASE /\ UNCHANGED <<next, sTask, chunks_sent, resume_bitfield>>
           /\ sPc' \in {"returned", "closed"} /\ ~handshake_rejected' =>
                 sPc \in {"returned", "closed"} /\ ~handshake_rejected
  BY <1>5 DEF SentInv, SentMeansSent, SentChunks
<1>6. CASE ProcessHandshakeAck
  <2>1. hsTasks # <<>> /\ hsTasks[1].pc = "done" /\ HandshakeDone
    BY <1>6, AnswerMeansDone DEF ProcessHandshakeAck
  <2>2. down[1].bits = {} /\ Head(down) = down[1]
    BY <1>6, <2>1 DEF ProcessHandshakeAck, TypeOK, HandshakeDone, Accepted,
                      Rejected
  <2>3. resume_bitfield' = {}
    BY <1>0, <1>6, <2>2 DEF ProcessHandshakeAck
  <2> QED
    BY <1>0, <1>6, <2>3, <1>5 DEF ProcessHandshakeAck
<1>7. CASE SendFile
  BY <1>1, <1>2, <1>5, <1>7
  DEF SendFile, SendHandshake, SendFileThrows, HandshakeAnswered, AllDispatched,
      SenderCloses, ReleaseStreams, LogHistory
<1>8. CASE ProcessReject \/ SetAcked
  BY <1>5, <1>8 DEF ProcessReject, SetAcked
<1>9. CASE UNCHANGED sendVars
  BY <1>5, <1>9
<1>10. ASSUME NEW st \in Streams, HandleRecv(st) PROVE UNCHANGED sendVars
  BY <1>10 DEF HandleRecv, Deliver
<1>11. ASSUME NEW i, ProcessHandshake(i) PROVE UNCHANGED sendVars
  BY <1>11 DEF ProcessHandshake, HsStep, HsLocked, HsManifest, HsMap, HsThrows,
               HsAck, MapWrite
<1>12. ASSUME NEW i, ProcessChunk(i) PROVE UNCHANGED sendVars
  BY <1>12 DEF ProcessChunk, ChunkStep, AdmitChunk, StoreChunk, ChunkFails,
               MarkCompleted, CountReceived, FinishChunk
<1>13. CASE RecvFile \/ UNCHANGED vars
  BY <1>9, <1>13 DEF RecvFile, RecvFileReturns, ReceiverUnmaps, ReceiverJoins,
                     ReceiverCloses, vars, Unmap
<1> QED
  BY <1>3, <1>4, <1>6, <1>7, <1>8, <1>9, <1>10, <1>11, <1>12, <1>13
  DEF Next, SendTask, SenderIo

------------------------------------------------------------------------------
(* The receiver's file and its counter. *)

\* Once the transfer is complete, every chunk is counted and no task is left
\* that could still write.
LEMMA CompleteMeansCounted ==
    ASSUME TypeOK, UniqueInv, CountInv, trans_complete
    PROVE  /\ CountedChunks = Chunks
           /\ \A i \in DOMAIN chunkTasks : chunkTasks[i].pc \in CountedPcs
<1>1. CountedChunks = Chunks
  BY AllChunks DEF CountInv, CountedChunks
<1>2. ASSUME NEW i \in DOMAIN chunkTasks PROVE chunkTasks[i].pc \in CountedPcs
  <2>1. chunkTasks[i] \in ChunkTask
    BY DEF TypeOK, RecvTypeOK
  <2>2. chunkTasks[i].id \in CountedChunks
    BY <1>1, <2>1 DEF ChunkTask
  <2> QED
    BY <2>2 DEF CountedChunks, UniqueInv, TasksDistinct
<1> QED
  BY <1>1, <1>2

\* The steps that are not the receiver's pool, io thread or destructor.
LEMMA ReceiverFrame ==
    ASSUME SendFile \/ (\E c \in Chunks : SendTask(c)) \/ SenderIo
    PROVE  UNCHANGED recvVars
<1>1. CASE SendFile
  BY <1>1 DEF SendFile, SendHandshake, SendFileThrows, HandshakeAnswered,
      DispatchChunk, AllDispatched, SendFileReturns, SenderCloses, ReleaseStreams,
      LogHistory
<1>2. CASE \E c \in Chunks : SendTask(c)
  BY <1>2 DEF SendTask, PushChunk, CountSent, SendTaskThrows
<1>3. CASE SenderIo
  BY <1>3 DEF SenderIo, ProcessHandshakeAck, ProcessReject, SetAcked
<1> QED
  BY <1>1, <1>2, <1>3

\* A new task starts with nothing done.
LEMMA HandleRecvEffect ==
    ASSUME TypeOK, NEW st \in Streams, HandleRecv(st)
    PROVE  /\ \A i \in DOMAIN chunkTasks :
                 i \in DOMAIN chunkTasks' /\ chunkTasks'[i] = chunkTasks[i]
           /\ \A i \in DOMAIN chunkTasks' :
                 \/ i \in DOMAIN chunkTasks
                 \/ chunkTasks'[i].pc = "queued"
           /\ UNCHANGED <<manifestVars, fileVars, countVars, rPc>>
<1>1. chunkTasks \in Seq(ChunkTask)
  BY DEF TypeOK, RecvTypeOK
<1>2. \/ UNCHANGED chunkTasks
      \/ \E t : t.pc = "queued" /\ chunkTasks' = Append(chunkTasks, t)
  BY DEF HandleRecv, Deliver
<1>3. UNCHANGED <<manifestVars, fileVars, countVars, rPc>>
  BY DEF HandleRecv, Deliver
<1>4. CASE UNCHANGED chunkTasks
  BY <1>3, <1>4
<1>5. ASSUME NEW t, t.pc = "queued", chunkTasks' = Append(chunkTasks, t)
      PROVE  /\ \A i \in DOMAIN chunkTasks :
                   i \in DOMAIN chunkTasks' /\ chunkTasks'[i] = chunkTasks[i]
             /\ \A i \in DOMAIN chunkTasks' :
                   i \in DOMAIN chunkTasks \/ chunkTasks'[i].pc = "queued"
  BY <1>1, <1>5
<1> QED
  BY <1>2, <1>3, <1>4, <1>5

\* The bytes, the bits and the tasks agree.
LEMMA DataNext ==
    TypeOK /\ HandshakeInv /\ UniqueInv /\ DataInv /\ [Next]_vars => DataInv'
<1> SUFFICES ASSUME TypeOK, HandshakeInv, UniqueInv, DataInv, [Next]_vars
             PROVE  DataInv'
  OBVIOUS
<1> USE DEF manifestVars, fileVars, countVars, DataInv, BitfieldSound
<1>0. /\ content \in [Chunks -> {"absent", "hole", "data", "garbage"}]
      /\ completedChunks \in SUBSET Chunks
      /\ \A i \in DOMAIN chunkTasks : chunkTasks[i].id \in Chunks
  <2>1. \A i \in DOMAIN chunkTasks : chunkTasks[i] \in ChunkTask
    BY DEF TypeOK, RecvTypeOK
  <2> QED
    BY <2>1 DEF TypeOK, RecvTypeOK, ChunkTask
<1>1. CASE UNCHANGED <<chunkTasks, content, completedChunks>>
  BY <1>1
<1>2. CASE SendFile \/ (\E c \in Chunks : SendTask(c)) \/ SenderIo
  BY <1>1, <1>2, ReceiverFrame DEF recvVars
<1>3. ASSUME NEW st \in Streams, HandleRecv(st) PROVE DataInv'
  BY <1>3, HandleRecvEffect DEF StoredPcs, MarkedPcs
<1>4. ASSUME NEW i, HsLocked(i) \/ HsThrows(i) \/ HsAck(i) PROVE DataInv'
  BY <1>1, <1>4 DEF HsLocked, HsThrows, HsAck, HsStep
<1>5. ASSUME NEW i, HsManifest(i) \/ HsMap(i) PROVE DataInv'
  <2>1. NothingReceived /\ chunkTasks = <<>> /\ UNCHANGED chunkTasks
    BY <1>5, HsStepEffect DEF HsManifest, HsMap, HsStep, HandshakeInv,
       DuringHandshake, NoChunkYet, MapWrite
  <2>2. completedChunks' = {} /\ \A c \in Chunks : content'[c] # "data"
    BY <1>5, <2>1 DEF HsManifest, HsMap, NothingReceived, MapWrite
  <2> QED
    BY <2>1, <2>2
<1>6. ASSUME NEW i, AdmitChunk(i) PROVE DataInv'
  <2>1. UNCHANGED <<content, completedChunks>>
    BY <1>6 DEF AdmitChunk
  <2> QED
    BY <1>6, <2>1, ChunkStepEffect DEF AdmitChunk, StoredPcs, MarkedPcs
<1>7. ASSUME NEW i, StoreChunk(i) PROVE DataInv'
  <2>1. /\ ChunkStep(i, "admitted", "stored") /\ UNCHANGED completedChunks
        /\ content' = [content EXCEPT ![chunkTasks[i].id] = "data"]
    BY <1>7 DEF StoreChunk
  <2> QED
    BY <1>0, <2>1, ChunkStepEffect DEF StoredPcs, MarkedPcs
<1>8. ASSUME NEW i, ChunkFails(i) PROVE DataInv'
  <2>1. /\ ChunkStep(i, "admitted", "failed") /\ UNCHANGED completedChunks
        /\ \/ UNCHANGED content
           \/ content' = [content EXCEPT ![chunkTasks[i].id] = "garbage"]
    BY <1>8 DEF ChunkFails
  <2>2. i \in DOMAIN chunkTasks /\ content[chunkTasks[i].id] # "data"
    BY <1>0, <2>1, ChunkStepEffect DEF StoredPcs, UniqueInv, TasksDistinct
  <2> QED
    BY <1>0, <2>1, <2>2, ChunkStepEffect DEF StoredPcs, MarkedPcs
<1>9. ASSUME NEW i, MarkCompleted(i) PROVE DataInv'
  <2>1. /\ ChunkStep(i, "stored", "marked") /\ UNCHANGED content
        /\ completedChunks' = completedChunks \cup {chunkTasks[i].id}
    BY <1>9 DEF MarkCompleted
  <2> QED
    BY <2>1, ChunkStepEffect DEF StoredPcs, MarkedPcs
<1>10. ASSUME NEW i, CountReceived(i) PROVE DataInv'
  <2>1. UNCHANGED <<content, completedChunks>>
    BY <1>10 DEF CountReceived
  <2> QED
    BY <1>10, <2>1, CountReceivedEffect DEF StoredPcs, MarkedPcs
<1>11. ASSUME NEW i, FinishChunk(i) PROVE DataInv'
  <2>1. ChunkStep(i, "counted", "done") /\ UNCHANGED <<content, completedChunks>>
    BY <1>11 DEF FinishChunk
  <2> QED
    BY <2>1, ChunkStepEffect DEF StoredPcs, MarkedPcs
<1>12. CASE RecvFile \/ UNCHANGED vars
  BY <1>1, <1>12 DEF RecvFile, RecvFileReturns, ReceiverUnmaps, ReceiverJoins,
                     ReceiverCloses, vars, recvVars, Unmap
<1> QED
  BY <1>2, <1>3, <1>4, <1>5, <1>6, <1>7, <1>8, <1>9, <1>10, <1>11, <1>12
  DEF Next, ProcessHandshake, ProcessChunk

\* chunks_recv_ counts chunks, so completion needs all of them.
LEMMA CountNext ==
    TypeOK /\ HandshakeInv /\ UniqueInv /\ CountInv /\ [Next]_vars => CountInv'
<1> SUFFICES ASSUME TypeOK, HandshakeInv, UniqueInv, CountInv, [Next]_vars
             PROVE  CountInv'
  OBVIOUS
<1> USE SessionAssumption DEF manifestVars, fileVars, countVars
<1>0. /\ chunks_recv \in Nat
      /\ \A i \in DOMAIN chunkTasks :
            chunkTasks[i].id \in Chunks /\ chunkTasks[i].received \in Nat
  <2>1. \A i \in DOMAIN chunkTasks : chunkTasks[i] \in ChunkTask
    BY DEF TypeOK, RecvTypeOK
  <2> QED
    BY <2>1 DEF TypeOK, RecvTypeOK, ChunkTask
<1>1. CASE UNCHANGED <<chunkTasks, chunks_recv, trans_complete, rPc>>
  BY <1>1 DEF CountInv, CountedChunks
<1>2. CASE SendFile \/ (\E c \in Chunks : SendTask(c)) \/ SenderIo
  BY <1>1, <1>2, ReceiverFrame DEF recvVars
<1>3. ASSUME NEW st \in Streams, HandleRecv(st) PROVE CountInv'
  <2>1. CountedChunks' = CountedChunks
    BY <1>3, HandleRecvEffect DEF CountedChunks, CountedPcs
  <2> QED
    BY <1>3, <2>1, HandleRecvEffect DEF CountInv
<1>4. ASSUME NEW i, ProcessHandshake(i) PROVE CountInv'
  <2>1. CASE HsManifest(i)
    <3>1. NothingReceived
      BY <2>1, HsStepEffect DEF HsManifest, HandshakeInv, DuringHandshake
    <3> QED
      BY <1>1, <2>1, <3>1 DEF HsManifest, HsStep, NothingReceived
  <2> QED
    BY <1>1, <1>4, <2>1 DEF ProcessHandshake, HsLocked, HsMap, HsThrows, HsAck,
                            HsStep, MapWrite
<1>5. ASSUME NEW i,
             AdmitChunk(i) \/ StoreChunk(i) \/ ChunkFails(i) \/ MarkCompleted(i)
      PROVE  CountInv'
  <2>1. PICK from \in {"queued", "admitted", "stored"},
             to \in {"admitted", "dropped", "stored", "failed", "marked"} :
                ChunkStep(i, from, to)
    BY <1>5 DEF AdmitChunk, StoreChunk, ChunkFails, MarkCompleted
  <2>2. UNCHANGED <<chunks_recv, trans_complete, rPc>>
    BY <1>5 DEF AdmitChunk, StoreChunk, ChunkFails, MarkCompleted, ChunkStep
  <2>3. CountedChunks' = CountedChunks
    BY <2>1, ChunkStepEffect DEF CountedChunks, CountedPcs
  <2> QED
    BY <2>1, <2>2, <2>3, ChunkStepEffect DEF CountInv
<1>6. ASSUME NEW i, CountReceived(i) PROVE CountInv'
  <2>1. /\ i \in DOMAIN chunkTasks /\ chunkTasks[i].id \in Chunks
        /\ chunkTasks[i].id \notin CountedChunks
    BY <1>0, <1>6, CountReceivedEffect
    DEF CountedChunks, CountedPcs, UniqueInv, TasksDistinct
  <2>2. CountedChunks' = CountedChunks \cup {chunkTasks[i].id}
    BY <1>6, <2>1, CountReceivedEffect DEF CountedChunks, CountedPcs
  <2>3. Cardinality(CountedChunks') = Cardinality(CountedChunks) + 1
    BY <2>1, <2>2, AllChunks, FS_AddElement DEF CountedChunks
  <2>4. chunks_recv' = chunks_recv + 1 /\ UNCHANGED <<trans_complete, rPc>>
    BY <1>6 DEF CountReceived
  <2> QED
    BY <1>0, <1>6, <2>3, <2>4, CountReceivedEffect DEF CountInv
<1>7. ASSUME NEW i, FinishChunk(i) PROVE CountInv'
  <2>1. /\ ChunkStep(i, "counted", "done") /\ UNCHANGED <<chunks_recv, rPc>>
        /\ trans_complete' =
              (trans_complete \/ chunkTasks[i].received = expectedChunks)
    BY <1>7 DEF FinishChunk, ChunkStep
  <2>2. CountedChunks' = CountedChunks
    BY <2>1, ChunkStepEffect DEF CountedChunks, CountedPcs
  <2>3. i \in DOMAIN chunkTasks /\ chunkTasks[i].received <= chunks_recv
    BY <2>1, ChunkStepEffect DEF CountInv
  <2>4. expectedChunks = NumChunks
    BY <2>3, ChunkMeansAccepted DEF Accepted, Ready
  <2>5. \A j \in DOMAIN chunkTasks' :
           chunkTasks'[j].pc = "counted" => chunkTasks'[j].received <= chunks_recv'
    BY <2>1, ChunkStepEffect DEF CountInv
  <2>6. trans_complete' => chunks_recv >= NumChunks
    BY <1>0, <2>1, <2>3, <2>4 DEF CountInv
  <2> QED
    BY <2>1, <2>2, <2>5, <2>6 DEF CountInv
<1>8. CASE RecvFile
  BY <1>8 DEF RecvFile, RecvFileReturns, ReceiverUnmaps, ReceiverJoins,
              ReceiverCloses, CountInv, CountedChunks, Unmap
<1>9. CASE UNCHANGED vars
  BY <1>1, <1>9 DEF vars, recvVars
<1> QED
  BY <1>2, <1>3, <1>4, <1>5, <1>6, <1>7, <1>8, <1>9 DEF Next, ProcessChunk

------------------------------------------------------------------------------
(* No chunk is dropped and none is written to an unmapped file. *)

\* processChunk never finds the file unmapped.
LEMMA WriteNext ==
    /\ TypeOK /\ HandshakeInv /\ UniqueInv /\ CountInv
    /\ NoChunkDropped /\ NoWriteAfterUnmap /\ [Next]_vars
    => NoChunkDropped' /\ NoWriteAfterUnmap'
<1> SUFFICES ASSUME TypeOK, HandshakeInv, UniqueInv, CountInv, NoChunkDropped,
                    NoWriteAfterUnmap, [Next]_vars
             PROVE  NoChunkDropped' /\ NoWriteAfterUnmap'
  OBVIOUS
<1> USE SessionAssumption DEF manifestVars, fileVars, NoChunkDropped,
                              NoWriteAfterUnmap
<1>1. CASE UNCHANGED <<chunkTasks, mapped>>
  BY <1>1
<1>2. CASE SendFile \/ (\E c \in Chunks : SendTask(c)) \/ SenderIo
  BY <1>1, <1>2, ReceiverFrame DEF recvVars
<1>3. ASSUME NEW st \in Streams, HandleRecv(st)
      PROVE  NoChunkDropped' /\ NoWriteAfterUnmap'
  BY <1>3, HandleRecvEffect
<1>4. ASSUME NEW i, ProcessHandshake(i)
      PROVE  NoChunkDropped' /\ NoWriteAfterUnmap'
  BY <1>4 DEF ProcessHandshake, HsLocked, HsManifest, HsMap, HsThrows, HsAck,
              HsStep, MapWrite
<1>5. ASSUME NEW i, AdmitChunk(i) PROVE NoChunkDropped' /\ NoWriteAfterUnmap'
  <2>1. i \in DOMAIN chunkTasks /\ chunkTasks[i].pc = "queued"
    BY <1>5 DEF AdmitChunk, ChunkStep
  <2>2. ~trans_complete /\ rPc = "waiting"
    BY <2>1, CompleteMeansCounted DEF CountedPcs, CountInv
  <2>3. mapped /\ write_view = NumChunks
    BY <2>1, <2>2, ChunkMeansAccepted DEF Accepted, Ready
  <2>4. InView(chunkTasks[i].id)
    <3>1. chunkTasks[i] \in ChunkTask
      BY <2>1 DEF TypeOK, RecvTypeOK
    <3> QED
      BY <2>3, <3>1 DEF InView, ChunkTask, Chunks
  <2>5. ChunkStep(i, "queued", "admitted") /\ UNCHANGED mapped
    BY <1>5, <2>4 DEF AdmitChunk
  <2> QED
    BY <2>3, <2>5, ChunkStepEffect
<1>6. ASSUME NEW i, StoreChunk(i) \/ ChunkFails(i) \/ MarkCompleted(i)
                       \/ FinishChunk(i)
      PROVE  NoChunkDropped' /\ NoWriteAfterUnmap'
  <2>1. PICK from \in {"admitted", "stored", "counted"},
             to \in {"stored", "failed", "marked", "done"} :
                ChunkStep(i, from, to)
    BY <1>6 DEF StoreChunk, ChunkFails, MarkCompleted, FinishChunk
  <2>2. UNCHANGED mapped
    BY <1>6 DEF StoreChunk, ChunkFails, MarkCompleted, FinishChunk
  <2> QED
    BY <2>1, <2>2, ChunkStepEffect
<1>7. ASSUME NEW i, CountReceived(i) PROVE NoChunkDropped' /\ NoWriteAfterUnmap'
  <2>1. UNCHANGED mapped
    BY <1>7 DEF CountReceived
  <2>2. /\ DOMAIN chunkTasks' = DOMAIN chunkTasks
        /\ \A j \in DOMAIN chunkTasks :
              chunkTasks'[j].pc \in {"counted", chunkTasks[j].pc}
    BY <1>7, CountReceivedEffect
  <2> QED
    BY <2>1, <2>2
<1>8. CASE ReceiverUnmaps
  BY <1>8, CompleteMeansCounted DEF ReceiverUnmaps, CountInv, CountedPcs, Unmap
<1>9. CASE RecvFileReturns \/ ReceiverJoins \/ ReceiverCloses \/ UNCHANGED vars
  BY <1>1, <1>9 DEF RecvFileReturns, ReceiverJoins, ReceiverCloses, vars, recvVars
<1> QED
  BY <1>2, <1>3, <1>4, <1>5, <1>6, <1>7, <1>8, <1>9
  DEF Next, ProcessChunk, RecvFile

------------------------------------------------------------------------------
(* The theorems. *)

\* A transfer that has not begun.
LEMMA IndInvInit == Init => IndInv
<1> SUFFICES ASSUME Init PROVE IndInv
  OBVIOUS
<1> USE DEF Init
<1>1. TypeOK
  BY TypeInit
<1>2. HandshakeInv
  BY DEF HandshakeInv, BeforeHandshake, NoFile, NoAnswerYet, NoChunkYet,
         NothingReceived
<1>3. UniqueInv
  BY DEF UniqueInv, UpSound, UpDistinct, TasksTravelled, TasksDistinct
<1>4. SentInv
  <2>1. SentChunks = {}
    BY DEF SentChunks
  <2> QED
    BY <2>1, FS_EmptySet DEF SentInv, SentMeansSent
<1>5. DataInv
  BY DEF DataInv, BitfieldSound
<1>6. CountInv
  <2>1. CountedChunks = {}
    BY DEF CountedChunks
  <2> QED
    BY <2>1, FS_EmptySet DEF CountInv
<1>7. NoChunkDropped /\ NoWriteAfterUnmap
  BY DEF NoChunkDropped, NoWriteAfterUnmap
<1> QED
  BY <1>1, <1>2, <1>3, <1>4, <1>5, <1>6, <1>7 DEF IndInv

\* Every step of a transfer keeps every part of the invariant.
LEMMA IndInvNext == IndInv /\ [Next]_vars => IndInv'
BY TypeNext, HandshakeNext, UniqueNext, SentNext, DataNext, CountNext, WriteNext
DEF IndInv

\* The invariant holds in every reachable state.
THEOREM Invariance == Spec => []IndInv
BY IndInvInit, IndInvNext, PTL DEF Spec

\* A state that satisfies the invariant is sound when complete.
LEMMA IndInvCompletes == IndInv => CompletionSound
<1> SUFFICES ASSUME IndInv, trans_complete, NEW c \in Chunks
             PROVE  content[c] = "data" /\ c \in completedChunks
  BY DEF CompletionSound
<1>1. c \in CountedChunks
  BY CompleteMeansCounted DEF IndInv
<1> QED
  BY <1>1 DEF CountedChunks, CountedPcs, StoredPcs, MarkedPcs, IndInv, DataInv

\* The count that ends a transfer (processChunk) proves a whole, verified file.
THEOREM CompletionIsSound == Spec => []CompletionSound
BY IndInvCompletes, Invariance, PTL

\* A bit of the manifest stands for verified bytes.
THEOREM BitfieldIsSound == Spec => []BitfieldSound
<1>1. IndInv => BitfieldSound
  BY DEF IndInv, DataInv
<1> QED
  BY <1>1, Invariance, PTL

\* ~Session may unmap the file before it joins the pool.
THEOREM UnmapIsSafe == Spec => []NoWriteAfterUnmap
<1>1. IndInv => NoWriteAfterUnmap
  BY DEF IndInv
<1> QED
  BY <1>1, Invariance, PTL

\* The acknowledgement keeps chunks from overtaking the mapping of the file.
THEOREM NoChunkIsDropped == Spec => []NoChunkDropped
<1>1. IndInv => NoChunkDropped
  BY DEF IndInv
<1> QED
  BY <1>1, Invariance, PTL

\* The sender never reads past the bitfield of an acknowledgement.
THEOREM AckIsInBounds == Spec => []AckInBounds
<1>1. IndInv => AckInBounds
  <2> SUFFICES ASSUME IndInv, NEW k \in DOMAIN down,
                      down[k].type = "handshakeAck"
               PROVE  down[k].packed = down[k].total_chunks
    BY DEF AckInBounds
  <2>1. down # <<>> /\ down[k] \in DownMessage
    BY DEF IndInv, TypeOK
  <2>2. HandshakeDone
    BY <2>1, AnswerMeansDone DEF IndInv
  <2>3. down[k].packed = NumChunks
    BY <2>2 DEF HandshakeDone, Accepted, Rejected
  <2>4. down[k].total_chunks = NumChunks
    BY <2>1 DEF DownMessage
  <2> QED
    BY <2>3, <2>4
<1> QED
  BY <1>1, Invariance, PTL

\* sendFile returns from an accepted transfer only when every chunk was sent.
THEOREM SentIsSent == Spec => []SentMeansSent
<1>1. IndInv => SentMeansSent
  BY DEF IndInv, SentInv
<1> QED
  BY <1>1, Invariance, PTL

\* A wrong PIN creates no file and sends no chunk.
THEOREM WrongPinIsKeptOut == Spec => []WrongPinSendsNothing
<1>1. IndInv => WrongPinSendsNothing
  <2> SUFFICES ASSUME IndInv, pin # ExpectedPin PROVE WrongPinSendsNothing
    BY DEF WrongPinSendsNothing
  <2>1. NoFile /\ NoChunkYet
    <3>1. CASE hsTasks = <<>>
      BY <3>1 DEF IndInv, HandshakeInv, BeforeHandshake
    <3>2. CASE hsTasks # <<>> /\ hsTasks[1].pc # "done"
      BY <3>2 DEF IndInv, HandshakeInv, DuringHandshake
    <3>3. CASE hsTasks # <<>> /\ hsTasks[1].pc = "done"
      BY <3>3 DEF IndInv, HandshakeInv, HandshakeDone, Rejected
    <3> QED
      BY <3>1, <3>2, <3>3
  <2> QED
    BY <2>1 DEF WrongPinSendsNothing, NoFile, NoChunkYet
<1> QED
  BY <1>1, Invariance, PTL

------------------------------------------------------------------------------
(* The file only grows, and the receiver implements FileTransfer. *)

\* So is the state that one step of it leads to.
LEMMA CompletesNext == IndInv /\ [Next]_vars => CompletionSound'
BY IndInvNext, IndInvCompletes, PTL

\* What each step does to the file: it is opened, gets a chunk it did not have
\* while the transfer is incomplete, is completed, or is left as it is.
LEMMA FileStep ==
    ASSUME IndInv, [Next]_vars
    PROVE  \/ /\ write_view = 0 /\ write_view' > 0
              /\ \A c \in Chunks : content[c] # "data" /\ content'[c] # "data"
              /\ UNCHANGED trans_complete
           \/ /\ write_view > 0 /\ ~trans_complete
              /\ \E c \in Chunks :
                    /\ content[c] # "data" /\ content'[c] = "data"
                    /\ \A d \in Chunks : d # c => content'[d] = content[d]
              /\ UNCHANGED <<write_view, trans_complete>>
           \/ /\ ~trans_complete /\ trans_complete'
              /\ \A c \in Chunks : content[c] = "data"
              /\ UNCHANGED <<write_view, content>>
           \/ /\ \A c \in Chunks : content'[c] = "data" <=> content[c] = "data"
              /\ UNCHANGED <<write_view, trans_complete>>
<1> USE SessionAssumption DEF IndInv, manifestVars, fileVars, countVars
<1> DEFINE Same == /\ \A c \in Chunks : content'[c] = "data" <=> content[c] = "data"
                   /\ UNCHANGED <<write_view, trans_complete>>
<1>0. /\ content \in [Chunks -> {"absent", "hole", "data", "garbage"}]
      /\ trans_complete \in BOOLEAN
      /\ \A i \in DOMAIN chunkTasks : chunkTasks[i].id \in Chunks
  <2>1. \A i \in DOMAIN chunkTasks : chunkTasks[i] \in ChunkTask
    BY DEF TypeOK, RecvTypeOK
  <2> QED
    BY <2>1 DEF TypeOK, RecvTypeOK, ChunkTask
<1>1. CASE SendFile \/ (\E c \in Chunks : SendTask(c)) \/ SenderIo
  BY <1>1, ReceiverFrame DEF recvVars
<1>2. ASSUME NEW st \in Streams, HandleRecv(st) PROVE Same
  BY <1>2, HandleRecvEffect
<1>3. ASSUME NEW i, HsLocked(i) \/ HsManifest(i) \/ HsThrows(i) \/ HsAck(i)
      PROVE  Same
  BY <1>3 DEF HsLocked, HsManifest, HsThrows, HsAck
<1>4. ASSUME NEW i, HsMap(i)
      PROVE  /\ write_view = 0 /\ write_view' > 0
             /\ \A c \in Chunks : content[c] # "data" /\ content'[c] # "data"
             /\ UNCHANGED trans_complete
  <2>1. hsTasks[i].total = NumChunks /\ NothingReceived /\ write_view = 0
    BY <1>4, HsStepEffect DEF HsMap, HandshakeInv, DuringHandshake, MapWrite
  <2> QED
    BY <1>4, <2>1 DEF HsMap, NothingReceived, MapWrite
<1>5. ASSUME NEW i, AdmitChunk(i) \/ MarkCompleted(i) \/ CountReceived(i)
      PROVE  Same
  BY <1>5 DEF AdmitChunk, MarkCompleted, CountReceived
<1>6. ASSUME NEW i \in DOMAIN chunkTasks, chunkTasks[i].pc = "admitted"
      PROVE  /\ write_view > 0 /\ ~trans_complete
             /\ content[chunkTasks[i].id] # "data"
  <2>1. ~trans_complete
    BY <1>6, CompleteMeansCounted DEF CountedPcs
  <2>2. write_view > 0
    BY <1>6, ChunkMeansAccepted DEF Accepted, Ready
  <2>3. content[chunkTasks[i].id] # "data"
    BY <1>0, <1>6 DEF DataInv, StoredPcs, UniqueInv, TasksDistinct
  <2> QED
    BY <2>1, <2>2, <2>3
<1>7. ASSUME NEW i, StoreChunk(i)
      PROVE  /\ write_view > 0 /\ ~trans_complete
             /\ \E c \in Chunks :
                   /\ content[c] # "data" /\ content'[c] = "data"
                   /\ \A d \in Chunks : d # c => content'[d] = content[d]
             /\ UNCHANGED <<write_view, trans_complete>>
  <2>1. i \in DOMAIN chunkTasks /\ chunkTasks[i].pc = "admitted"
    BY <1>7 DEF StoreChunk, ChunkStep
  <2>2. content' = [content EXCEPT ![chunkTasks[i].id] = "data"]
           /\ UNCHANGED <<write_view, trans_complete>>
    BY <1>7 DEF StoreChunk
  <2> QED
    BY <1>0, <1>6, <2>1, <2>2
<1>8. ASSUME NEW i, ChunkFails(i) PROVE Same
  <2>1. i \in DOMAIN chunkTasks /\ chunkTasks[i].pc = "admitted"
    BY <1>8 DEF ChunkFails, ChunkStep
  <2>2. /\ \/ UNCHANGED content
           \/ content' = [content EXCEPT ![chunkTasks[i].id] = "garbage"]
        /\ UNCHANGED <<write_view, trans_complete>>
    BY <1>8 DEF ChunkFails
  <2> QED
    BY <1>0, <1>6, <2>1, <2>2
<1>9. ASSUME NEW i, FinishChunk(i)
      PROVE  \/ Same
             \/ /\ ~trans_complete /\ trans_complete'
                /\ \A c \in Chunks : content[c] = "data"
                /\ UNCHANGED <<write_view, content>>
  <2>1. UNCHANGED <<write_view, content>>
    BY <1>9 DEF FinishChunk
  <2>2. \/ UNCHANGED trans_complete
        \/ ~trans_complete /\ trans_complete'
    BY <1>0, <1>9 DEF FinishChunk
  <2>3. trans_complete' => \A c \in Chunks : content'[c] = "data"
    BY CompletesNext DEF CompletionSound
  <2> QED
    BY <2>1, <2>2, <2>3
<1>10. CASE RecvFile \/ UNCHANGED vars
  BY <1>10 DEF RecvFile, RecvFileReturns, ReceiverUnmaps, ReceiverJoins,
               ReceiverCloses, vars, recvVars, Unmap
<1> QED
  BY <1>1, <1>2, <1>3, <1>4, <1>5, <1>7, <1>8, <1>9, <1>10
  DEF Next, ProcessHandshake, ProcessChunk

\* Bytes that passed the CRC check stay in the file for good.
THEOREM VerifiedDataIsStable == Spec => VerifiedDataStable
<1>1. IndInv /\ [Next]_vars =>
         [\A c \in Chunks : content[c] = "data" => content'[c] = "data"]_vars
  BY FileStep
<1> QED
  BY <1>1, Invariance, PTL DEF Spec, VerifiedDataStable

\* The transfer implements the abstract FileTransfer.
THEOREM Refinement == Spec => ImplementsFileTransfer
<1> DEFINE Stored == {c \in Chunks : content[c] = "data"}
<1>0. Transfer!Chunks = Chunks
  BY DEF Transfer!Chunks, Chunks
<1>1. Init => Transfer!Init
  BY DEF Init, Transfer!Init
<1>2. IndInv /\ [Next]_vars => [Transfer!Next]_(Transfer!vars)
  <2> SUFFICES ASSUME IndInv, [Next]_vars
               PROVE  Transfer!Next \/ UNCHANGED Transfer!vars
    OBVIOUS
  <2>1. CASE /\ write_view = 0 /\ write_view' > 0
             /\ \A c \in Chunks : content[c] # "data" /\ content'[c] # "data"
             /\ UNCHANGED trans_complete
    <3>1. Stored = {} /\ Stored' = {}
      BY <2>1
    <3> QED
      BY <2>1, <3>1 DEF Transfer!Next, Transfer!Open
  <2>2. CASE /\ write_view > 0 /\ ~trans_complete
             /\ \E c \in Chunks :
                   /\ content[c] # "data" /\ content'[c] = "data"
                   /\ \A d \in Chunks : d # c => content'[d] = content[d]
             /\ UNCHANGED <<write_view, trans_complete>>
    <3>1. PICK c \in Chunks :
                   /\ content[c] # "data" /\ content'[c] = "data"
                   /\ \A d \in Chunks : d # c => content'[d] = content[d]
      BY <2>2
    <3>2. c \notin Stored /\ Stored' = Stored \cup {c}
      BY <3>1
    <3> QED
      BY <1>0, <2>2, <3>2 DEF Transfer!Next, Transfer!Store
  <2>3. CASE /\ ~trans_complete /\ trans_complete'
             /\ \A c \in Chunks : content[c] = "data"
             /\ UNCHANGED <<write_view, content>>
    <3>1. Stored = Chunks /\ Stored' = Stored
      BY <2>3
    <3> QED
      BY <1>0, <2>3, <3>1 DEF Transfer!Next, Transfer!Complete
  <2>4. CASE /\ \A c \in Chunks : content'[c] = "data" <=> content[c] = "data"
             /\ UNCHANGED <<write_view, trans_complete>>
    <3>1. Stored' = Stored
      BY <2>4
    <3> QED
      BY <2>4, <3>1 DEF Transfer!vars
  <2> QED
    BY <2>1, <2>2, <2>3, <2>4, FileStep
<1> QED
  BY <1>1, <1>2, Invariance, PTL
  DEF Spec, ImplementsFileTransfer, Transfer!Spec
=============================================================================
