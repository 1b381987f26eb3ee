----------------------------- MODULE Connection -----------------------------
(***************************************************************************)
(* A sender that works through its queue of files, one Session per file,   *)
(* and a receiver that loops over Sessions on one port (main.cpp), with    *)
(* what src/net/transport.cpp adds to KCP: the receiver answers to the     *)
(* first address it hears from, for as long as its Session lives, and all  *)
(* Sessions use the same conversation id.                                  *)
(*                                                                         *)
(* Only stream 0 is modelled, which carries the handshake, its answer and  *)
(* every fourth chunk.  What a Session does with a message it is handed is *)
(* one step: module Session has its threads.                               *)
(***************************************************************************)
EXTENDS Kcp

CONSTANTS
    NumFiles,   \* files in the sender's queue
    NumChunks,  \* chunks of each file on stream 0
    Scenarios   \* what the environment may do in a behaviour

\* A scenario bounds the senders that die and are started again (maxDrops),
\* the datagrams lost while both ends are there (maxLoss), those on their way
\* in one direction (maxFlight) and the Sessions of the receiver's loop
\* (maxSessions), and says whether all that a transfer sent is gone when a
\* pause is over (pauseSuffices).
ASSUME ConnectionAssumption ==
    /\ NumFiles \in Nat /\ NumChunks \in Nat \ {0}
    /\ Scenarios \subseteq [maxDrops : Nat, maxLoss : Nat, maxFlight : Nat,
                             maxSessions : Nat, pauseSuffices : BOOLEAN]

Chunks == 1 .. NumChunks
NoPort == 0     \* remote_addr_.sin_family = 0
NoFile == 0

VARIABLES
    sPc,        \* the sender's thread
    file,       \* the file it is at
    port,       \* the port the current sender Session sends from, all distinct
    todo,       \* its chunks not yet handed to KCP
    sKcp,
    rPc,        \* the receiver's thread
    remote,     \* remote_addr_ of the current receiver Session
    claimed,    \* the file of the handshake it accepted, NoFile for none
    got,        \* per chunk, the file whose bytes are there, NoFile for none
    chunks_recv_,
    rKcp,
    toReceiver, \* datagrams on their way: [port, seg]
    toSender,
    received,   \* history: the files the receiver logged
    drops, lost,
    scenario    \* chosen at the start

Ports  == 1 .. NumFiles + scenario.maxDrops

sendVars == <<sPc, file, port, todo, sKcp>>
recvVars == <<rPc, remote, claimed, got, chunks_recv_, rKcp, received>>
netVars  == <<toReceiver, toSender>>
envVars  == <<drops, lost, scenario>>
vars     == <<sendVars, recvVars, netVars, envVars>>

Handshake(f)    == [type |-> "handshake", file |-> f]
ChunkData(f, c) == [type |-> "chunkData", file |-> f, chunk |-> c]
Ack(f, bits)    == [type |-> "handshakeAck", file |-> f, bits |-> bits]

\* kcpOutputCallback sends what a flush produces to remote_addr_.
Addressed(p, segs) == {[port |-> p, seg |-> s] : s \in segs}

\* The end of a critical section of either side; due are the segments whose
\* timers have run out.
SenderFlush(k, due) ==
    /\ sKcp' = ikcp_flush(k)
    /\ toReceiver' = toReceiver \cup Addressed(port', FlushOut(k, due, TRUE))
    /\ Cardinality(toReceiver') <= scenario.maxFlight

ReceiverFlush(k, due) ==
    /\ rKcp' = ikcp_flush(k)
    /\ toSender' = toSender \cup Addressed(remote', FlushOut(k, due, TRUE))
    /\ Cardinality(toSender') <= scenario.maxFlight

------------------------------------------------------------------------------
(* Sender *)

\* A new Session: a new socket, new KCP objects, the handshake.
StartFile ==
    /\ sPc = "idle"
    /\ file <= NumFiles
    /\ sPc' = "waitAck"
    /\ port' = port + 1
    /\ todo' = Chunks
    /\ sKcp' = ikcp_send(ikcp_create, Handshake(file))
    /\ UNCHANGED <<file, recvVars, netVars, envVars>>

\* handleRecv and processHandshakeACk: the chunks of the bitfield are skipped.
SenderRecv ==
    /\ sPc # "idle"
    /\ sKcp.rcv_queue # <<>>
    /\ sKcp' = ikcp_recv(sKcp)
    /\ IF sPc = "waitAck"
       THEN sPc' = "sending" /\ todo' = Chunks \ Head(sKcp.rcv_queue).bits
       ELSE UNCHANGED <<sPc, todo>>
    /\ UNCHANGED <<file, port, recvVars, netVars, envVars>>

\* One of the tasks of the dispatch loop, which run in any order.
SendChunk ==
    /\ sPc = "sending"
    /\ UNCHANGED <<sPc, file, port, toSender, recvVars, envVars>>
    /\ \E c \in todo :
          /\ todo' = todo \ {c}
          /\ \E k \in {ikcp_send(sKcp, ChunkData(file, c))} : SenderFlush(k, {})

SendFileReturns ==
    /\ sPc = "sending"
    /\ todo = {}
    /\ sPc' = "returned"
    /\ UNCHANGED <<file, port, todo, sKcp, recvVars, netVars, envVars>>

\* All is said between the receiver and the sender at port p: nothing that
\* the sender sent is under way, and nothing will make it send again.
Quiet(p) ==
    /\ \A d \in toReceiver : d.port # p
    /\ port = p /\ sPc # "idle" =>
          /\ ikcp_waitsnd(sKcp) = 0
          /\ sKcp.rmt_wnd > 0 /\ sKcp.probe = {}   \* no window to ask or tell of
          /\ \A d \in toSender : d.port # p
          /\ rPc # "unbound" /\ remote = p => ikcp_waitsnd(rKcp) = 0

\* The Session is destroyed after a pause of 500 ms.
SenderCloses ==
    /\ sPc = "returned"
    /\ scenario.pauseSuffices => Quiet(port)
    /\ sPc' = "idle"
    /\ file' = file + 1
    /\ UNCHANGED <<port, todo, sKcp, recvVars, netVars, envVars>>

\* The sender dies in the middle of a file; its user starts it again.
SenderDrops ==
    /\ sPc \in {"waitAck", "sending"}
    /\ drops < scenario.maxDrops
    /\ drops' = drops + 1
    /\ sPc' = "idle"
    /\ UNCHANGED <<file, port, todo, sKcp, recvVars, netVars, lost, scenario>>

\* net_loop: what the clock does, to the segments that are due.
SenderUpdate(due) ==
    /\ sPc # "idle"
    /\ UNCHANGED <<sPc, file, port, todo, toSender, recvVars, envVars>>
    /\ \E k \in {ikcp_update(sKcp)} : SenderFlush(k, due)

\* A datagram for a port without a socket vanishes.
SenderInput(d) ==
    /\ d \in toSender
    /\ toSender' = toSender \ {d}
    /\ UNCHANGED <<sPc, file, port, todo, recvVars, envVars>>
    /\ IF sPc # "idle" /\ d.port = port
       THEN \E k \in {ikcp_input(sKcp, d.seg)} : SenderFlush(k, {})
       ELSE UNCHANGED <<sKcp, toReceiver>>

------------------------------------------------------------------------------
(* Receiver *)

\* MUTANT: the manifest of the last file is still there.
ListenKeepsManifest ==
    /\ rPc = "unbound"
    /\ rPc' = "listening"
    /\ remote' = NoPort /\ claimed' = NoFile /\ chunks_recv_' = 0
    /\ rKcp' = ikcp_create
    /\ UNCHANGED <<sendVars, got, received, netVars, envVars>>

\* MUTANT: one Session is used for all files.
ListenSameSession ==
    /\ rPc = "unbound"
    /\ rPc' = "listening"
    /\ UNCHANGED <<sendVars, remote, claimed, got, chunks_recv_, rKcp, received,
                   netVars, envVars>>

\* MUTANT: the address of the last sender is kept.
ListenKeepsAddress ==
    /\ rPc = "unbound"
    /\ rPc' = "listening"
    /\ claimed' = NoFile
    /\ got' = [c \in Chunks |-> NoFile] /\ chunks_recv_' = 0
    /\ rKcp' = ikcp_create
    /\ UNCHANGED <<sendVars, remote, received, netVars, envVars>>

\* A new Session of the receiver's loop listens.
Listen ==
    /\ rPc = "unbound"
    /\ rPc' = "listening"
    /\ remote' = NoPort /\ claimed' = NoFile
    /\ got' = [c \in Chunks |-> NoFile] /\ chunks_recv_' = 0
    /\ rKcp' = ikcp_create
    /\ UNCHANGED <<sendVars, received, netVars, envVars>>

\* MUTANT: the receiver answers to whoever it heard from last.
ReceiverInputFollows(d) ==
    /\ rPc # "unbound"
    /\ d \in toReceiver
    /\ toReceiver' = toReceiver \ {d}
    /\ UNCHANGED <<sendVars, rPc, claimed, got, chunks_recv_, received, envVars>>
    /\ remote' = d.port
    /\ \E k \in {ikcp_input(rKcp, d.seg)} : ReceiverFlush(k, {})

\* net_loop: the first datagram fixes the address; KCP sees every datagram,
\* wherever it comes from.
ReceiverInput(d) ==
    /\ d \in toReceiver
    /\ toReceiver' = toReceiver \ {d}
    /\ UNCHANGED <<sendVars, rPc, claimed, got, chunks_recv_, received, envVars>>
    /\ IF rPc = "unbound"
       THEN UNCHANGED <<remote, rKcp, toSender>>
       ELSE /\ remote' = IF remote = NoPort THEN d.port ELSE remote
            /\ \E k \in {ikcp_input(rKcp, d.seg)} : ReceiverFlush(k, {})

ReceiverUpdate(due) ==
    /\ rPc # "unbound"
    /\ UNCHANGED <<sendVars, rPc, remote, claimed, got, chunks_recv_, received,
                   toReceiver, envVars>>
    /\ \E k \in {ikcp_update(rKcp)} : ReceiverFlush(k, due)

\* handleRecv and processHandshake: the first handshake opens the file, every
\* one is answered with the bitfield.
ReceiverHandshake(m) ==
    /\ m.type = "handshake"
    /\ claimed' = IF claimed = NoFile THEN m.file ELSE claimed
    /\ UNCHANGED <<got, chunks_recv_>>
    /\ LET bits == {c \in Chunks : got[c] # NoFile}
       IN  \E k \in {ikcp_send(ikcp_recv(rKcp), Ack(m.file, bits))} :
              ReceiverFlush(k, {})

\* handleRecv and processChunk: a chunk goes where its id says, when there is
\* a file to put it in.  Its key, size and CRC are right whatever file it is of.
ReceiverChunk(m) ==
    /\ m.type = "chunkData"
    /\ rKcp' = ikcp_recv(rKcp)
    /\ IF claimed = NoFile
       THEN UNCHANGED <<got, chunks_recv_>>
       ELSE /\ got' = [got EXCEPT ![m.chunk] = m.file]
            /\ chunks_recv_' = chunks_recv_ + 1
    /\ UNCHANGED <<claimed, toSender>>

ReceiverRecv ==
    /\ rPc # "unbound"
    /\ rKcp.rcv_queue # <<>>
    /\ UNCHANGED <<sendVars, rPc, remote, received, toReceiver, envVars>>
    /\ LET m == Head(rKcp.rcv_queue)
       IN  ReceiverHandshake(m) \/ ReceiverChunk(m)

\* The last chunk ends recvFile.  The io thread runs on during the pause.
RecvFileReturns ==
    /\ rPc = "listening"
    /\ claimed # NoFile /\ chunks_recv_ >= NumChunks
    /\ rPc' = "returned"
    /\ received' = Append(received, claimed)
    /\ UNCHANGED <<sendVars, remote, claimed, got, chunks_recv_, rKcp, netVars,
                   envVars>>

\* ~Session, and the loop begins again (up to a bound).
ReceiverCloses ==
    /\ rPc = "returned"
    /\ Len(received) < scenario.maxSessions
    /\ scenario.pauseSuffices => Quiet(remote)
    /\ rPc' = "unbound"
    /\ UNCHANGED <<sendVars, remote, claimed, got, chunks_recv_, rKcp, received,
                   netVars, envVars>>

------------------------------------------------------------------------------
Lose ==
    /\ lost < scenario.maxLoss
    /\ lost' = lost + 1
    /\ \/ /\ \E d \in toReceiver : toReceiver' = toReceiver \ {d}
          /\ UNCHANGED toSender
       \/ /\ \E d \in toSender : toSender' = toSender \ {d}
          /\ UNCHANGED toReceiver
    /\ UNCHANGED <<sendVars, recvVars, drops, scenario>>

Init ==
    /\ sPc = "idle" /\ file = 1 /\ port = NoPort /\ todo = {}
    /\ sKcp = ikcp_create
    /\ rPc = "unbound" /\ remote = NoPort /\ claimed = NoFile
    /\ got = [c \in Chunks |-> NoFile] /\ chunks_recv_ = 0
    /\ rKcp = ikcp_create
    /\ toReceiver = {} /\ toSender = {}
    /\ received = <<>> /\ drops = 0 /\ lost = 0
    /\ scenario \in Scenarios

SenderThread == StartFile \/ SendChunk \/ SendFileReturns \/ SenderCloses
ReceiverThread == Listen \/ RecvFileReturns \/ ReceiverCloses

Next ==
    \/ SenderThread \/ SenderRecv \/ SenderDrops
    \/ \E due \in SUBSET Sns(sKcp.snd_buf) : SenderUpdate(due)
    \/ \E d \in toSender : SenderInput(d)
    \/ ReceiverThread \/ ReceiverRecv
    \/ \E due \in SUBSET Sns(rKcp.snd_buf) : ReceiverUpdate(due)
    \/ \E d \in toReceiver : ReceiverInput(d)
    \/ Lose

Spec == Init /\ [][Next]_vars

\* Threads run, timers run out, pauses end and some datagram arrives.
Fairness ==
    /\ WF_vars(SenderThread) /\ WF_vars(SenderRecv)
    /\ WF_vars(SenderUpdate(Sns(sKcp.snd_buf)))
    /\ WF_vars(\E d \in toSender : SenderInput(d))
    /\ WF_vars(ReceiverThread) /\ WF_vars(ReceiverRecv)
    /\ WF_vars(ReceiverUpdate(Sns(rKcp.snd_buf)))
    /\ WF_vars(\E d \in toReceiver : ReceiverInput(d))

FairSpec == Spec /\ Fairness
==============================================================================
