------------------------ MODULE ConnectionProperties ------------------------
(***************************************************************************)
(* What the application's two loops rely on while one Session follows      *)
(* another.                                                                *)
(***************************************************************************)
EXTENDS Connection

\* A receiver Session stores in its file only chunks of the file whose
\* handshake it accepted, however late datagrams of another file arrive.
FilesNotMixed == \A c \in Chunks : got[c] \in {NoFile, claimed}

\* It does if main.cpp's pauses outlast a transfer's datagrams.  Every Session's
\* conversation id and first sequence numbers are the same and net_loop feeds
\* KCP whatever arrives at the port, so nothing but the pauses keeps one file's
\* datagrams out of the next file's Session.
PausesKeepFilesApart == scenario.pauseSuffices => FilesNotMixed

\* The receiver logs the files of the queue in order, each once, although the
\* next handshake may reach the Session of the previous file, or no socket.
\* (A sender that dies after its last chunk sends the file again.)
ReceivedInOrder ==
    scenario.pauseSuffices /\ scenario.maxDrops = 0 =>
       received = [i \in 1 .. Len(received) |-> i]

\* The answer a sender acts on is the answer to its own handshake.  If pauses do
\* not suffice it still is, however late datagrams arrive: a receiver Session
\* answers to one address, every sender Session has its own, and the first it
\* sends is its handshake.  Then the window must have room for a whole file: a
\* sender that a full window makes ask for room is heard from by a Session that
\* never saw its handshake.
AnswerIsForMe ==
    /\ scenario.pauseSuffices \/ rcv_wnd > NumChunks + 1
    /\ sPc = "waitAck" /\ sKcp.rcv_queue # <<>>
    => Head(sKcp.rcv_queue).file = file

\* When no sender dies and the pauses suffice, both loops get through the
\* whole queue.
QueueDelivered ==
    scenario.pauseSuffices /\ scenario.maxDrops = 0 =>
       <>(file > NumFiles /\ received = [i \in 1 .. NumFiles |-> i])

\* A sender that was started again after its transfer dropped gets an answer
\* to its handshake.
ResumesAfterDrop == drops > 0 /\ sPc = "waitAck" ~> sPc # "waitAck"
==============================================================================
