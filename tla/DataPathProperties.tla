------------------------- MODULE DataPathProperties -------------------------
(***************************************************************************)
(* What the user of a transfer relies on: the file arrives as it was, and  *)
(* the sender's progress is not ahead of what has been sent.               *)
(***************************************************************************)
EXTENDS DataPath

\* On each stream handleRecv is given the messages of the tasks, whole, once
\* and in the order in which they took the mutex, wherever ikcp_send and the
\* flushes of the two threads cut the stream.
FramesIntact ==
    \A st \in Streams :
       /\ Len(handed[st]) <= Len(pushed[st])
       /\ \A i \in DOMAIN handed[st] : handed[st][i] = Body(pushed[st][i])

BytesOf(c) == c * ChunkSize + 1 .. Min({(c + 1) * ChunkSize, Len(file_view)})

\* The bytes of a completed chunk are the sender's, at the same place in the
\* file, in whatever order the chunks are processed.
CompletedIsCopied ==
    \A c \in Chunks : completedChunks[c] =>
       \A i \in BytesOf(c) : write_view[i] = file_view[i]

\* When recvFile may return, the file is the sender's to the last byte.
CompleteIsWhole == trans_complete_ => write_view = file_view

\* The chunks whose frames KCP has taken to the last byte.
Given == {c \in Encoded : sent[c] = Len(Frame(c))}

\* The percentage that sendFile gives to on_progress_ is never ahead of the part
\* of the file that KCP has taken, wherever the tasks are between sendChunk and
\* their two counters: it does not pass 100, and 100, which is not computed from
\* the bytes at all, means that sendChunk has ended for every chunk.  It does
\* not mean that anything has arrived.
ProgressHonest ==
    shown * Len(file_view) <= 100 * Cardinality(UNION {BytesOf(c) : c \in Given})

\* From the answer to a handshake the sender reads no byte that is not there,
\* and exactly the chunks that the receiver has completed.
BitfieldFaithful ==
    LET packed == pack_bitfield(completedChunks) IN
    /\ \A c \in Chunks : c \div BitsPerByte \in DOMAIN packed
    /\ unpack_bitfield(packed, Cardinality(Chunks)) = completedChunks

\* The transfer completes, although a message is cut into pieces and segments
\* that do not keep to its limits.
FileArrives == <>trans_complete_
=============================================================================
