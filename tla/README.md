# A TLA+ verification of Sxaint

Sxaint sends files between two Windows PCs. This directory models what decides
whether a file arrives, from the button of the two programs down to KCP's
segments; it checks the models with TLC on small instances, and proves their
safety with TLAPS for every instance: of a transfer, of its thread pool, of KCP,
of the path of a file's bytes, of Sessions that follow each other on one port and of
the two programs around them. Paths below are relative to the repository.

## The system

| Part | State | Operations | Interacts with |
|---|---|---|---|
| **Session** (`src/net/session.cpp`) | `handshake_acked_`, `handshake_rejected_`, `resume_bitfield_`, `chunks_sent_` (sender); `expectedChunks_`, `current_manifest_`, `write_view_`, `chunks_recv_`, `trans_complete_` (receiver) | `sendFile`, `recvFile`, `handleRecv`, `processHandshake`, `processHandshakeACk`, `processChunk` | submits tasks to ThreadPool; sends and receives frames through KCPTransport; called by main.cpp |
| **ThreadPool** (`src/core/thread_pool.cpp`) | a queue under a mutex, a counting semaphore, `shutdown_`, the jthreads | `submit`, the worker loop, `shutdown` | runs Session's chunk and handshake tasks |
| **KCPTransport** (`src/net/transport.cpp`) | socket, four KCP objects with their mutexes, `remote_addr_`, per-stream reassembly buffers | `connect`, `listen`, `sendChunk`, `net_loop`, destructor | calls `Session::handleRecv` from its io thread |
| **KCP** (`kcp-2.1.1/ikcp.c`) | send and receive queues, windows, timers | `ikcp_send`, `ikcp_recv`, `ikcp_input`, `ikcp_flush`, `ikcp_update` | UDP datagrams, which are lost, repeated and reordered |
| **Application** (`main.cpp`) | the queue of files, the history, `is_active`, the promise a search waits for | the button starts one detached thread per role: the sender searches for a receiver and makes a Session per file, the receiver announces itself and loops over Sessions for ever; an event posted at the end gives the button back | creates and destroys Discovery objects and Sessions, asks StunClient |
| **Discovery** (`src/net/discovery.cpp`) | `running_`, two sockets, two threads, `active_peers_`, a callback | `start`, `stop`, destructor, broadcast and listen loops | tells the sender's thread the receiver's address, through a callback on its own thread |
| **StunClient** (`src/net/stun.cpp`) | a socket for the time of one call | `getPublicEndpoint` | asked by the receiver in the GI mode |
| **FileMapper** (`src/core/file_mapper.cpp`) | file, mapping and view handles | `map_read`, `map_write`, `preallocate_file`, cleanup | the memory that Session reads and writes |
| **Chunker, Manifest, SmartCompressor, Hasher, Crypto, Metrics** (`src/core/`) | none that outlives a call; the manifest's bitfield; counters for display | slicing, packing, compressing, encrypting, checksums, percentages | used by Session's tasks |

What is hard in this program is concurrency that no test exercises: a chunk
passes through the sender's dispatching thread, one of its pool threads, its io
thread, four KCP streams, the receiver's io thread and one of the receiver's
pool threads. None of them waits for another except by polling an atomic, and
completion is decided by a counter. Threads and mapped memory are torn down
while other threads still run. Nothing times out and nothing is sent twice above
KCP, so a chunk that is missed once is missed for ever. Around that, objects
with threads and sockets of their own come and go with every press of a button,
and the two ends find each other by datagrams that may not come.

For each part, what makes it correct:

- *Session*: completion means a whole verified file; a bit means verified bytes;
  no chunk is dropped, overwritten or written after the file is unmapped; a wrong
  PIN moves no data; without faults everybody returns.
- *ThreadPool*: a submitted task runs once, in order; a destroyed pool is quiet
  and its destructor returns.
- *KCP and KCPTransport*: a stream is reliable and in order, keeps to its windows
  and does not stall; nothing is forgotten before the peer holds it.
- *The data path* (chunker to frames to file): whatever the sizes and the order
  of the tasks, a completed chunk is its bytes of the file at their place, frames
  are never torn or mixed, and the progress shown is never ahead of what was sent.
- *Application*: files follow each other without disturbing each other, what is
  logged is what happened, and the button is free exactly when nothing of an
  earlier transfer is left.
- *Discovery*: an announced receiver is found; a destroyed object is quiet, also
  when it could not bind its port; a search ends.

## Modules

| Module | What it is |
|---|---|
| `FileTransfer` | abstract: a file is opened once, verified chunks are added, it is complete when all are there |
| `Session` | one transfer: both Sessions, all their threads, the streams between them, and what main.cpp does with the sender's result |
| `SessionProperties` | its type invariant, safety, action and liveness properties, and the refinement of `FileTransfer` |
| `SessionInvariant` | the inductive invariant |
| `SessionProofs`, `SessionSafetyProofs` | the proofs |
| `ThreadPool`, `ThreadPoolProperties` | the pool, step by step, what its users rely on, and the inductive invariant behind it |
| `ThreadPoolProofs` | its proofs |
| `ChunkCodec` | Chunker, SmartCompressor, Crypto, Hasher, the packed bitfield and the percentage, as operators |
| `DataPath`, `DataPathProperties` | composes `ChunkCodec` with the tasks of both ends and the framing of KCPTransport: a file's bytes from one mapped file to the other |
| `ReliableStream` | abstract: messages are read in the order they were sent, each once |
| `Kcp` | one KCP endpoint: the functions of ikcp.c as operators on a record with the fields of `ikcpcb` |
| `KcpLink`, `KcpLinkProperties` | two endpoints, the transport's critical sections that drive them, and UDP between them |
| `Connection`, `ConnectionProperties` | composes `Kcp` with main.cpp's two loops: one Session after another on the same port |
| `Discovery` | Discovery objects: their owner's calls, their two threads, the datagrams between them |
| `Application`, `ApplicationProperties` | composes `Discovery` with main.cpp's event loop and worker threads of a sending and a receiving process |
| `DataPathProofs`, `KcpLinkProofs`, `ConnectionProofs`, `ApplicationProofs` | their inductive invariants and their proofs |
| `BasicLemmas` | what several proofs need: minima, quotients and remainders, and what the pieces of a byte stream make together |
| `MC*` | instances for TLC |

The modules stand on each other as the program's layers do. `Session` assumes
of its transport a FIFO queue per stream; `KcpLink` shows that KCP provides one
over UDP (`ImplementsStream`) while both Sessions live; `Connection` asks what
remains of that when Sessions end and others begin on the same port. `Session`
lets a submitted task run at any time; `ThreadPool` shows that a submitted task
does run, and that the pool is quiet once destroyed. `DataPath` opens up what
`Session` calls a chunk: it assumes of KCP that segments arrive once and in order
(`ImplementsStream` again) and shows that bytes cut into segments without regard
to messages become the same messages. `Application` is above them all: a Session
is there only its socket and its end.

Definitions whose comment begins with MUTANT are not part of a model. Each
changes one definition in the way a plausible bug would, and shows that some
property would notice.

## How the models correspond to the code

**Session.** A step is an atomic operation, a critical section or a call whose
inside no other thread sees. `SendHandshake` to `SenderCloses` follow the thread
in `sendFile` and its caller. `PushChunk`, `CountSent` and `SendTaskThrows` are
a chunk's task. `ProcessHandshakeAck`, `ProcessReject` and `SetAcked` are the
sender's io thread, which sets two flags in two steps. `HandleRecv` is the
receiver's io thread. `Hs*` are the steps of `processHandshake`: the part under
the lock, the manifest, the mapping, the acknowledgement. `AdmitChunk` to
`FinishChunk` are those of `processChunk`. `ReceiverUnmaps`, `ReceiverJoins` and
`ReceiverCloses` are the destructor, in the order of the members: the file, the
pool, the transport with its io thread. The io thread outlives the pool, whose
`submit` would throw into it; there is nothing left to hand up by then.
`SenderCloses` is main.cpp's, which comes with or without data still queued. A
chunk's bytes are `absent`, a `hole`, verified `data` or `garbage` (written,
then failed its CRC). Encryption, compression and CRC are one operation that
succeeds or fails. `PushChunk` gives KCP the whole frame; the pieces, and the
error of `ikcp_send` that would end them, are in `DataPath`, and so is the
progress that is shown.

Two branches of the code are in the model and never taken, because a receiver
Session is handed exactly one handshake: the answer to a repeated handshake in
`HsLocked`, and the skipped chunks in `DispatchChunk`. (KCP drops a second
handshake on the same stream as a duplicate, and a new receiver Session has no
chunks yet, so every bitfield that is sent is empty.) `MaxFaults` bounds the
operations that throw or fail. A fault leaves `sendFile` or `recvFile` waiting
for ever, as in the program, so deadlock is not checked for in these runs.

**ThreadPool.** `submit`'s two halves, the five places of a worker's loop and
the three of `shutdown` are separate steps. The two statistics counters are left
out. `Shutdown` may come at any moment; `wasIdle` remembers whether the pool had
nothing to do then. If it had, nothing is queued any more; if it had not, a
worker that takes a task with a permit meant for its own departure can leave
another one blocked in `acquire` for ever; the program never destroys a pool
with tasks in it, so this is a hazard of the class and not of the program, and
outside `NoWorkerStarves` and `ShutdownReturns`, which are about pools that were
idle.

**Kcp, KcpLink.** The operators keep the names of ikcp.c. `snd_buf` and
`rcv_buf` are sets of segments, which `sn` orders. Whether a timer has run out
is an argument (`due`, `elapsed`), chosen freely at every flush: that covers
retransmission timeouts, fast retransmission and the probe timer at any speed.
Each critical section of `sendChunk` and `net_loop` is a step that ends in the
flush the code ends it with. A message is the bytes of one segment. Segments
travel separately, where KCP would pack several into one datagram: that only
adds behaviours. Sequence numbers do not wrap.

**Connection.** One stream, the one that carries the handshake. The sender's
Session per file, the receiver's Session per loop, `remote_addr_` and both KCP
objects are state; what a Session does with a message it is handed is one step,
because `Session` has those steps. A new Session of the sender has a new
ephemeral port (assumed distinct from the earlier ones). Datagrams for a port
without a socket vanish. A scenario, chosen at the start of a behaviour, says
how many senders die, how many datagrams are lost and under way, how many
Sessions the receiver has, and whether the pauses suffice. `pauseSuffices`
states what the two pauses of 500 ms are there for: when a pause ends, nothing
of the transfer is under way and nothing will make its sender send again
(`Quiet`: no datagram, no segment without acknowledgement, and no window to ask
or tell of, since a probe is also heard by the next Session). `SenderDrops` is a
sender that dies and is started again by its user.

The conditions of the properties are part of what they say. `ReceivedInOrder` is
about senders that do not die: one that dies after its last chunk and is started
again sends its file twice. `AnswerIsForMe` needs no pause if the window has room
for all of a file that is on the stream. Otherwise late datagrams can fill the
window of the Session that answers to a new sender; that sender learns of it, asks
for room, and the Session after that hears the question before any handshake, takes
the sender for its peer, and tells it about whatever file a late handshake opens. A
window of two segments with one chunk per file is enough for it. The program's
window is 4096 segments of a stream, less than a large file has, so for large
files the pauses are all there is.

**ChunkCodec, DataPath.** A file's bytes are numbers, all different, so that a
byte in the wrong place is seen. A compressed or encrypted block is a record of
what went in with the size that comes out; compression may return any size up to
its bound, so a chunk may grow. `detect` may choose either strategy for any
file; how it does, by extension and entropy, is not in the model. `Decrypts`,
`Decompresses` and `Writes` are the conditions under which the code does not
throw or return early. A frame's byte carries its chunk, its place and its
value; the length prefix is encoded and decoded digit by digit, with the place
values of four bytes (`PlaceValue`); `DataPathAssumption` says that the longest
message, a header and a chunk that compression and the tag made longer, is below
2^32 bytes; a chunk has 2 MB. `Encode`, `Lock`, `SendPiece` and `Unlock` are a
task of `sendFile` in `sendChunk`; `IoFlush` is the io thread's flush, which
comes between any two frames; `ReadSegment` and `HandUp` are `net_loop`'s two
inner loops; `ProcessChunk` is `processChunk` whole, because `Session` has its
steps. How many segments a flush moves is left open, which covers every window.

After `sendChunk` a task counts its chunk and then adds its bytes to the metrics
(`CountSent`, `AddBytes`), while the thread in `sendFile` shows a percentage of
those bytes (`Show`), ends its loop by the count, shows 100 (`ShowDone`) and waits
for the tasks (`SendFileReturns`). `shown` is what the user last saw. The receiver
adds its bytes too, but `recvFile` never stores the callback, so that counter is
read by nobody and left out.

**Discovery, Application.** An object's record has its members, the places of
its two threads and the place of its owner in `stop` or the destructor, which
closes two sockets one after the other, calls `WSACleanup`, and joins the threads
only when the members are destroyed. A listener is at its test, in `recvfrom`, or
has a datagram; a closed socket makes `recvfrom` fail. `BroadcastSend` is the
broadcast and the datagram to the own computer; any of them may be lost. The
event loop's steps are the button (`StartTrans`) and the posted closures
(`RunPosted`); the worker's steps are the blocks of its lambda, with every path
through its catch clause. `SendFileEnds`, `RecvFileReturns` and `RecvFileThrows`
are the Sessions' decisions. The destructor's `Cleanup` stands for the members that
go before the threads are joined; `active_peers_` and the callback are among them,
and the listener uses them only for an announcement that it accepts, which no
announcement is. `winsock` counts `WSAStartup` and `WSACleanup` per
process.

## Runs

| Run | Question | Answer |
|---|---|---|
| `session` | Can any interleaving of one transfer, with any single failure and a sender closed with or without data queued, report what did not happen, lose or overwrite a chunk, or write to an unmapped file? Does a failed chunk stop the others? Does the receiver behave as `FileTransfer`? Without faults, and if nothing is cut off, does everybody return? Does a rejected sender? | No; no; yes; yes; yes |
| `session_reject_logged` | Is only an accepted transfer logged as a success? | **No**: a rejected PIN is logged as "Success" |
| `session_closing` | Does a file logged as sent arrive when 500 ms do not suffice? | **No**: its tail dies with the Session |
| `pool` | With a shutdown at any moment, do queue and semaphore agree, is every task taken once in order, is a destroyed pool quiet? Does every task run, and the destructor of an idle pool return? | Yes |
| `kcp_safety` | Is a stream reliable and in order over a network that loses, repeats and reorders? Are the windows kept? | Yes |
| `kcp_live` | Is everything read and acknowledged, also when the announcement that a full window has room again is lost? | Yes |
| `connection_queue` | If the pauses suffice, are files received once, in order and unmixed, and do both loops get through the queue, with a lost datagram? If they do not, or a sender dies, can a sender act on another file's answer (with a window that holds a file)? | Yes; no |
| `connection_mixed` | If they do not, can a file get a chunk of another? | **Yes**, against README.md:64 |
| `connection_resume` | Is the handshake of a sender started again after a drop answered? | **No**, against README.md:60 |
| `application` | On one computer or two, in both modes, with ports that cannot be bound and Sessions that throw: are destroyed objects quiet, do sockets outlive their WSAStartup, is anything of a transfer left when the button is free? Does a search end, does the button come back? | Yes; no; no; yes |
| `discovery_found` | Does a searching sender that has read a receiver's announcement find it? | **No**, against README.md:27 |
| `datapath` | For files around the chunk boundaries, chunks that shrink or grow, tasks that race and segments cut anywhere: are frames whole and in order, completed chunks right, the bitfield faithful? Is the percentage the sender shows never ahead of what KCP has taken? Does the file arrive? | Yes |

### The five disagreements

1. `sendFile` returns in the same way after a rejected PIN as after a sent
   file; main.cpp:239 logs both as "Success".
2. `sendFile` returns when KCP has taken the last chunk, not when it is
   acknowledged. main.cpp:243 waits 500 ms and destroys the Session. On a
   slower link the file is logged as sent and never complete.
3. The receiver's Session waits in `recvFile` for a sender that is gone, with
   its KCP state and its address. The handshake of the next sender has a
   sequence number it has seen; it is acknowledged to the old address and
   dropped (README.md:60 promises a resumed transfer).
4. Nothing in a datagram names the file it belongs to. A retransmitted copy that
   arrives after both pauses is a valid segment of the next file's stream; its
   chunk decrypts, its CRC is right, and it is stored in the wrong file.

5. `broadcast_loop` announces `Sxaint|` and a name (discovery.cpp:68),
   `listen_loop` accepts `sxaint|` (discovery.cpp:86). No announcement is ever
   accepted; after three seconds every sender in the local mode sends to
   127.0.0.1 (main.cpp:213), which reaches a receiver on its own computer only.
   README.md:27 promises to "locate other Sxaint instances". With the prefixes
   made equal the receiver is found, and another race appears: the callback
   refers to `found` and `peer_promise` (main.cpp:200-201), which go before the
   object whose listener may be about to call it.

Disagreements met while modelling that no run is about: in the GI mode the
sender sends to port 9000 and the receiver listens on 9002 (main.cpp:230 and
307; README.md:29 calls the mode "still in development"); `recvFile` never
stores the progress callback it is given (session.cpp:158, against README.md:95);
the sender's 100 percent (session.cpp:143) means that KCP has taken the last
chunk, not that the file is whole at the receiver, which is disagreement 2 again;
a PIN of six characters that is no number makes `std::stoul` throw in the event
loop with `is_active` set (main.cpp:147 and 186; the field takes any text,
appwindow.slint:232);
`calc_entropy` adds probability and logarithm where it should multiply
(compressor.cpp:29), so that samples of five or more different bytes count as
incompressible; `Manifest::load` fails when the file opened (manifest.cpp:41),
and is never called; an empty file cannot be mapped and ends the whole queue in
the catch clause.

### Bounds, and why they are enough

- *Three chunks on two streams* (`Session`): one stream carries two chunks and
  the handshake, so order within and across streams both matter, and there is a
  first, a middle and a last chunk. One fault can hit any operation; a second
  would hit a transfer that already waits for ever. The theorems drop all of
  these bounds.
- *Three workers and three tasks* (`ThreadPool`): a worker may be running,
  another woken and a third blocked.
- *Three messages, windows of two, one repetition, at most three datagrams under
  way to one end* (`kcp_safety`; for safety, a lost datagram is one that stays
  under way): one message more than fits a
  window, so that segments are refused, held out of order and re-sent.
  `IKCP_WND_RCV` is smaller than `rcv_wnd`, as in the program (128 and 4096).
- *A window of one segment* (`kcp_live`): it is announced full after every
  segment.
- *Two files of one chunk on the stream; one loss with three datagrams under way
  in each direction and pauses that suffice, or two under way and pauses that do
  not, or a sender that dies* (`connection_queue`): two Sessions that follow each
  other are what the properties are about, and each scenario is a way for the
  first to disturb the second.
- *Files of 1, 4 and 5 bytes in chunks of 2, two streams* (`datapath`): one short
  chunk, only full chunks, and a short last chunk that shares its stream with a
  full one. Bytes of the bitfield have two bits, so the last is full or not. A
  segment holds 6 bytes, a piece 6 and a frame 7 or 8, so that every frame needs
  two pieces and the next one begins in a segment that is partly filled: its
  pieces end inside segments, and segments inside length prefixes; a whole frame
  at once would need as many segments as `IKCP_WND_RCV`, as in the program. Length
  digits are below 4, so a length of 4 needs two of them. Compression makes a chunk
  smaller or leaves its size here, and the tag makes it longer; the proofs are
  for any slack of the compressor.
- *Two processes with one transfer each, one datagram waiting in a socket, one
  file* (`application`, `discovery_found`): two objects follow each other in the
  receiver, one is stopped and then destroyed in the sender. `Audience` keeps
  only the datagrams to the searching sender: the receiver's objects have no
  callback, and what they hear changes nothing but their own map. A second
  transfer of a process begins in a state like the first, which is what
  `InactiveMeansReleased` says.

### Fairness

Weak fairness of every thread's steps: they are OS threads that never block on a
lock held for ever, and each waits by polling (`sendFile`, `recvFile`,
`net_loop`) or on a semaphore. In `Session`, weak fairness of `HandleRecv` is
the transport's promise, which `kcp_live` checks one layer down. In `KcpLink`,
timers run out (`net_loop` calls `ikcp_update` in an endless loop), a datagram
that is not lost arrives, and the number of losses is bounded; this is the usual
meaning of a network that does not lose everything. `Connection` needs less:
that *some* datagram arrives while there are any, and so does `DataPath`: that
some thread goes on while one can. No thread there can go round for ever without
a change (a percentage shown again is a stutter), so all of them get to their
end. In `Application` the event loop, the worker and the threads of the
Discovery objects are fair; the user's presses are not, and neither is the end
of a Session, which may wait for its peer for ever. `Lose`, faults, drops and
shutdown are not fair.

## Proofs

`SessionProofs` and `SessionSafetyProofs` prove, for every number of chunks,
streams and faults and every set of PINs, the safety that `session` checks: type
correctness (`TypeCorrect`; the run checks it as a part of `IndInv`), each safety
invariant, the action property `VerifiedDataStable`, and that `Session`
implements `FileTransfer` (`Refinement`). The only assumption is
`SessionAssumption`, on the types of the constants: a file has at least one
chunk (`map_read` throws on an empty one) and there is at least one stream.

None of the properties is inductive alone. `CompletionSound` is the central one:
`processChunk` compares a *count* with `expectedChunks_` and concludes that
*every* chunk is there. That follows only if each counted task counts another
chunk. `IndInv` says why it does:

- `HandshakeInv`: the handshake is in one of four phases (unsent or under way,
  being processed, accepted, rejected), and each phase fixes what may exist: no
  chunk is sent before the acknowledgement, and no acknowledgement before the
  file is mapped. `NoChunkDropped`, `AckInBounds` and `WrongPinSendsNothing`
  come from it.
- `UniqueInv`: a chunk is in at most one place between its task on the sender
  and its task on the receiver.
- `SentInv`, `DataInv`, `CountInv`: the two counters are the cardinalities of
  the sets of chunks they are meant to count, and a chunk's bytes and bit are as
  far as its task. With finitely many chunks a counter equal to the total means
  all of them (`AllChunks`).
- `NoWriteAfterUnmap` then follows for `~Session`: the file is unmapped after
  `trans_complete_`, when every chunk has been counted, and a counted task has
  done its writes.

`HandshakeNext`, `UniqueNext`, `SentNext`, `DataNext`, `CountNext` and
`WriteNext` each show that `[Next]_vars` preserves one part, by cases on the
actions. `Refinement` maps `open`, `stored` and `complete` to a mapped view, the
chunks with verified bytes and `trans_complete_`; `FileStep` shows that every
step is a step of `FileTransfer` or a stutter.

`ThreadPoolProofs` proves, for every number of workers and tasks and a shutdown
at any moment, what `pool` checks of safety: `PermitsMatchTasks`,
`TakenOnceInOrder`, `ClosedMeansQuiet` and `NoWorkerStarves`. The assumption is
`ThreadPoolAssumption`, on the types of the constants. The hard part is that
queue and semaphore are never updated together, so what balances them is a
*count* of the workers between permit and task. `IndInv` adds to the properties:

- `RunInv`: a running worker's task was taken, is unfinished and nobody else's.
  Without it `finished = 1 .. submitted` would not mean that nobody runs.
- `CloseInv`: how far `shutdown` has got, and that the workers it has joined have
  left. `ClosedMeansQuiet` is its end.
- `IdleInv`: a pool that was idle when shut down stays idle, although `submit` is
  still called and workers are still woken. From that, every permit that a worker
  takes is one that makes it leave, and `NoWorkerStarves` counts permits against
  the workers that stay.

`TypeNext`, `OrderNext`, `CloseNext`, `PermitsNext`, `RunNext`, `IdleNext` and
`StarveNext` each show that `[Next]_vars` preserves one part.

`KcpLinkProofs` proves, for all windows, numbers of messages, losses, repetitions
and datagrams under way, the safety that `kcp_safety` checks: `WindowBounded`,
`AckedIsHeld` and the refinement of `ReliableStream` (`StreamRefinement`). The
assumptions are `KcpAssumption`, on the windows as `ikcp_wndsize` leaves them, and
`LinkAssumption`, on types. A critical section of the transport calls several
functions of ikcp.c, which leave an endpoint in states no other thread sees. The
parts of `IndInv` are therefore predicates on one endpoint, its peer and what is
under way, and each operator of `Kcp` has a lemma that it preserves them:

- `Sending` and `Receiving`: the queues are runs of the messages, on from what was
  moved or handed up, and every buffered segment has the message of its number.
- `Paired`: the peer has nothing that was not sent, acknowledges only what it
  holds, and holds all that is no longer in `snd_buf`. This is what makes
  forgetting safe, and `AckedIsHeld` follows from it.
- `From`: what a datagram says (an `una`, an acknowledgement, a message) was true
  when it was sent and cannot become false. Without it a copy that arrives late
  could acknowledge what nobody holds.

`DataPathProofs` proves, for files, chunks, pieces and segments of any size, any
number of streams and any number of values of a byte, every invariant of
`datapath`: `FramesIntact`, `CompletedIsCopied`, `CompleteIsWhole`,
`ProgressHonest` and `BitfieldFaithful`. The assumptions are `CodecAssumption` and
`DataPathAssumption`: types, the length bound above, and the one that the code
states at `max_send_size`, that a piece needs fewer segments than `IKCP_WND_RCV`.
That one is needed: `ikcp_send` has filled the last waiting segment before it
finds that the rest does not fit. Three parts make `IndInv`:

- `LinkInv`. `TaskOK` ties the place of a task to its mutex and to what it has
  sent, and `PushedOnce`, `HolderIsLast` and `HandedInOrder` order the tasks of a
  stream. `NoByteLost` is the equation that all rests on: the receiver's buffer,
  the segments under way, the queue and the rest of the frame being sent make
  together, in this order, the frames that were not handed up. Each action moves
  bytes over one border of that equation (`StreamLock`, `StreamSend`,
  `StreamFlush`, `StreamRead`, `StreamHandUp`). Since the buffer is a prefix of
  frames, its first four bytes are a length prefix, and `Digits` shows that the
  length read from them is the length written.
- `RecvInv`. A message is handed up once, so it is processed once; each completed
  chunk adds its region, apart from all others (`RegionFacts`), to the bytes that
  are right, and `chunks_recv_` is the cardinality of the completed chunks. So a
  counter that has reached its total means that every byte is there
  (`RegionsCover`, `CompletedIsWhole`).
- `ShowInv`. The sender's counters are the number of tasks past the first of them
  and the number of bytes of the chunks past the second (`ByteCounts`). A task
  reaches its counters only when KCP has its whole frame, so both are behind what
  KCP has taken (`GivenKnown`), which only grows (`GivenGrows`); what was shown
  stays below it, and 100, shown when the first counter is at its total, is right
  although bytes may be missing from the second. `ProgressHonest` is its last part.
  It needs `LinkInv`: a task leaves `sendChunk` only when its whole frame was taken.

What the pieces of a stream make is a relation there (`Joins`, stated with the
places of the cuts), not a recursive function: what a recursive definition
computes is out of this prover's reach.

`ApplicationProofs` proves, for any computers, names, files and number of
transfers, what `application` checks of safety: `GoneMeansQuiet`,
`WinsockOutlivesSockets` and `InactiveMeansReleased`. The assumptions are
`DiscoveryAssumption` and `ApplicationAssumption`: types, and that the loopback
address and "none" are no address of a computer. `IndInv` has `ObjectInv` (in
what order an object lets go of its sockets and threads), `LifeInv` (where an
object is in its life follows from where its owner's thread is), `WinsockInv`
(`winsock` is the number of objects and sockets that called `WSAStartup`) and
`FlagInv` (`is_active` is set from the button to the event that the worker posts
last). `WinsockOutlivesSockets` needs the second and the third,
`InactiveMeansReleased` all of them.

`ConnectionProofs` proves, for all windows, files, chunks and scenarios, the three
invariants of `connection_queue`: `AnswerIsForMe`, `PausesKeepFilesApart` and
`ReceivedInOrder`. The assumptions are `KcpAssumption` and `ConnectionAssumption`,
on types and windows. The invariant of `KcpLinkProofs` does not help here: it is
about two endpoints that know each other, and what arrives at a Session may come
from any sender there ever was. So nothing is assumed of what arrives but a set it
is in: `SndOK(k, O, n)` says that the `n` messages given to `k` are in `O`, and
`RcvOK(k, I, c)` that what `k` holds beyond the `c` messages read is in `I`, without
gaps. Each operator of `Kcp` has a lemma that it preserves both, for any `O` and
`I`; the invariants choose the sets:

- `BaseInv`, in every scenario. A sender's messages are the handshake and chunks of
  its file; a receiver's Session begins with the handshake of the file it opened
  (`Opened`), read or not, and may then hear chunks of any file. So it reads exactly
  one handshake and answers once.
- `PauseInv`, when the pauses suffice: `Apart`. Either sender and Session face each
  other (`Facing`), then the Session opened the sender's file and hears what the
  sender has given to KCP so far; or the sender has not been heard, and its
  handshake is all that it can say; or it is done and says nothing. What else is
  under way is for the Session that is there. The critical step is `ReceiverCloses`:
  a Session that has a whole file has read all that its sender was to send
  (`ReceiverReturned`, a count), and `Quiet` leaves nothing for the next Session.
- `EchoInv`, with it: what is under way to a sender was said by a Session that
  faces it, hence about its file. That is `AnswerIsForMe` with pauses that suffice.
- `WideInv`, without pauses: in a window that holds a file nobody is told that it is
  full, so a sender that has no answer has said nothing but its handshake, and a
  Session that answers to its port opened its file.
- `OrderInv`, with `PauseInv` and no drops: port and file go up together, and the
  receiver is at the sender's file or, while the sender waits, at the one before.

These proofs corrected the model. `Quiet` did not mention the window probes, and
`ReceivedInOrder` and `AnswerIsForMe` were stated without the conditions above, which
no instance that was checked before had met; TLC confirmed each counterexample.

The inductive invariants of `Session` and `ThreadPool` are checked by their runs
too. Those of `KcpLink`, `Connection` and `Application` are in the proof
modules, which no run uses; they were model-checked before they were proved. TLC
cannot evaluate `NoByteLost`, whose cuts are not enumerable; its consequences
are what `datapath` checks.

Only model-checked: all liveness, since the provers do not do fairness
(`Delivered`, `RejectedReturns`, `FaultContained`, `EveryTaskRuns`,
`ShutdownReturns`, `AllRead`, `AllAcked`, `QueueDelivered`, `SearchEnds`,
`ButtonComesBack`, `FileArrives`). Every invariant and every other action property
or refinement of a passing run is a theorem.

## What is not modelled

- **The contents of a STUN answer**: text for the status line. That the query
  takes a socket, gives it back on every path and ends in bounded time is in
  `Application`.
- **LZ4, AES-GCM, SHA-256 and CRC32 themselves**: library calls; the models have
  what goes in, the size that comes out and when they fail. A CRC32 collision is
  not modelled.
- **How `detect` chooses a strategy** (extension and entropy): either may be chosen
  for any file, and nothing else depends on it.
- **A PIN that is no number** (main.cpp:186): the exception leaves the event loop
  and ends the program, before there is a worker.
- **The receiver's bytes, speed and remaining time** (Metrics): the first is read by
  nobody, the others are floating-point rates over a clock, for display. **The texts and the layout of the UI**, the file dialog and the format
  of the history file.
- **KCP's clocks** (round-trip times, RTO, fast retransmission: any timer may have
  run out at any time), its congestion window, which `nocwnd` turns off, the
  packing of segments into datagrams, and the wrapping of sequence numbers.
- **FileMapper's handles**: that a view exists, its size and when it goes are in
  `Session`; the three Windows handles behind it are not.
- **Code that is never called**: `Manifest::save`, `load` and `is_complete`,
  `combine_crc32`, ZSTD, `get_stats`.

What is hard to test but has no property is under `hazards` in PROJECT.json with
a note: back-pressure looks at one of four streams (only memory depends on it);
the callback's dangling references (it is never called while the prefixes
differ); a Session that answers a question for room with a window too small for a
file (`AnswerIsForMe` states the condition that excludes it); the ports of the GI
mode.

## Plan

1. `FileMapper`: handles, the order of cleanup, and errors between two opens.
2. `Connection` with several streams: all four share one `remote_addr_`, and each has
   its own KCP object and mutex.
