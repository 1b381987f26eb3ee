-------------------------- MODULE ConnectionProofs --------------------------
(***************************************************************************)
(* Proofs about Connection, for all windows, queues, files and scenarios:  *)
(* what a Session may hear and say (BaseInv), why the pauses keep files    *)
(* apart and in order (PauseInv, OrderInv), and why an answer reaches the  *)
(* sender it is for, with pauses that suffice (EchoInv) and without        *)
(* (WideInv).                                                              *)
(*                                                                         *)
(* The two halves of an endpoint are predicates: SndOK(k, O, n) says that  *)
(* k was given n messages to send, which as segments are in O, and         *)
(* RcvOK(k, I, c) that c messages were read from k and that all it holds   *)
(* is in I.  Every operator of Kcp preserves them.                         *)
(***************************************************************************)
EXTENDS ConnectionProperties, BasicLemmas, FiniteSetTheorems, SequenceTheorems, TLAPS

------------------------------------------------------------------------------
(* Messages, segments and endpoints *)

Files == Nat \ {NoFile}

Messages ==
    [type : {"handshake"}, file : Files]
    \cup [type : {"chunkData"}, file : Files, chunk : Chunks]
    \cup [type : {"handshakeAck"}, file : Files, bits : SUBSET Chunks]

Stored == [sn : Nat, data : Messages]

EndType ==
    [snd_queue : Seq(Messages), snd_buf : SUBSET Stored, snd_una : Nat, snd_nxt : Nat,
     rmt_wnd : Nat, rcv_queue : Seq(Messages), rcv_buf : SUBSET Stored, rcv_nxt : Nat,
     acklist : SUBSET Nat, probe : SUBSET {"tell"}, probing : BOOLEAN,
     updated : BOOLEAN]

SegmentType ==
    [cmd : {"ack", "wask", "wins"}, sn : Nat, una : Nat, wnd : Nat]
    \cup [cmd : {"push"}, sn : Nat, una : Nat, wnd : Nat, data : Messages]

DatagramType == [port : Nat, seg : SegmentType]

\* The message of a segment that carries one, with its number.
Carried(m) == [sn |-> m.sn, data |-> m.data]

SndOK(k, O, n) ==
    /\ n = k.snd_nxt + Len(k.snd_queue)
    /\ \A i \in 1 .. Len(k.snd_queue) :
          [sn |-> k.snd_nxt + i - 1, data |-> k.snd_queue[i]] \in O
    /\ \A s \in k.snd_buf : s \in O /\ s.sn < k.snd_nxt
    /\ IsFiniteSet(k.snd_buf)

RcvOK(k, I, c) ==
    /\ k.rcv_nxt = c + Len(k.rcv_queue)
    /\ Len(k.rcv_queue) <= rcv_wnd
    /\ \A i \in 1 .. Len(k.rcv_queue) :
          [sn |-> c + i - 1, data |-> k.rcv_queue[i]] \in I
    /\ k.rcv_buf \subseteq I

\* A flush of k sends nothing but messages.
Silent(k) == k.rmt_wnd > 0 /\ k.acklist = {} /\ k.probe = {}

\* The handshake and the chunks of any file, those of file f, those of any file
\* with the handshake of f (of none when f is NoFile).
Outgoing ==
    {s \in Stored :
        s.sn <= NumChunks
        /\ s.data.type = IF s.sn = 0 THEN "handshake" ELSE "chunkData"}
OutgoingOf(f)   == {s \in Outgoing : s.data.file = f}
OutgoingFrom(f) == {s \in Outgoing : s.sn = 0 => s.data.file = f}

\* The one answer of a Session, and the answer to the handshake of f.
Answers ==
    {s \in Stored :
        s.sn = 0 /\ s.data.type = "handshakeAck" /\ s.data.bits = {}}
AnswersOf(f) == {s \in Answers : s.data.file = f}

------------------------------------------------------------------------------
(* What holds in every scenario *)

Alive == sPc # "idle"
Bound == rPc # "unbound"

\* Messages the sender's Session gave to KCP, messages the receiver's Session read.
GivenCount == IF sPc = "waitAck" THEN 1 ELSE 1 + NumChunks - Cardinality(todo)
ReadCount  == IF claimed = NoFile THEN 0 ELSE 1 + chunks_recv_

\* Messages read from k.
Taken(k) == k.rcv_nxt - Len(k.rcv_queue)

\* The file whose handshake came first in the receiver's Session, read or not.
OpenedOf(k, f) ==
    IF f # NoFile THEN f ELSE IF k.rcv_queue # <<>> THEN k.rcv_queue[1].file ELSE NoFile
Opened == OpenedOf(rKcp, claimed)

TypeInv ==
    /\ sPc \in {"idle", "waitAck", "sending", "returned"}
    /\ rPc \in {"unbound", "listening", "returned"}
    /\ file \in Files /\ port \in Nat /\ todo \in SUBSET Chunks
    /\ remote \in 0 .. port /\ claimed \in Nat
    /\ got \in [Chunks -> Nat] /\ chunks_recv_ \in Nat
    /\ received \in Seq(Nat) /\ drops \in Nat
    /\ sKcp \in EndType /\ rKcp \in EndType
    /\ toReceiver \in SUBSET DatagramType /\ toSender \in SUBSET DatagramType
    /\ scenario \in Scenarios

SenderBase ==
    Alive =>
       /\ port > 0
       /\ SndOK(sKcp, OutgoingOf(file), GivenCount)
       /\ Taken(sKcp) \in Nat /\ RcvOK(sKcp, Answers, Taken(sKcp))
       /\ Taken(sKcp) = IF sPc = "waitAck" THEN 0 ELSE 1
       /\ sPc = "waitAck" => todo = Chunks
       /\ sPc = "returned" => todo = {}

ReceiverBase ==
    Bound =>
       /\ SndOK(rKcp, AnswersOf(Opened), IF claimed = NoFile THEN 0 ELSE 1)
       /\ RcvOK(rKcp, OutgoingFrom(Opened), ReadCount)
       /\ claimed = NoFile =>
             chunks_recv_ = 0 /\ \A c \in Chunks : got[c] = NoFile
       /\ remote = NoPort =>
             /\ rPc = "listening" /\ claimed = NoFile
             /\ rKcp.rcv_queue = <<>> /\ rKcp.rcv_buf = {} /\ Silent(rKcp)
       /\ rPc = "returned" => claimed # NoFile /\ chunks_recv_ >= NumChunks

NetBase ==
    /\ \A d \in toReceiver :
          /\ d.port \in 1 .. port
          /\ d.seg.cmd = "push" =>
                /\ Carried(d.seg) \in Outgoing
                /\ d.seg.sn = 0 /\ Alive /\ d.port = port => d.seg.data.file = file
    /\ \A d \in toSender :
          d.port \in 1 .. port /\ (d.seg.cmd = "push" => Carried(d.seg) \in Answers)

BaseInv == TypeInv /\ SenderBase /\ ReceiverBase /\ NetBase

------------------------------------------------------------------------------
(* When a window holds a file *)

Roomy(k) == k.rmt_wnd > 0 /\ k.probe = {}

\* The sender waits for an answer and has none.
Waiting == sPc = "waitAck" /\ sKcp.rcv_nxt = 0

\* Nobody is ever told of a full window.
RoomInv ==
    /\ Alive => Roomy(sKcp)
    /\ Bound => Roomy(rKcp)
    /\ \A d \in toReceiver \cup toSender : d.seg.cmd \in {"ack", "push"} /\ d.seg.wnd > 0

\* Until it is answered a sender is heard from by its handshake alone, so the
\* Session that answers to its port opened its file.
AnswerInv ==
    /\ sPc = "waitAck" => RcvOK(sKcp, AnswersOf(file), 0)
    /\ Waiting =>
          /\ sKcp.acklist = {}
          /\ \A d \in toReceiver :
                d.port = port => d.seg.cmd = "push" /\ d.seg.sn = 0
          /\ \A d \in toSender :
                d.port = port /\ d.seg.cmd = "push" => d.seg.data.file = file
          /\ Bound /\ remote = port => Opened = file

WideInv == rcv_wnd > NumChunks + 1 => RoomInv /\ AnswerInv

------------------------------------------------------------------------------
(* When the pauses suffice *)

\* The receiver's Session and the sender's are one another's peer.
Heard  == Bound /\ remote # NoPort
Facing == Heard /\ Alive /\ remote = port

\* What the receiver's Session may hear of its file: what its sender gave to KCP
\* so far.
Limit    == IF Alive /\ remote = port THEN GivenCount ELSE NumChunks + 1
Incoming == {s \in OutgoingOf(Opened) : s.sn < Limit}

\* A sender that faces no Session has either not been heard, or is done and
\* will not be heard again.
ApartInv ==
    Alive /\ ~Facing =>
       /\ Silent(sKcp)
       /\ \A d \in toSender : d.port # port
       /\ sPc = "waitAck" => sKcp.rcv_queue = <<>>
       /\ sPc # "waitAck" =>
             /\ todo = {} /\ sKcp.snd_buf = {} /\ sKcp.snd_queue = <<>>
             /\ \A d \in toReceiver : d.port # port

FacingInv ==
    /\ Facing => sKcp.acklist = {} /\ sKcp.updated /\ Opened = file
    /\ Alive /\ (\E d \in toReceiver : d.port = port) => sKcp.updated

\* All that is under way but first handshakes is for the Session that is there.
HearingInv ==
    /\ \A d \in toReceiver :
          \/ d.seg.cmd = "push" /\ d.seg.sn = 0
          \/ /\ Heard /\ d.port = remote
             /\ d.seg.cmd = "push" => Carried(d.seg) \in Incoming
    /\ Heard =>
          Opened # NoFile /\ RcvOK(rKcp, Incoming, ReadCount) /\ ReadCount <= Limit

Apart == ApartInv /\ FacingInv /\ HearingInv /\ FilesNotMixed

PauseInv == scenario.pauseSuffices => Apart

\* What is said to the sender is said by the Session that faces it.
Echoes ==
    Alive =>
       /\ \A d \in toSender :
             d.port = port /\ d.seg.cmd = "push" => d.seg.data.file = file
       /\ sPc = "waitAck" => RcvOK(sKcp, AnswersOf(file), 0)

EchoInv == scenario.pauseSuffices => Echoes

\* The file of the receiver's Session.
Current == IF rPc = "returned" THEN Len(received) ELSE Len(received) + 1

\* Every file is sent once, and the receiver is at the sender's file or at the
\* one before it.
InOrder ==
    /\ drops = 0
    /\ file = IF Alive THEN port ELSE port + 1
    /\ \A d \in toReceiver : Alive /\ d.port = port
    /\ received = [i \in 1 .. Len(received) |-> i]
    /\ Heard => /\ remote = Current /\ Opened = Current
                /\ port \in {Current, Current + 1}
                /\ port = Current + 1 => sPc = "waitAck"
    /\ ~Heard => /\ port \in {Len(received), Len(received) + 1}
                 /\ port = Len(received) + 1 <=> sPc = "waitAck"

Orderly == scenario.pauseSuffices /\ scenario.maxDrops = 0

OrderInv == Orderly => InOrder

------------------------------------------------------------------------------
(* Types *)

\* The fields of a message.
LEMMA MessageFields ==
    ASSUME NEW m \in Messages
    PROVE  /\ m.file \in Files /\ m.file \in Nat /\ m.file # NoFile
           /\ m.type \in {"handshake", "chunkData", "handshakeAck"}
           /\ m.type = "chunkData" => m.chunk \in Chunks
           /\ m.type = "handshakeAck" => m.bits \in SUBSET Chunks
  BY DEF Messages, Files

\* The messages of the protocol are messages.
LEMMA MessagesMade ==
    ASSUME NEW f \in Files
    PROVE  /\ Handshake(f) \in Messages
           /\ \A c \in Chunks : ChunkData(f, c) \in Messages
           /\ \A b \in SUBSET Chunks : Ack(f, b) \in Messages
  BY DEF Messages, Handshake, ChunkData, Ack

\* The fields of an endpoint, and those of the window.
LEMMA EndFields ==
    ASSUME NEW k \in EndType
    PROVE  /\ k.snd_queue \in Seq(Messages) /\ Len(k.snd_queue) \in Nat
           /\ k.rcv_queue \in Seq(Messages) /\ Len(k.rcv_queue) \in Nat
           /\ k.snd_buf \in SUBSET Stored /\ k.rcv_buf \in SUBSET Stored
           /\ k.snd_una \in Nat /\ k.snd_nxt \in Nat /\ k.rmt_wnd \in Nat
           /\ k.rcv_nxt \in Nat /\ k.acklist \in SUBSET Nat
           /\ k.probe \in SUBSET {"tell"} /\ k.updated \in BOOLEAN
           /\ snd_wnd \in Nat /\ rcv_wnd \in Nat /\ rcv_wnd > 0
<1>1. k.snd_queue \in Seq(Messages) /\ k.rcv_queue \in Seq(Messages)
  BY DEF EndType
<1>2. Len(k.snd_queue) \in Nat /\ Len(k.rcv_queue) \in Nat
  BY <1>1
<1>3. k.snd_buf \in SUBSET Stored /\ k.rcv_buf \in SUBSET Stored
      /\ k.snd_una \in Nat /\ k.snd_nxt \in Nat /\ k.rmt_wnd \in Nat
      /\ k.rcv_nxt \in Nat /\ k.acklist \in SUBSET Nat
      /\ k.probe \in SUBSET {"tell"} /\ k.updated \in BOOLEAN
  BY DEF EndType
<1> QED  BY <1>1, <1>2, <1>3, KcpAssumption

\* The fields of a segment.
LEMMA SegmentFields ==
    ASSUME NEW m \in SegmentType
    PROVE  /\ m.cmd \in {"ack", "push", "wask", "wins"}
           /\ m.sn \in Nat /\ m.una \in Nat /\ m.wnd \in Nat
           /\ m.cmd = "push" => m.data \in Messages /\ Carried(m) \in Stored
  BY DEF SegmentType, Carried, Stored

------------------------------------------------------------------------------
(* Receiving *)

\* k1 is k as far as sending is concerned.
SameSending(k, k1) ==
    /\ k1.snd_queue = k.snd_queue /\ k1.snd_buf = k.snd_buf /\ k1.snd_nxt = k.snd_nxt
    /\ k1.rmt_wnd = k.rmt_wnd /\ k1.updated = k.updated

\* k1 has received what k has, and perhaps more.
Extends(k, k1) ==
    /\ k.rcv_nxt <= k1.rcv_nxt
    /\ Len(k.rcv_queue) <= Len(k1.rcv_queue)
    /\ \A i \in 1 .. Len(k.rcv_queue) : k1.rcv_queue[i] = k.rcv_queue[i]

\* How many segments are next in line, and that they are all there.
LEMMA AvailableBound ==
    ASSUME NEW k \in EndType, Len(k.rcv_queue) <= rcv_wnd
    PROVE  /\ Available(k) \in 0 .. rcv_wnd - Len(k.rcv_queue)
           /\ k.rcv_nxt .. k.rcv_nxt + Available(k) - 1 \subseteq Sns(k.rcv_buf)
           /\ k.rcv_nxt \in Sns(k.rcv_buf) /\ Len(k.rcv_queue) < rcv_wnd
                 => Available(k) > 0
<1> DEFINE S == {n \in 0 .. rcv_wnd - Len(k.rcv_queue) :
                   k.rcv_nxt .. k.rcv_nxt + n - 1 \subseteq Sns(k.rcv_buf)}
<1>1. k.rcv_nxt \in Nat /\ Len(k.rcv_queue) \in Nat /\ rcv_wnd \in Nat
  BY EndFields
<1>2. rcv_wnd - Len(k.rcv_queue) \in Nat
  BY <1>1
<1>3. 0 \in S
  <2>1. k.rcv_nxt .. k.rcv_nxt + 0 - 1 = {}
    BY <1>1
  <2> QED  BY <1>2, <2>1
<1>4. Max(S) \in S /\ \A y \in S : y <= Max(S)
  BY <1>2, <1>3, MaxOfBounded
<1>5. ASSUME k.rcv_nxt \in Sns(k.rcv_buf), Len(k.rcv_queue) < rcv_wnd PROVE 1 \in S
  <2>1. k.rcv_nxt .. k.rcv_nxt + 1 - 1 = {k.rcv_nxt}
    BY <1>1
  <2>2. 1 \in 0 .. rcv_wnd - Len(k.rcv_queue)
    BY <1>1, <1>5
  <2> QED  BY <1>5, <2>1, <2>2
<1>6. Available(k) = Max(S)
  BY DEF Available
<1> HIDE DEF S
<1>7. Max(S) \in 0 .. rcv_wnd - Len(k.rcv_queue)
      /\ k.rcv_nxt .. k.rcv_nxt + Max(S) - 1 \subseteq Sns(k.rcv_buf)
  BY <1>4 DEF S
<1> QED  BY <1>2, <1>4, <1>5, <1>6, <1>7

\* The segments that follow one another in rcv_buf are those that follow the
\* messages in rcv_queue.
LEMMA MoveOK ==
    ASSUME NEW k \in EndType, NEW I \in SUBSET Stored, NEW c \in Nat, RcvOK(k, I, c)
    PROVE  LET k1 == MoveAvailable(k)
           IN  /\ k1 \in EndType /\ RcvOK(k1, I, c) /\ Extends(k, k1) /\ SameSending(k, k1)
               /\ k1.acklist = k.acklist /\ k1.probe = k.probe
               /\ k.rcv_nxt \in Sns(k.rcv_buf) /\ Len(k.rcv_queue) < rcv_wnd
                     => k.rcv_nxt < k1.rcv_nxt
<1> DEFINE n == Available(k)
           DataOf(sn) == (CHOOSE s \in k.rcv_buf : s.sn = sn).data
           F == [i \in 1 .. n |-> DataOf(k.rcv_nxt + i - 1)]
           k1 == MoveAvailable(k)
           L == Len(k.rcv_queue)
<1>1. /\ k.rcv_nxt \in Nat /\ k.rcv_queue \in Seq(Messages) /\ k.rcv_buf \in SUBSET Stored
      /\ L \in Nat /\ rcv_wnd \in Nat
  BY EndFields
<1>2. /\ k.rcv_nxt = c + L /\ L <= rcv_wnd /\ k.rcv_buf \subseteq I
      /\ \A i \in 1 .. L : [sn |-> c + i - 1, data |-> k.rcv_queue[i]] \in I
  BY DEF RcvOK
<1>3. /\ n \in Nat /\ n <= rcv_wnd - L
      /\ k.rcv_nxt .. k.rcv_nxt + n - 1 \subseteq Sns(k.rcv_buf)
      /\ k.rcv_nxt \in Sns(k.rcv_buf) /\ L < rcv_wnd => n > 0
  <2>1. n \in 0 .. rcv_wnd - L
    BY <1>2, AvailableBound
  <2> QED  BY <1>1, <1>2, <2>1, AvailableBound
<1> HIDE DEF n, L
<1>4. \A i \in 1 .. n : /\ DataOf(k.rcv_nxt + i - 1) \in Messages
                        /\ [sn |-> k.rcv_nxt + i - 1, data |-> DataOf(k.rcv_nxt + i - 1)] \in I
  <2> SUFFICES ASSUME NEW i \in 1 .. n
               PROVE  /\ DataOf(k.rcv_nxt + i - 1) \in Messages
                      /\ [sn |-> k.rcv_nxt + i - 1, data |-> DataOf(k.rcv_nxt + i - 1)] \in I
    OBVIOUS
  <2>1. k.rcv_nxt + i - 1 \in k.rcv_nxt .. k.rcv_nxt + n - 1
    BY <1>1, <1>3
  <2>2. \E s \in k.rcv_buf : s.sn = k.rcv_nxt + i - 1
    BY <1>3, <2>1 DEF Sns
  <2>3. PICK s \in k.rcv_buf :
           /\ s.sn = k.rcv_nxt + i - 1
           /\ s = CHOOSE t \in k.rcv_buf : t.sn = k.rcv_nxt + i - 1
    BY <2>2
  <2>4. s \in Stored /\ s \in I
    BY <1>1, <1>2
  <2>5. s = [sn |-> s.sn, data |-> s.data] /\ s.data \in Messages
    BY <2>4 DEF Stored
  <2>6. DataOf(k.rcv_nxt + i - 1) = s.data
    BY <2>3
  <2> QED  BY <2>3, <2>4, <2>5, <2>6
<1>5. F \in Seq(Messages) /\ Len(F) = n
      /\ \A i \in 1 .. n : [sn |-> k.rcv_nxt + i - 1, data |-> F[i]] \in I
  <2>1. F \in [1 .. n -> Messages] /\ \A i \in 1 .. n : F[i] = DataOf(k.rcv_nxt + i - 1)
    BY <1>4
  <2> QED  BY <1>3, <1>4, <2>1
<1> HIDE DEF F, DataOf
<1> DEFINE Q == k.rcv_queue \o F
           B == {s \in k.rcv_buf : s.sn >= k.rcv_nxt + n}
           x == k.rcv_nxt + n
<1>6. /\ Q \in Seq(Messages) /\ Len(Q) = L + n
      /\ \A i \in 1 .. L + n : Q[i] = IF i <= L THEN k.rcv_queue[i] ELSE F[i - L]
  BY <1>1, <1>5, ConcatProperties DEF L
<1>7. k1 = [k EXCEPT !.rcv_queue = Q, !.rcv_buf = B, !.rcv_nxt = x]
  BY DEF MoveAvailable, F, DataOf, n
<1>8. B \in SUBSET Stored /\ x \in Nat /\ B \subseteq I
  BY <1>1, <1>2, <1>3
<1> HIDE DEF k1, Q, B, x
<1>9. /\ k1 \in EndType /\ SameSending(k, k1)
      /\ k1.rcv_queue = Q /\ k1.rcv_buf = B /\ k1.rcv_nxt = x
      /\ k1.acklist = k.acklist /\ k1.probe = k.probe
  <2>1. Q \in Seq(Messages)
    BY <1>6
  <2> QED  BY <1>7, <1>8, <2>1 DEF EndType, SameSending
<1>10. RcvOK(k1, I, c)
  <2>1. x = c + Len(Q) /\ Len(Q) <= rcv_wnd
    BY <1>1, <1>2, <1>3, <1>6 DEF x
  <2>2. ASSUME NEW i \in 1 .. Len(Q) PROVE [sn |-> c + i - 1, data |-> Q[i]] \in I
    <3>1. CASE i <= L
      <4>1. i \in 1 .. L /\ Q[i] = k.rcv_queue[i]
        BY <1>1, <1>6, <3>1
      <4> QED  BY <1>2, <4>1
    <3>2. CASE ~(i <= L)
      <4>1. i - L \in 1 .. n /\ Q[i] = F[i - L] /\ k.rcv_nxt + (i - L) - 1 = c + i - 1
        BY <1>1, <1>2, <1>3, <1>6, <3>2
      <4> QED  BY <1>5, <4>1
    <3> QED  BY <3>1, <3>2
  <2> QED  BY <1>8, <1>9, <2>1, <2>2 DEF RcvOK
<1>11. Extends(k, k1)
  <2>1. \A i \in 1 .. L : Q[i] = k.rcv_queue[i]
    BY <1>1, <1>3, <1>6
  <2>2. k.rcv_nxt <= x /\ L <= Len(Q)
    BY <1>1, <1>3, <1>6 DEF x
  <2> QED  BY <1>9, <2>1, <2>2 DEF Extends, L
<1>12. k.rcv_nxt \in Sns(k.rcv_buf) /\ Len(k.rcv_queue) < rcv_wnd => k.rcv_nxt < k1.rcv_nxt
  BY <1>1, <1>3, <1>9 DEF x, L
<1> QED  BY <1>9, <1>10, <1>11, <1>12 DEF k1

\* What was received is the same in k1 as in k.
SameReceiving(k, k1) ==
    k1.rcv_queue = k.rcv_queue /\ k1.rcv_buf = k.rcv_buf /\ k1.rcv_nxt = k.rcv_nxt

\* The window of the peer and what is to be said of one's own are the same.
SameWindows(k, k1) ==
    k1.rmt_wnd = k.rmt_wnd /\ k1.acklist = k.acklist /\ k1.probe = k.probe

\* RcvOK is about what was received, SndOK about what is to be sent.
LEMMA SameOK ==
    ASSUME NEW k, NEW k1
    PROVE  /\ \A I, c : SameReceiving(k, k1) /\ RcvOK(k, I, c) => RcvOK(k1, I, c)
           /\ \A O, n : SameSending(k, k1) /\ SndOK(k, O, n) => SndOK(k1, O, n)
  BY DEF SameReceiving, SameSending, RcvOK, SndOK

\* ikcp_create
LEMMA CreateOK ==
    /\ ikcp_create \in EndType /\ Silent(ikcp_create)
    /\ \A O : SndOK(ikcp_create, O, 0)
    /\ \A I : RcvOK(ikcp_create, I, 0)
    /\ ikcp_create.rcv_queue = <<>> /\ ikcp_create.rcv_buf = {}
    /\ ikcp_create.rcv_nxt = 0 /\ ~ikcp_create.updated
<1> DEFINE k == ikcp_create
<1>1. IKCP_WND_RCV \in Nat /\ IKCP_WND_RCV > 0 /\ rcv_wnd \in Nat
  BY KcpAssumption
<1>2. /\ k.snd_queue = <<>> /\ k.snd_buf = {} /\ k.snd_nxt = 0 /\ k.rmt_wnd = IKCP_WND_RCV
      /\ k.rcv_queue = <<>> /\ k.rcv_buf = {} /\ k.rcv_nxt = 0
      /\ k.acklist = {} /\ k.probe = {} /\ ~k.updated
  BY DEF ikcp_create
<1>3. <<>> \in Seq(Messages) /\ {} \in SUBSET Stored
  OBVIOUS
<1>4. k \in EndType
  BY <1>1, <1>3 DEF ikcp_create, EndType
<1>5. Len(<<>>) = 0 /\ IsFiniteSet({})
  BY FS_EmptySet
<1> HIDE DEF k
<1>6. \A O : SndOK(k, O, 0)
  BY <1>2, <1>5 DEF SndOK
<1>7. \A I : RcvOK(k, I, 0)
  BY <1>1, <1>2, <1>5 DEF RcvOK
<1> QED  BY <1>1, <1>2, <1>4, <1>6, <1>7 DEF k, Silent

\* ikcp_send
LEMMA SendOK ==
    ASSUME NEW k \in EndType, NEW O, NEW n \in Nat, SndOK(k, O, n),
           NEW x \in Messages, [sn |-> n, data |-> x] \in O
    PROVE  LET k1 == ikcp_send(k, x)
           IN  /\ k1 \in EndType /\ SndOK(k1, O, n + 1)
               /\ SameReceiving(k, k1) /\ SameWindows(k, k1) /\ k1.updated = k.updated
<1> DEFINE q == Append(k.snd_queue, x)
           k1 == ikcp_send(k, x)
           L == Len(k.snd_queue)
<1>1. k.snd_queue \in Seq(Messages) /\ L \in Nat /\ k.snd_nxt \in Nat
  BY EndFields
<1>2. /\ n = k.snd_nxt + L
      /\ \A i \in 1 .. L : [sn |-> k.snd_nxt + i - 1, data |-> k.snd_queue[i]] \in O
      /\ \A s \in k.snd_buf : s \in O /\ s.sn < k.snd_nxt
      /\ IsFiniteSet(k.snd_buf)
  BY DEF SndOK
<1>3. q \in Seq(Messages) /\ Len(q) = L + 1
      /\ (\A i \in 1 .. L : q[i] = k.snd_queue[i]) /\ q[L + 1] = x
  BY <1>1, AppendProperties
<1>4. k1 = [k EXCEPT !.snd_queue = q]
  BY DEF ikcp_send
<1> HIDE DEF q, L, k1
<1>5. /\ k1 \in EndType /\ k1.snd_queue = q /\ k1.snd_nxt = k.snd_nxt /\ k1.snd_buf = k.snd_buf
      /\ SameReceiving(k, k1) /\ SameWindows(k, k1) /\ k1.updated = k.updated
  <2>1. q \in Seq(Messages)
    BY <1>3
  <2> QED  BY <1>4, <2>1 DEF EndType, SameReceiving, SameWindows
<1>6. ASSUME NEW i \in 1 .. L + 1 PROVE [sn |-> k.snd_nxt + i - 1, data |-> q[i]] \in O
  <2>1. CASE i \in 1 .. L
    <3>1. q[i] = k.snd_queue[i]
      BY <1>3, <2>1
    <3> QED  BY <1>2, <2>1, <3>1
  <2>2. CASE i = L + 1
    <3>1. k.snd_nxt + i - 1 = n /\ q[i] = x
      BY <1>1, <1>2, <1>3, <2>2
    <3> QED  BY <3>1
  <2> QED  BY <1>1, <2>1, <2>2
<1>7. n + 1 = k.snd_nxt + (L + 1)
  BY <1>1, <1>2
<1>8. SndOK(k1, O, n + 1)
  BY <1>2, <1>3, <1>5, <1>6, <1>7 DEF SndOK
<1> QED  BY <1>5, <1>8 DEF k1

\* ikcp_update
LEMMA UpdateOK ==
    ASSUME NEW k \in EndType
    PROVE  LET k1 == ikcp_update(k)
           IN  /\ k1 \in EndType /\ k1.updated
               /\ SameReceiving(k, k1) /\ SameWindows(k, k1)
               /\ k1.snd_queue = k.snd_queue /\ k1.snd_buf = k.snd_buf
               /\ \A O, n : SndOK(k, O, n) => SndOK(k1, O, n)
<1> DEFINE k1 == ikcp_update(k)
<1>1. /\ k1 \in EndType /\ k1.updated /\ SameReceiving(k, k1) /\ SameWindows(k, k1)
      /\ k1.snd_queue = k.snd_queue /\ k1.snd_buf = k.snd_buf /\ k1.snd_nxt = k.snd_nxt
  BY DEF ikcp_update, EndType, SameReceiving, SameWindows
<1>2. \A O, n : SndOK(k, O, n) => SndOK(k1, O, n)
  BY <1>1 DEF SndOK
<1> QED  BY <1>1, <1>2

\* ikcp_recv
LEMMA RecvOK ==
    ASSUME NEW k \in EndType, NEW I \in SUBSET Stored, NEW c \in Nat, RcvOK(k, I, c),
           k.rcv_queue # <<>>
    PROVE  LET k1 == ikcp_recv(k)
           IN  /\ [sn |-> c, data |-> Head(k.rcv_queue)] \in I
               /\ Head(k.rcv_queue) = k.rcv_queue[1]
               /\ k1 \in EndType /\ RcvOK(k1, I, c + 1) /\ SameSending(k, k1)
               /\ k1.acklist = k.acklist /\ k.rcv_nxt <= k1.rcv_nxt
               /\ Len(k.rcv_queue) < rcv_wnd => k1.probe = k.probe
<1> DEFINE q == Tail(k.rcv_queue)
           L == Len(k.rcv_queue)
           k1 == [k EXCEPT !.rcv_queue = q]
           k2 == MoveAvailable(k1)
           p == k2.probe \cup {"tell"}
           k3 == [k2 EXCEPT !.probe = p]
<1>1. k.rcv_queue \in Seq(Messages) /\ L \in Nat /\ k.rcv_nxt \in Nat /\ rcv_wnd \in Nat
  BY EndFields
<1>2. /\ k.rcv_nxt = c + L /\ L <= rcv_wnd /\ k.rcv_buf \subseteq I
      /\ \A i \in 1 .. L : [sn |-> c + i - 1, data |-> k.rcv_queue[i]] \in I
  BY DEF RcvOK
<1>3. L > 0 /\ Head(k.rcv_queue) = k.rcv_queue[1]
  BY <1>1, EmptySeq
<1>4. q \in Seq(Messages) /\ Len(q) = L - 1 /\ \A i \in 1 .. L - 1 : q[i] = k.rcv_queue[i + 1]
  BY <1>1, HeadTailProperties
<1> HIDE DEF q, L
<1>5. /\ k1 \in EndType /\ SameSending(k, k1) /\ k1.acklist = k.acklist
      /\ k1.rcv_queue = q /\ k1.rcv_buf = k.rcv_buf /\ k1.rcv_nxt = k.rcv_nxt
      /\ k1.probe = k.probe
  <2>1. q \in Seq(Messages)
    BY <1>4
  <2> QED  BY <2>1 DEF EndType, SameSending
<1> HIDE DEF k1
<1>6. [sn |-> c, data |-> Head(k.rcv_queue)] \in I
  <2>1. 1 \in 1 .. L /\ c + 1 - 1 = c
    BY <1>1, <1>3
  <2> QED  BY <1>2, <1>3, <2>1
<1>7. RcvOK(k1, I, c + 1)
  <2>1. k.rcv_nxt = (c + 1) + Len(q) /\ Len(q) <= rcv_wnd
    BY <1>1, <1>2, <1>4
  <2>2. ASSUME NEW i \in 1 .. Len(q) PROVE [sn |-> (c + 1) + i - 1, data |-> q[i]] \in I
    <3>1. i + 1 \in 1 .. L /\ q[i] = k.rcv_queue[i + 1] /\ c + (i + 1) - 1 = (c + 1) + i - 1
      BY <1>1, <1>4
    <3> QED  BY <1>2, <3>1
  <2> QED  BY <1>2, <1>5, <2>1, <2>2 DEF RcvOK
<1>8. /\ k2 \in EndType /\ RcvOK(k2, I, c + 1) /\ Extends(k1, k2) /\ SameSending(k1, k2)
      /\ k2.acklist = k1.acklist /\ k2.probe = k1.probe
  <2>1. c + 1 \in Nat
    OBVIOUS
  <2> QED  BY <1>5, <1>7, <2>1, MoveOK
<1> HIDE DEF k2
<1>9. p \in SUBSET {"tell"}
  BY <1>8, EndFields
<1> HIDE DEF p
<1>10. /\ k3 \in EndType /\ SameReceiving(k2, k3) /\ SameSending(k2, k3)
       /\ k3.acklist = k2.acklist
  BY <1>8, <1>9 DEF EndType, SameReceiving, SameSending
<1> HIDE DEF k3
<1>11. RcvOK(k3, I, c + 1)
  BY <1>8, <1>10, SameOK
<1>12. ikcp_recv(k) = k2 \/ (ikcp_recv(k) = k3 /\ L >= rcv_wnd)
  BY DEF ikcp_recv, k1, k2, k3, q, p, L
<1>13. /\ SameSending(k, k2) /\ SameSending(k, k3)
       /\ k.rcv_nxt <= k2.rcv_nxt /\ k.rcv_nxt <= k3.rcv_nxt
  BY <1>5, <1>8, <1>10 DEF SameSending, Extends, SameReceiving
<1>14. L < rcv_wnd => ikcp_recv(k) = k2
  BY <1>1, <1>12
<1> QED  BY <1>3, <1>5, <1>6, <1>8, <1>10, <1>11, <1>12, <1>13, <1>14 DEF L

------------------------------------------------------------------------------
(* Input *)

\* k1 is k without some segments of snd_buf.
Trimmed(k, k1) ==
    /\ k1 \in EndType /\ SameReceiving(k, k1)
    /\ k1.acklist = k.acklist /\ k1.probe = k.probe /\ k1.updated = k.updated
    /\ k1.snd_queue = k.snd_queue /\ k1.snd_nxt = k.snd_nxt /\ k1.snd_buf \subseteq k.snd_buf

\* k1 is k after the input of segment m.
Fed(k, m, k1) ==
    /\ k1 \in EndType /\ Extends(k, k1)
    /\ k1.snd_queue = k.snd_queue /\ k1.snd_nxt = k.snd_nxt /\ k1.snd_buf \subseteq k.snd_buf
    /\ k1.rmt_wnd = m.wnd /\ k1.updated = k.updated
    /\ m.cmd # "wask" => k1.probe = k.probe
    /\ m.cmd # "push" => SameReceiving(k, k1) /\ k1.acklist = k.acklist
    /\ m.cmd = "push" /\ m.sn = k.rcv_nxt /\ Len(k.rcv_queue) < rcv_wnd
          => k.rcv_nxt < k1.rcv_nxt

\* ikcp_shrink_buf
LEMMA ShrinkOK ==
    ASSUME NEW k \in EndType
    PROVE  Trimmed(k, ikcp_shrink_buf(k)) /\ ikcp_shrink_buf(k).rmt_wnd = k.rmt_wnd
<1> DEFINE u == IF k.snd_buf = {} THEN k.snd_nxt ELSE Min(Sns(k.snd_buf))
<1>1. k.snd_buf \in SUBSET Stored /\ k.snd_nxt \in Nat
  BY EndFields
<1>2. u \in Nat
  <2>1. CASE k.snd_buf = {}
    BY <1>1, <2>1
  <2>2. CASE k.snd_buf # {}
    <3>1. Sns(k.snd_buf) \in SUBSET Nat /\ Sns(k.snd_buf) # {}
      BY <1>1, <2>2 DEF Sns, Stored
    <3>2. Min(Sns(k.snd_buf)) \in Nat
      BY <3>1, MinOfNats
    <3> QED  BY <2>2, <3>2
  <2> QED  BY <2>1, <2>2
<1>3. ikcp_shrink_buf(k) = [k EXCEPT !.snd_una = u]
  BY DEF ikcp_shrink_buf
<1> HIDE DEF u
<1> QED  BY <1>2, <1>3 DEF Trimmed, SameReceiving, EndType

\* Trimming twice is trimming.
LEMMA TrimmedTwice ==
    ASSUME NEW k, NEW k1, NEW k2, Trimmed(k, k1), Trimmed(k1, k2)
    PROVE  Trimmed(k, k2)
  BY DEF Trimmed, SameReceiving

\* The window and una of a segment: ikcp_parse_una, ikcp_shrink_buf.
LEMMA HeardOK ==
    ASSUME NEW k \in EndType, NEW w \in Nat, NEW una \in Nat
    PROVE  LET k1 == ikcp_shrink_buf(ikcp_parse_una([k EXCEPT !.rmt_wnd = w], una))
           IN  Trimmed(k, k1) /\ k1.rmt_wnd = w
<1> DEFINE b == {s \in k.snd_buf : s.sn >= una}
           k1 == ikcp_parse_una([k EXCEPT !.rmt_wnd = w], una)
           k2 == ikcp_shrink_buf(k1)
<1>1. b \in SUBSET k.snd_buf /\ b \in SUBSET Stored
  BY EndFields
<1>2. k1 = [[k EXCEPT !.rmt_wnd = w] EXCEPT !.snd_buf = b]
  <2>1. [k EXCEPT !.rmt_wnd = w].snd_buf = k.snd_buf
    BY DEF EndType
  <2> QED  BY <2>1 DEF ikcp_parse_una
<1> HIDE DEF k1, b
<1>3. Trimmed(k, k1) /\ k1 \in EndType /\ k1.rmt_wnd = w
  BY <1>1, <1>2 DEF Trimmed, SameReceiving, EndType
<1>4. Trimmed(k1, k2) /\ k2.rmt_wnd = w
  BY <1>3, ShrinkOK
<1> HIDE DEF k2
<1>5. Trimmed(k, k2)
  BY <1>3, <1>4, TrimmedTwice
<1> QED  BY <1>4, <1>5 DEF k1, k2

\* An acknowledgement: ikcp_parse_ack, ikcp_shrink_buf.
LEMMA AckOK ==
    ASSUME NEW k \in EndType, NEW sn \in Nat
    PROVE  LET k1 == ikcp_shrink_buf(ikcp_parse_ack(k, sn))
           IN  Trimmed(k, k1) /\ k1.rmt_wnd = k.rmt_wnd
<1> DEFINE b == {s \in k.snd_buf : s.sn # sn}
           k1 == ikcp_parse_ack(k, sn)
           k2 == ikcp_shrink_buf(k1)
<1>1. b \in SUBSET k.snd_buf /\ b \in SUBSET Stored
  BY EndFields
<1>2. k1 = k \/ k1 = [k EXCEPT !.snd_buf = b]
  BY DEF ikcp_parse_ack
<1> HIDE DEF k1, b
<1>3. Trimmed(k, k1) /\ k1 \in EndType /\ k1.rmt_wnd = k.rmt_wnd
  <2>1. CASE k1 = k
    BY <2>1 DEF Trimmed, SameReceiving
  <2>2. CASE k1 = [k EXCEPT !.snd_buf = b]
    BY <1>1, <2>2 DEF Trimmed, SameReceiving, EndType
  <2> QED  BY <1>2, <2>1, <2>2
<1>4. Trimmed(k1, k2) /\ k2.rmt_wnd = k.rmt_wnd
  BY <1>3, ShrinkOK
<1> HIDE DEF k2
<1>5. Trimmed(k, k2)
  BY <1>3, <1>4, TrimmedTwice
<1> QED  BY <1>4, <1>5 DEF k1, k2

\* ikcp_ack_push and ikcp_parse_data
LEMMA PushOK ==
    ASSUME NEW k \in EndType, NEW I \in SUBSET Stored, NEW c \in Nat, RcvOK(k, I, c),
           NEW m \in SegmentType, m.cmd = "push", m.sn < k.rcv_nxt \/ Carried(m) \in I
    PROVE  LET k1 == InputPush(k, m)
           IN  /\ k1 \in EndType /\ RcvOK(k1, I, c) /\ Extends(k, k1) /\ SameSending(k, k1)
               /\ k1.probe = k.probe
               /\ m.sn = k.rcv_nxt /\ Len(k.rcv_queue) < rcv_wnd => k.rcv_nxt < k1.rcv_nxt
<1> DEFINE a == k.acklist \cup {m.sn}
           k1 == ikcp_ack_push(k, m.sn)
           b == k.rcv_buf \cup {Carried(m)}
           k2 == [k1 EXCEPT !.rcv_buf = b]
<1>1. /\ k.rcv_nxt \in Nat /\ rcv_wnd \in Nat /\ rcv_wnd > 0 /\ m.sn \in Nat
      /\ k.acklist \in SUBSET Nat /\ k.rcv_buf \in SUBSET Stored /\ Carried(m) \in Stored
      /\ Len(k.rcv_queue) \in Nat
  BY EndFields, SegmentFields
<1>2. a \in SUBSET Nat /\ b \in SUBSET Stored
  BY <1>1
<1>3. k1 = [k EXCEPT !.acklist = a]
  BY DEF ikcp_ack_push
<1>4. m.sn \in Sns(b)
  <2>1. Carried(m) \in b /\ Carried(m).sn = m.sn
    BY DEF Carried
  <2> QED  BY <2>1 DEF Sns
<1>5. Extends(k, k)
  BY <1>1 DEF Extends
<1> HIDE DEF a, b
<1>6. /\ k1 \in EndType /\ SameSending(k, k1) /\ SameReceiving(k, k1) /\ k1.probe = k.probe
  BY <1>2, <1>3 DEF EndType, SameSending, SameReceiving
<1> HIDE DEF k1
<1>7. RcvOK(k1, I, c)
  BY <1>6, SameOK
<1>8. Extends(k, k1)
  BY <1>5, <1>6 DEF Extends, SameReceiving
<1>9. CASE m.sn >= k.rcv_nxt + rcv_wnd
  <2>1. InputPush(k, m) = k /\ m.sn # k.rcv_nxt
    BY <1>1, <1>9 DEF InputPush
  <2>2. SameSending(k, k)
    BY DEF SameSending
  <2> QED  BY <1>5, <2>1, <2>2
<1>10. CASE m.sn < k.rcv_nxt
  <2>1. ~(m.sn >= k.rcv_nxt + rcv_wnd) /\ m.sn # k.rcv_nxt
    BY <1>1, <1>10
  <2>2. InputPush(k, m) = k1
    BY <1>10, <2>1 DEF InputPush, k1
  <2> QED  BY <1>6, <1>7, <1>8, <2>1, <2>2
<1>11. CASE ~(m.sn >= k.rcv_nxt + rcv_wnd) /\ ~(m.sn < k.rcv_nxt)
  <2>1. InputPush(k, m) = ikcp_parse_data(k1, m)
    BY <1>11 DEF InputPush, k1
  <2>2. k1.rcv_nxt = k.rcv_nxt /\ k1.rcv_buf = k.rcv_buf /\ k1.rcv_queue = k.rcv_queue
    BY <1>6 DEF SameReceiving
  <2>3. ASSUME NEW k3 \in EndType, RcvOK(k3, I, c), SameSending(k, k3), k3.probe = k.probe,
               k3.rcv_nxt = k.rcv_nxt, k3.rcv_queue = k.rcv_queue, m.sn \in Sns(k3.rcv_buf),
               InputPush(k, m) = MoveAvailable(k3)
        PROVE  LET k4 == InputPush(k, m)
               IN  /\ k4 \in EndType /\ RcvOK(k4, I, c) /\ Extends(k, k4) /\ SameSending(k, k4)
                   /\ k4.probe = k.probe
                   /\ m.sn = k.rcv_nxt /\ Len(k.rcv_queue) < rcv_wnd => k.rcv_nxt < k4.rcv_nxt
    <3> DEFINE k4 == MoveAvailable(k3)
    <3>1. /\ k4 \in EndType /\ RcvOK(k4, I, c) /\ Extends(k3, k4) /\ SameSending(k3, k4)
          /\ k4.probe = k3.probe
          /\ k3.rcv_nxt \in Sns(k3.rcv_buf) /\ Len(k3.rcv_queue) < rcv_wnd
                => k3.rcv_nxt < k4.rcv_nxt
      BY <2>3, MoveOK
    <3> HIDE DEF k4
    <3>2. Extends(k, k4) /\ SameSending(k, k4)
      BY <2>3, <3>1 DEF Extends, SameSending
    <3>3. InputPush(k, m) = k4
      BY <2>3 DEF k4
    <3> QED  BY <2>3, <3>1, <3>2, <3>3
  <2>4. CASE m.sn \in Sns(k.rcv_buf)
    <3>1. InputPush(k, m) = MoveAvailable(k1)
      BY <1>11, <2>1, <2>2, <2>4 DEF ikcp_parse_data
    <3> QED  BY <1>6, <1>7, <2>2, <2>3, <2>4, <3>1
  <2>5. CASE m.sn \notin Sns(k.rcv_buf)
    <3>1. InputPush(k, m) = MoveAvailable(k2)
      BY <1>11, <2>1, <2>2, <2>5 DEF ikcp_parse_data, k2, b, Carried
    <3>2. /\ k2 \in EndType /\ SameSending(k, k2) /\ k2.probe = k.probe
          /\ k2.rcv_nxt = k.rcv_nxt /\ k2.rcv_queue = k.rcv_queue /\ k2.rcv_buf = b
      BY <1>2, <1>6, <2>2 DEF EndType, SameSending
    <3> HIDE DEF k2
    <3>3. b \subseteq I
      <4>1. Carried(m) \in I
        BY <1>11
      <4> QED  BY <4>1 DEF RcvOK, b
    <3>4. RcvOK(k2, I, c)
      BY <3>2, <3>3 DEF RcvOK
    <3> QED  BY <1>4, <2>3, <3>1, <3>2, <3>4
  <2> QED  BY <2>4, <2>5
<1> QED  BY <1>9, <1>10, <1>11

\* ikcp_input
LEMMA InputOK ==
    ASSUME NEW k \in EndType, NEW I \in SUBSET Stored, NEW c \in Nat, RcvOK(k, I, c),
           NEW m \in SegmentType,
           m.cmd = "push" => m.sn < k.rcv_nxt \/ Carried(m) \in I
    PROVE  Fed(k, m, ikcp_input(k, m)) /\ RcvOK(ikcp_input(k, m), I, c)
<1> DEFINE h == ikcp_shrink_buf(ikcp_parse_una([k EXCEPT !.rmt_wnd = m.wnd], m.una))
           i == ikcp_input(k, m)
<1>1. m.una \in Nat /\ m.sn \in Nat /\ m.wnd \in Nat
      /\ m.cmd \in {"ack", "push", "wask", "wins"}
  BY SegmentFields
<1>2. Trimmed(k, h) /\ h.rmt_wnd = m.wnd
  BY <1>1, HeardOK
<1>3. i = CASE m.cmd = "ack"  -> ikcp_shrink_buf(ikcp_parse_ack(h, m.sn))
            [] m.cmd = "push" -> InputPush(h, m)
            [] m.cmd = "wask" -> [h EXCEPT !.probe = @ \cup {"tell"}]
            [] m.cmd = "wins" -> h
  BY DEF ikcp_input
<1> HIDE DEF h, i
<1>4. h \in EndType /\ SameReceiving(k, h)
  BY <1>2 DEF Trimmed
<1>5. RcvOK(h, I, c)
  BY <1>4, SameOK
<1>6. Extends(k, h)
  <2>1. k.rcv_nxt \in Nat /\ Len(k.rcv_queue) \in Nat
    BY EndFields
  <2> QED  BY <1>4, <2>1 DEF Extends, SameReceiving
<1>7. CASE m.cmd = "ack"
  <2>1. i = ikcp_shrink_buf(ikcp_parse_ack(h, m.sn))
    BY <1>3, <1>7
  <2>2. Trimmed(h, i) /\ i.rmt_wnd = h.rmt_wnd
    BY <1>1, <1>4, <2>1, AckOK
  <2>3. Trimmed(k, i)
    BY <1>2, <2>2, TrimmedTwice
  <2>4. SameReceiving(k, i) /\ SameReceiving(h, i)
    BY <2>2, <2>3 DEF Trimmed
  <2>5. RcvOK(i, I, c)
    BY <1>5, <2>4, SameOK
  <2>6. Extends(k, i)
    BY <1>6, <2>4 DEF Extends, SameReceiving
  <2>7. Fed(k, m, i)
    BY <1>2, <1>7, <2>2, <2>3, <2>6 DEF Fed, Trimmed
  <2> QED  BY <2>5, <2>7 DEF i
<1>8. CASE m.cmd = "push"
  <2>1. i = InputPush(h, m)
    BY <1>3, <1>8
  <2>2. h.rcv_nxt = k.rcv_nxt /\ h.rcv_queue = k.rcv_queue
    BY <1>4 DEF SameReceiving
  <2>3. /\ i \in EndType /\ RcvOK(i, I, c) /\ Extends(h, i) /\ SameSending(h, i)
        /\ i.probe = h.probe
        /\ m.sn = h.rcv_nxt /\ Len(h.rcv_queue) < rcv_wnd => h.rcv_nxt < i.rcv_nxt
    BY <1>4, <1>5, <1>8, <2>1, <2>2, PushOK
  <2>4. Extends(k, i)
    BY <2>2, <2>3 DEF Extends
  <2>5. Fed(k, m, i)
    BY <1>2, <1>8, <2>2, <2>3, <2>4 DEF Fed, Trimmed, SameSending
  <2> QED  BY <2>3, <2>5 DEF i
<1>9. CASE m.cmd = "wask"
  <2> DEFINE p == h.probe \cup {"tell"}
  <2>1. i = [h EXCEPT !.probe = p]
    BY <1>3, <1>9
  <2>2. p \in SUBSET {"tell"}
    BY <1>4, EndFields
  <2> HIDE DEF p
  <2>3. /\ i \in EndType /\ SameReceiving(h, i) /\ SameSending(h, i) /\ i.acklist = h.acklist
    BY <1>4, <2>1, <2>2 DEF EndType, SameReceiving, SameSending
  <2>4. RcvOK(i, I, c)
    BY <1>5, <2>3, SameOK
  <2>5. Extends(k, i) /\ SameReceiving(k, i)
    BY <1>4, <1>6, <2>3 DEF Extends, SameReceiving
  <2>6. Fed(k, m, i)
    BY <1>2, <1>9, <2>3, <2>5 DEF Fed, Trimmed, SameSending
  <2> QED  BY <2>4, <2>6 DEF i
<1>10. CASE m.cmd = "wins"
  <2>1. i = h
    BY <1>3, <1>10
  <2>2. Fed(k, m, h)
    BY <1>2, <1>6, <1>10 DEF Fed, Trimmed
  <2> QED  BY <1>5, <2>1, <2>2 DEF i
<1> QED  BY <1>1, <1>7, <1>8, <1>9, <1>10

\* What is to be sent may only become less.
LEMMA FedSends ==
    ASSUME NEW k, NEW m, NEW k1, Fed(k, m, k1), NEW O, NEW n, SndOK(k, O, n)
    PROVE  SndOK(k1, O, n)
<1>1. IsFiniteSet(k1.snd_buf)
  BY FS_Subset DEF Fed, SndOK
<1> QED  BY <1>1 DEF Fed, SndOK

------------------------------------------------------------------------------
(* Flush *)

\* k1 is k after a flush.
Flushed(k, k1) ==
    /\ k1 \in EndType /\ SameReceiving(k, k1)
    /\ k1.rmt_wnd = k.rmt_wnd /\ k1.updated = k.updated
    /\ k1.acklist = IF k.updated THEN {} ELSE k.acklist
    /\ k1.probe = IF k.updated THEN {} ELSE k.probe
    /\ k.snd_queue = <<>> /\ k.snd_buf = {} => k1.snd_queue = <<>> /\ k1.snd_buf = {}

\* A flush of k may send m.
Says(k, O, n, m) ==
    /\ m \in SegmentType /\ k.updated /\ m.wnd = ikcp_wnd_unused(k)
    /\ m.cmd = "push" => /\ Carried(m) \in O /\ m.sn < n
                         /\ ~(k.snd_queue = <<>> /\ k.snd_buf = {})
    /\ m.cmd = "ack" => k.acklist # {}
    /\ m.cmd = "wask" => k.rmt_wnd = 0
    /\ m.cmd = "wins" => k.probe # {}

\* A flush takes no more from snd_queue than there is.
LEMMA RoomBound ==
    ASSUME NEW k \in EndType
    PROVE  Room(k) \in 0 .. Len(k.snd_queue)
<1> DEFINE cwnd == Min({snd_wnd, k.rmt_wnd})
           room == k.snd_una + cwnd - k.snd_nxt
           fits == IF room > 0 THEN room ELSE 0
<1>1. snd_wnd \in Nat /\ k.rmt_wnd \in Nat /\ k.snd_una \in Nat /\ k.snd_nxt \in Nat
      /\ Len(k.snd_queue) \in Nat
  BY EndFields
<1>2. cwnd \in Nat
  BY <1>1, MinOfTwo
<1> HIDE DEF cwnd
<1>3. fits \in Nat
  BY <1>1, <1>2
<1> HIDE DEF fits
<1>4. Room(k) = Min({Len(k.snd_queue), fits})
  BY DEF Room, fits, cwnd
<1> QED  BY <1>1, <1>3, <1>4, MinOfTwo

\* The fresh segments are messages of snd_queue, numbered from snd_nxt.
LEMMA FreshSegments ==
    ASSUME NEW k \in EndType, NEW O, NEW n \in Nat, SndOK(k, O, n)
    PROVE  /\ Fresh(k) \in SUBSET Stored /\ IsFiniteSet(Fresh(k))
           /\ \A s \in Fresh(k) : s \in O /\ s.sn < k.snd_nxt + Room(k)
           /\ Fresh(k) # {} => k.snd_queue # <<>>
<1> DEFINE x == Room(k)
           S(i) == [sn |-> k.snd_nxt + i - 1, data |-> k.snd_queue[i]]
           f == [i \in 1 .. x |-> S(i)]
<1>1. k.snd_queue \in Seq(Messages) /\ k.snd_nxt \in Nat /\ Len(k.snd_queue) \in Nat
  BY EndFields
<1>2. x \in Nat /\ x <= Len(k.snd_queue)
  BY <1>1, RoomBound
<1>3. Fresh(k) = {S(i) : i \in 1 .. x}
  BY DEF Fresh
<1>4. f \in Surjection(1 .. x, Fresh(k))
  BY <1>3 DEF Surjection
<1> HIDE DEF x
<1>5. IsFiniteSet(1 .. x)
  BY <1>2, FS_Interval
<1>6. IsFiniteSet(Fresh(k))
  <2> HIDE DEF f
  <2> QED  BY <1>4, <1>5, FS_Surjection
<1>7. ASSUME NEW i \in 1 .. x
      PROVE  S(i) \in Stored /\ S(i) \in O /\ S(i).sn < k.snd_nxt + x
  <2>1. i \in 1 .. Len(k.snd_queue)
    BY <1>1, <1>2
  <2>2. k.snd_queue[i] \in Messages
    BY <1>1, <2>1, ElementOfSeq
  <2>3. S(i) \in O
    BY <2>1 DEF SndOK
  <2> QED  BY <1>1, <1>2, <2>2, <2>3 DEF Stored
<1>8. Fresh(k) # {} => k.snd_queue # <<>>
  <2>1. Len(<<>>) = 0
    OBVIOUS
  <2> QED  BY <1>1, <1>2, <1>3, <2>1
<1> HIDE DEF S, f
<1> QED  BY <1>3, <1>6, <1>7, <1>8 DEF x

\* ikcp_flush
LEMMA FlushOK ==
    ASSUME NEW k \in EndType, NEW O, NEW n \in Nat, SndOK(k, O, n)
    PROVE  Flushed(k, ikcp_flush(k)) /\ SndOK(ikcp_flush(k), O, n)
<1>1. /\ k.snd_nxt \in Nat /\ k.snd_queue \in Seq(Messages) /\ Len(k.snd_queue) \in Nat
      /\ k.snd_buf \in SUBSET Stored
  BY EndFields
<1>2. CASE ~k.updated
  BY <1>2 DEF ikcp_flush, Flushed, SameReceiving
<1>3. CASE k.updated
  <2> DEFINE L == Len(k.snd_queue)
             x == Room(k)
             q == SubSeq(k.snd_queue, x + 1, L)
             b == k.snd_buf \cup Fresh(k)
             y == k.snd_nxt + x
             p == k.rmt_wnd = 0
             k1 == ikcp_flush(k)
  <2>1. x \in 0 .. L
    BY RoomBound
  <2>2. /\ n = k.snd_nxt + L
        /\ \A i \in 1 .. L : [sn |-> k.snd_nxt + i - 1, data |-> k.snd_queue[i]] \in O
        /\ \A s \in k.snd_buf : s \in O /\ s.sn < k.snd_nxt
        /\ IsFiniteSet(k.snd_buf)
    BY DEF SndOK
  <2>3. k1 = [k EXCEPT !.acklist = {}, !.probe = {}, !.probing = p,
                       !.snd_queue = q, !.snd_buf = b, !.snd_nxt = y]
    BY <1>3 DEF ikcp_flush
  <2>4. /\ Fresh(k) \in SUBSET Stored /\ IsFiniteSet(Fresh(k))
        /\ \A s \in Fresh(k) : s \in O /\ s.sn < k.snd_nxt + x
        /\ Fresh(k) # {} => k.snd_queue # <<>>
    BY FreshSegments
  <2> HIDE DEF x, k1
  <2>5. x \in Nat /\ x <= L /\ L \in Nat
    BY <1>1, <2>1
  <2>6. q \in Seq(Messages) /\ Len(q) = L - x /\ \A i \in 1 .. L - x : q[i] = k.snd_queue[x + i]
    <3>1. L \in x .. L
      BY <2>5
    <3> QED  BY ONLY <1>1, <2>1, <3>1, PartOf DEF q, L
  <2>7. b \in SUBSET Stored /\ y \in Nat /\ IsFiniteSet(b) /\ p \in BOOLEAN
    <3>1. IsFiniteSet(b)
      BY <2>2, <2>4, FS_Union
    <3> QED  BY <1>1, <2>4, <2>5, <3>1
  <2>8. \A s \in b : s \in O /\ s.sn < y
    <3>1. \A s \in k.snd_buf : s.sn \in Nat /\ s.sn < k.snd_nxt /\ s \in O
      BY <1>1, <2>2 DEF Stored
    <3> QED  BY <1>1, <2>4, <2>5, <3>1
  <2>9. k.snd_queue = <<>> /\ k.snd_buf = {} => q = <<>> /\ b = {}
    <3>1. Len(<<>>) = 0
      OBVIOUS
    <3>2. k.snd_queue = <<>> => Len(q) = 0
      BY <2>5, <2>6, <3>1 DEF L
    <3> QED  BY <2>4, <2>6, <3>2, EmptySeq
  <2> HIDE DEF q, b, y, p, L
  <2>10. /\ k1 \in EndType /\ SameReceiving(k, k1)
         /\ k1.snd_queue = q /\ k1.snd_nxt = y /\ k1.snd_buf = b
         /\ k1.rmt_wnd = k.rmt_wnd /\ k1.updated = k.updated
         /\ k1.acklist = {} /\ k1.probe = {}
    <3>1. q \in Seq(Messages)
      BY <2>6
    <3> QED  BY <2>3, <2>7, <3>1 DEF EndType, SameReceiving
  <2>11. Flushed(k, k1)
    BY <1>3, <2>9, <2>10 DEF Flushed
  <2>12. ASSUME NEW i \in 1 .. Len(q) PROVE [sn |-> y + i - 1, data |-> q[i]] \in O
    <3>1. i \in 1 .. L - x /\ i \in Nat
      BY <2>5, <2>6
    <3>2. q[i] = k.snd_queue[x + i]
      BY <2>6, <3>1
    <3>3. x + i \in 1 .. L
      BY <2>5, <3>1
    <3>4. k.snd_nxt + (x + i) - 1 = y + i - 1
      BY <1>1, <2>5, <3>1 DEF y
    <3>5. [sn |-> k.snd_nxt + (x + i) - 1, data |-> k.snd_queue[x + i]] \in O
      BY <2>2, <3>3
    <3> QED  BY <3>2, <3>4, <3>5
  <2>13. n = y + Len(q)
    BY <1>1, <2>2, <2>5, <2>6 DEF y
  <2>14. SndOK(k1, O, n)
    BY <2>7, <2>8, <2>10, <2>12, <2>13 DEF SndOK
  <2> QED  BY <2>11, <2>14 DEF k1
<1> QED  BY <1>2, <1>3

\* What a flush sends.
LEMMA FlushSays ==
    ASSUME NEW k \in EndType, NEW O, NEW n \in Nat, SndOK(k, O, n), NEW due, NEW elapsed,
           NEW m \in FlushOut(k, due, elapsed)
    PROVE  Says(k, O, n, m)
<1> DEFINE w == ikcp_wnd_unused(k)
           G == {t \in k.snd_buf : t.sn \in due} \cup Fresh(k)
<1>1. /\ k.rcv_nxt \in Nat /\ k.snd_nxt \in Nat /\ k.snd_buf \in SUBSET Stored
      /\ Len(k.rcv_queue) \in Nat /\ Len(k.snd_queue) \in Nat
      /\ rcv_wnd \in Nat /\ k.acklist \in SUBSET Nat
  BY EndFields
<1>2. w \in Nat
  BY <1>1 DEF ikcp_wnd_unused
<1>3. /\ k.updated
      /\ \/ \E sn \in k.acklist : m = [Segment(k, "ack") EXCEPT !.sn = sn]
         \/ m = Segment(k, "wask") /\ k.rmt_wnd = 0
         \/ m = Segment(k, "wins") /\ k.probe # {}
         \/ \E s \in G : m = Push(k, s)
  BY DEF FlushOut, Asks
<1>4. /\ G \in SUBSET Stored /\ \A s \in G : s \in O /\ s.sn < n
      /\ G # {} => ~(k.snd_queue = <<>> /\ k.snd_buf = {})
  <2>1. /\ Fresh(k) \in SUBSET Stored
        /\ \A s \in Fresh(k) : s \in O /\ s.sn < k.snd_nxt + Room(k)
        /\ Fresh(k) # {} => k.snd_queue # <<>>
    BY FreshSegments
  <2>2. Room(k) \in 0 .. Len(k.snd_queue) /\ n = k.snd_nxt + Len(k.snd_queue)
    BY RoomBound DEF SndOK
  <2>3. \A s \in k.snd_buf : s \in O /\ s.sn < k.snd_nxt
    BY DEF SndOK
  <2>4. \A s \in k.snd_buf : s.sn \in Nat
    BY <1>1 DEF Stored
  <2>5. \A s \in Fresh(k) : s.sn \in Nat
    BY <2>1 DEF Stored
  <2>6. \A s \in k.snd_buf \cup Fresh(k) : s.sn < n
    BY <1>1, <2>1, <2>2, <2>3, <2>4, <2>5
  <2> QED  BY <1>1, <2>1, <2>3, <2>6
<1> HIDE DEF G, w
<1>5. CASE \E sn \in k.acklist : m = [Segment(k, "ack") EXCEPT !.sn = sn]
  <2>1. PICK sn \in k.acklist : m = [Segment(k, "ack") EXCEPT !.sn = sn]
    BY <1>5
  <2>2. m = [cmd |-> "ack", sn |-> sn, una |-> k.rcv_nxt, wnd |-> w]
    BY <2>1 DEF Segment, w
  <2>3. sn \in Nat
    BY <1>1
  <2> QED  BY <1>1, <1>2, <1>3, <2>1, <2>2, <2>3 DEF SegmentType, Says, w
<1>6. CASE \/ m = Segment(k, "wask") /\ k.rmt_wnd = 0
           \/ m = Segment(k, "wins") /\ k.probe # {}
  <2>1. PICK d \in {"wask", "wins"} :
           /\ m = [cmd |-> d, sn |-> 0, una |-> k.rcv_nxt, wnd |-> w]
           /\ d = "wask" => k.rmt_wnd = 0
           /\ d = "wins" => k.probe # {}
    BY <1>6 DEF Segment, w
  <2> QED  BY <1>1, <1>2, <1>3, <2>1 DEF SegmentType, Says, w
<1>7. CASE \E s \in G : m = Push(k, s)
  <2>1. PICK s \in G : m = Push(k, s)
    BY <1>7
  <2>2. m = [cmd |-> "push", sn |-> s.sn, una |-> k.rcv_nxt, wnd |-> w, data |-> s.data]
    BY <2>1 DEF Push, w
  <2>3. s \in Stored /\ s \in O /\ s.sn < n /\ ~(k.snd_queue = <<>> /\ k.snd_buf = {})
    BY <1>4
  <2>4. s.sn \in Nat /\ s.data \in Messages /\ s = [sn |-> s.sn, data |-> s.data]
    BY <2>3 DEF Stored
  <2>5. Carried(m) = s
    BY <2>2, <2>4 DEF Carried
  <2> QED  BY <1>1, <1>2, <1>3, <2>2, <2>3, <2>4, <2>5 DEF SegmentType, Says, w
<1> QED  BY <1>3, <1>5, <1>6, <1>7

------------------------------------------------------------------------------
(* What may be said *)

\* The chunks of a file are as many as NumChunks, those of a part fewer.
LEMMA ChunkCounts ==
    ASSUME NEW T \in SUBSET Chunks
    PROVE  /\ NumChunks \in Nat /\ NumChunks > 0 /\ Cardinality(Chunks) = NumChunks
           /\ Cardinality(T) \in Nat /\ Cardinality(T) <= NumChunks
           /\ Cardinality(T) = 0 <=> T = {}
           /\ \A c \in T : Cardinality(T \ {c}) = Cardinality(T) - 1
<1>1. NumChunks \in Nat /\ NumChunks > 0
  BY ConnectionAssumption
<1>2. IsFiniteSet(Chunks) /\ Cardinality(Chunks) = NumChunks
  <2>1. 1 \in Int /\ NumChunks \in Int /\ ~(1 > NumChunks) /\ NumChunks - 1 + 1 = NumChunks
    BY <1>1
  <2> QED  BY <2>1, FS_Interval DEF Chunks
<1>3. IsFiniteSet(T) /\ Cardinality(T) <= NumChunks
  BY <1>2, FS_Subset
<1>4. Cardinality(T) \in Nat
  BY <1>3, FS_CardinalityType
<1>5. Cardinality(T) = 0 <=> T = {}
  BY <1>3, FS_EmptySet
<1>6. \A c \in T : Cardinality(T \ {c}) = Cardinality(T) - 1
  BY <1>3, FS_RemoveElement
<1> QED  BY <1>1, <1>2, <1>3, <1>4, <1>5, <1>6

\* The segments of a sender.
LEMMA OutgoingFacts ==
    /\ Outgoing \in SUBSET Stored
    /\ \A f : OutgoingOf(f) \subseteq Outgoing /\ OutgoingFrom(f) \subseteq Outgoing
    /\ \A f : OutgoingOf(f) \in SUBSET Stored /\ OutgoingFrom(f) \in SUBSET Stored
    /\ \A f : OutgoingOf(f) \subseteq OutgoingFrom(f)
    /\ \A s \in Outgoing : s.sn \in Nat /\ s.sn <= NumChunks /\ s.data \in Messages
    /\ \A f : \A s \in OutgoingOf(f) : s.data.file = f
    /\ \A f : \A s \in OutgoingFrom(f) : s.sn = 0 => s.data.file = f
  BY DEF Outgoing, OutgoingOf, OutgoingFrom, Stored

\* The segments of a receiver.
LEMMA AnswersFacts ==
    /\ Answers \in SUBSET Stored
    /\ \A f : AnswersOf(f) \subseteq Answers /\ AnswersOf(f) \in SUBSET Stored
    /\ \A s \in Answers : s.sn = 0 /\ s.data \in Messages /\ s.data.bits = {}
    /\ \A f : \A s \in AnswersOf(f) : s.data.file = f
  BY DEF Answers, AnswersOf, Stored

\* A queue that starts with a handshake is the Session's of that file.
LEMMA HeadOpens ==
    ASSUME NEW k \in EndType, NEW h, RcvOK(k, OutgoingFrom(h), 0)
    PROVE  /\ k.rcv_queue # <<>> => k.rcv_queue[1].file = h /\ h # NoFile
           /\ k.rcv_queue = <<>> <=> k.rcv_nxt = 0
<1>1. Len(k.rcv_queue) \in Nat /\ k.rcv_queue \in Seq(Messages)
  BY EndFields
<1>2. k.rcv_nxt = 0 + Len(k.rcv_queue)
  BY DEF RcvOK
<1>3. k.rcv_queue = <<>> <=> Len(k.rcv_queue) = 0
  BY <1>1, EmptySeq
<1>4. ASSUME k.rcv_queue # <<>> PROVE k.rcv_queue[1].file = h /\ h # NoFile
  <2>1. 1 \in 1 .. Len(k.rcv_queue) /\ 0 + 1 - 1 = 0
    BY <1>1, <1>3, <1>4
  <2>2. [sn |-> 0, data |-> k.rcv_queue[1]] \in OutgoingFrom(h)
    BY <2>1 DEF RcvOK
  <2>3. PICK s \in OutgoingFrom(h) : s = [sn |-> 0, data |-> k.rcv_queue[1]]
    BY <2>2
  <2>4. s.sn = 0 /\ s.data = k.rcv_queue[1]
    BY <2>3
  <2>5. s.data.file = h /\ s.data \in Messages
    BY <2>4, OutgoingFacts
  <2> QED  BY <2>4, <2>5, MessageFields
<1> QED  BY <1>1, <1>2, <1>3, <1>4

\* Until the first handshake comes, any may.
LEMMA NoneOpened ==
    ASSUME NEW k \in EndType, NEW h, RcvOK(k, OutgoingFrom(NoFile), 0)
    PROVE  k.rcv_queue = <<>> /\ k.rcv_nxt = 0 /\ RcvOK(k, OutgoingFrom(h), 0)
<1>1. k.rcv_queue = <<>> /\ k.rcv_nxt = 0
  BY HeadOpens
<1>2. k.rcv_buf \subseteq OutgoingFrom(h)
  <2> SUFFICES ASSUME NEW s \in k.rcv_buf PROVE s \in OutgoingFrom(h)
    OBVIOUS
  <2>1. s \in OutgoingFrom(NoFile) /\ s \in Outgoing
    BY OutgoingFacts DEF RcvOK
  <2>2. s.data \in Messages
    BY <2>1, OutgoingFacts
  <2>3. s.data.file # NoFile
    BY <2>2, MessageFields
  <2>4. s.sn # 0
    BY <2>1, <2>3, OutgoingFacts
  <2> QED  BY <2>1, <2>4 DEF OutgoingFrom
<1>3. Len(<<>>) = 0 /\ 1 .. 0 = {}
  OBVIOUS
<1> QED  BY <1>1, <1>2, <1>3 DEF RcvOK

\* The first handshake that comes opens the file of the Session, and no other does.
LEMMA OpenedFed ==
    ASSUME NEW k \in EndType, NEW f \in Nat, NEW c \in Nat, c = 0 <=> f = NoFile,
           RcvOK(k, OutgoingFrom(OpenedOf(k, f)), c),
           NEW m \in SegmentType, m.cmd = "push" => Carried(m) \in Outgoing
    PROVE  LET k1 == ikcp_input(k, m)
           IN  /\ Fed(k, m, k1) /\ RcvOK(k1, OutgoingFrom(OpenedOf(k1, f)), c)
               /\ OpenedOf(k, f) # NoFile \/ m.cmd # "push" => OpenedOf(k1, f) = OpenedOf(k, f)
               /\ OpenedOf(k, f) = NoFile /\ m.cmd = "push" /\ m.sn = 0
                     => OpenedOf(k1, f) = m.data.file
<1> DEFINE k1 == ikcp_input(k, m)
           o == OpenedOf(k, f)
<1>1. k.rcv_nxt \in Nat /\ Len(k.rcv_queue) \in Nat /\ rcv_wnd \in Nat /\ rcv_wnd > 0
      /\ k.rcv_queue \in Seq(Messages)
  BY EndFields
<1>2. m.sn \in Nat /\ (m.cmd = "push" => m.data \in Messages) /\ Carried(m).sn = m.sn
      /\ Carried(m).data = m.data
  BY SegmentFields DEF Carried
<1>3. \A h : OutgoingFrom(h) \in SUBSET Stored
  BY OutgoingFacts
<1> HIDE DEF k1
<1>4. CASE o # NoFile
  <2>1. m.cmd = "push" => m.sn < k.rcv_nxt \/ Carried(m) \in OutgoingFrom(o)
    <3>1. CASE m.sn = 0
      <4>1. k.rcv_nxt > 0
        <5>1. k.rcv_nxt = c + Len(k.rcv_queue)
          BY DEF RcvOK
        <5>2. CASE f # NoFile
          BY <1>1, <5>1, <5>2
        <5>3. CASE f = NoFile
          <6>1. k.rcv_queue # <<>>
            BY <1>4, <5>3 DEF OpenedOf
          <6>2. Len(k.rcv_queue) > 0
            BY <1>1, <6>1, EmptySeq
          <6> QED  BY <1>1, <5>1, <6>2
        <5> QED  BY <5>2, <5>3
      <4> QED  BY <3>1, <4>1
    <3>2. CASE m.sn # 0
      BY <1>2, <3>2 DEF OutgoingFrom
    <3> QED  BY <3>1, <3>2
  <2>2. Fed(k, m, k1) /\ RcvOK(k1, OutgoingFrom(o), c)
    BY <1>3, <2>1, InputOK DEF k1
  <2>3. OpenedOf(k1, f) = o
    <3>1. CASE f # NoFile
      BY <3>1 DEF OpenedOf
    <3>2. CASE f = NoFile
      <4>1. k.rcv_queue # <<>> /\ o = k.rcv_queue[1].file
        BY <1>4, <3>2 DEF OpenedOf
      <4>2. Len(k.rcv_queue) > 0
        BY <1>1, <4>1, EmptySeq
      <4>3. Len(k1.rcv_queue) > 0 /\ k1.rcv_queue[1] = k.rcv_queue[1]
        <5>1. k1 \in EndType /\ Extends(k, k1)
          BY <2>2 DEF Fed
        <5>2. Len(k1.rcv_queue) \in Nat
          BY <5>1, EndFields
        <5> QED  BY <1>1, <4>2, <5>1, <5>2 DEF Extends
      <4>4. k1.rcv_queue # <<>>
        BY <4>3
      <4> QED  BY <3>2, <4>1, <4>3, <4>4 DEF OpenedOf
    <3> QED  BY <3>1, <3>2
  <2> QED  BY <1>4, <2>2, <2>3 DEF k1
<1>5. CASE o = NoFile
  <2>1. f = NoFile /\ c = 0 /\ RcvOK(k, OutgoingFrom(NoFile), 0)
    <3>1. f = NoFile
      BY <1>5 DEF OpenedOf
    <3> QED  BY <1>5, <3>1
  <2>2. k.rcv_queue = <<>> /\ k.rcv_nxt = 0 /\ \A h : RcvOK(k, OutgoingFrom(h), 0)
    BY <2>1, NoneOpened
  <2>3. ASSUME NEW h, RcvOK(k1, OutgoingFrom(h), 0), Fed(k, m, k1)
        PROVE  IF k1.rcv_nxt = 0 THEN OpenedOf(k1, f) = NoFile ELSE OpenedOf(k1, f) = h
    <3>1. k1 \in EndType
      BY <2>3 DEF Fed
    <3> QED  BY <2>1, <2>3, <3>1, HeadOpens DEF OpenedOf
  <2>4. CASE m.cmd = "push" /\ m.sn = 0
    <3> DEFINE h == m.data.file
    <3>1. Carried(m) \in OutgoingFrom(h)
      BY <1>2, <2>4 DEF OutgoingFrom
    <3> HIDE DEF h
    <3>2. Fed(k, m, k1) /\ RcvOK(k1, OutgoingFrom(h), 0)
      BY <1>3, <2>2, <3>1, InputOK DEF k1
    <3>3. k1.rcv_nxt # 0
      <4>1. k.rcv_nxt < k1.rcv_nxt
        <5>1. Len(k.rcv_queue) = 0
          BY <2>2
        <5> QED  BY <1>1, <2>2, <2>4, <3>2, <5>1 DEF Fed
      <4> QED  BY <2>2, <4>1
    <3>4. OpenedOf(k1, f) = h
      BY <2>3, <3>2, <3>3
    <3> QED  BY <1>5, <2>1, <2>4, <3>2, <3>4 DEF k1, h
  <2>5. CASE ~(m.cmd = "push" /\ m.sn = 0)
    <3>1. m.cmd = "push" => m.sn < k.rcv_nxt \/ Carried(m) \in OutgoingFrom(NoFile)
      BY <1>2, <2>5 DEF OutgoingFrom
    <3>2. Fed(k, m, k1) /\ RcvOK(k1, OutgoingFrom(NoFile), 0)
      BY <1>3, <2>1, <3>1, InputOK DEF k1
    <3>3. OpenedOf(k1, f) = NoFile
      BY <2>3, <3>2
    <3> QED  BY <1>5, <2>1, <2>5, <3>2, <3>3 DEF k1
  <2> QED  BY <2>4, <2>5
<1> QED  BY <1>4, <1>5

------------------------------------------------------------------------------
(* BaseInv: the sender *)

\* RcvOK says how many messages were read.
LEMMA TakenIs ==
    ASSUME NEW k \in EndType, NEW I, NEW c \in Nat, RcvOK(k, I, c)
    PROVE  Taken(k) = c
<1>1. k.rcv_nxt \in Nat /\ Len(k.rcv_queue) \in Nat /\ k.rcv_nxt = c + Len(k.rcv_queue)
  BY EndFields DEF RcvOK
<1> QED  BY <1>1 DEF Taken

\* The end of a critical section of the sender.
LEMMA SenderFlushes ==
    ASSUME NEW k \in EndType, NEW O, NEW n \in Nat, SndOK(k, O, n), NEW due,
           SenderFlush(k, due), port' \in Nat, toReceiver \in SUBSET DatagramType
    PROVE  /\ Flushed(k, sKcp') /\ SndOK(sKcp', O, n)
           /\ toReceiver' \in SUBSET DatagramType
           /\ \A d \in toReceiver' :
                 d \in toReceiver \/ (d.port = port' /\ Says(k, O, n, d.seg))
<1>1. /\ sKcp' = ikcp_flush(k)
      /\ toReceiver' = toReceiver \cup Addressed(port', FlushOut(k, due, TRUE))
  BY DEF SenderFlush
<1>2. Flushed(k, sKcp') /\ SndOK(sKcp', O, n)
  BY <1>1, FlushOK
<1>3. ASSUME NEW d \in toReceiver', d \notin toReceiver
      PROVE  d \in DatagramType /\ d.port = port' /\ Says(k, O, n, d.seg)
  <2>1. PICK m \in FlushOut(k, due, TRUE) : d = [port |-> port', seg |-> m]
    BY <1>1, <1>3 DEF Addressed
  <2>2. Says(k, O, n, m)
    BY <2>1, FlushSays
  <2>3. m \in SegmentType
    BY <2>2 DEF Says
  <2> QED  BY <2>1, <2>2, <2>3 DEF DatagramType
<1> QED  BY <1>2, <1>3

\* The end of a critical section of the receiver.
LEMMA ReceiverFlushes ==
    ASSUME NEW k \in EndType, NEW O, NEW n \in Nat, SndOK(k, O, n), NEW due,
           ReceiverFlush(k, due), remote' \in Nat, toSender \in SUBSET DatagramType
    PROVE  /\ Flushed(k, rKcp') /\ SndOK(rKcp', O, n)
           /\ toSender' \in SUBSET DatagramType
           /\ \A d \in toSender' :
                 d \in toSender \/ (d.port = remote' /\ Says(k, O, n, d.seg))
<1>1. rKcp' = ikcp_flush(k) /\ toSender' = toSender \cup Addressed(remote', FlushOut(k, due, TRUE))
  BY DEF ReceiverFlush
<1>2. Flushed(k, rKcp') /\ SndOK(rKcp', O, n)
  BY <1>1, FlushOK
<1>3. ASSUME NEW d \in toSender', d \notin toSender
      PROVE  d \in DatagramType /\ d.port = remote' /\ Says(k, O, n, d.seg)
  <2>1. PICK m \in FlushOut(k, due, TRUE) : d = [port |-> remote', seg |-> m]
    BY <1>1, <1>3 DEF Addressed
  <2>2. Says(k, O, n, m)
    BY <2>1, FlushSays
  <2>3. m \in SegmentType
    BY <2>2 DEF Says
  <2> QED  BY <2>1, <2>2, <2>3 DEF DatagramType
<1> QED  BY <1>2, <1>3

\* A flush leaves what was received alone.
LEMMA FlushedReceives ==
    ASSUME NEW k, NEW k1, Flushed(k, k1)
    PROVE  k1 \in EndType /\ \A I, c : RcvOK(k, I, c) => RcvOK(k1, I, c)
<1>1. k1 \in EndType /\ SameReceiving(k, k1)
  BY DEF Flushed
<1> QED  BY <1>1, SameOK

\* What a sender that is alive gave to KCP, as a number.
LEMMA GivenBounds ==
    ASSUME TypeInv
    PROVE  GivenCount \in 1 .. NumChunks + 1
<1>1. Cardinality(todo) \in Nat /\ Cardinality(todo) <= NumChunks /\ NumChunks \in Nat
  BY ChunkCounts DEF TypeInv
<1> QED  BY <1>1 DEF GivenCount

\* What is said of the sender stays true while the sender does nothing.
LEMMA SenderStays ==
    ASSUME SenderBase, UNCHANGED sendVars
    PROVE  SenderBase'
  BY DEF SenderBase, sendVars, Alive, GivenCount, Taken

\* The same of the receiver.
LEMMA ReceiverStays ==
    ASSUME ReceiverBase, UNCHANGED recvVars
    PROVE  ReceiverBase'
  BY DEF ReceiverBase, recvVars, Bound, Opened, ReadCount

\* What is said of the datagrams stays true when some of them are gone.
LEMMA NetStays ==
    ASSUME NetBase, UNCHANGED <<sPc, file, port>>,
           toReceiver' \subseteq toReceiver, toSender' \subseteq toSender
    PROVE  NetBase'
  BY DEF NetBase, Alive

\* A critical section of the sender ended with a flush of k, which had been given
\* n messages; the same of the receiver, whose Session opened file f.
SenderSaid(k, n) ==
    /\ Flushed(k, sKcp') /\ SndOK(sKcp', OutgoingOf(file), n)
    /\ \A d \in toReceiver' :
          d \in toReceiver \/ (d.port = port /\ Says(k, OutgoingOf(file), n, d.seg))

ReceiverSaid(k, f, n) ==
    /\ Flushed(k, rKcp') /\ SndOK(rKcp', AnswersOf(f), n)
    /\ \A d \in toSender' :
          d \in toSender \/ (d.port = remote' /\ Says(k, AnswersOf(f), n, d.seg))

\* What a critical section of the sender says is of its file.
LEMMA SenderSays ==
    ASSUME BaseInv, NEW k \in EndType, NEW n \in Nat, SndOK(k, OutgoingOf(file), n), NEW due,
           SenderFlush(k, due), UNCHANGED <<sPc, file, port, recvVars>>,
           toSender' \subseteq toSender, Alive
    PROVE  /\ SenderSaid(k, n) /\ sKcp' \in EndType
           /\ toReceiver' \in SUBSET DatagramType /\ NetBase'
<1>1. port \in Nat /\ port' = port /\ port > 0 /\ toReceiver \in SUBSET DatagramType
  BY DEF BaseInv, TypeInv, SenderBase
<1>2. /\ Flushed(k, sKcp') /\ SndOK(sKcp', OutgoingOf(file), n)
      /\ toReceiver' \in SUBSET DatagramType
      /\ \A d \in toReceiver' :
            d \in toReceiver \/ (d.port = port /\ Says(k, OutgoingOf(file), n, d.seg))
  BY <1>1, SenderFlushes
<1>3. NetBase
  BY DEF BaseInv
<1>4. ASSUME NEW d \in toReceiver'
      PROVE  /\ d.port \in 1 .. port
             /\ d.seg.cmd = "push" =>
                   /\ Carried(d.seg) \in Outgoing
                   /\ d.seg.sn = 0 /\ Alive /\ d.port = port => d.seg.data.file = file
  <2>1. CASE d \in toReceiver
    BY <1>3, <2>1 DEF NetBase
  <2>2. CASE d.port = port /\ Says(k, OutgoingOf(file), n, d.seg)
    <3>1. d.seg.cmd = "push" => Carried(d.seg) \in OutgoingOf(file)
      BY <2>2 DEF Says
    <3>2. Carried(d.seg).data = d.seg.data
      BY DEF Carried
    <3> QED  BY <1>1, <2>2, <3>1, <3>2, OutgoingFacts
  <2> QED  BY <1>2, <2>1, <2>2
<1>5. Alive' <=> Alive
  BY DEF Alive
<1>6. NetBase'
  BY <1>1, <1>3, <1>4, <1>5 DEF NetBase
<1> QED  BY <1>2, <1>6 DEF Flushed, SenderSaid

\* StartFile
LEMMA BaseStartFile ==
    ASSUME BaseInv, StartFile
    PROVE  BaseInv'
<1> DEFINE k == ikcp_create
           h == Handshake(file)
           O == OutgoingOf(file)
<1>1. TypeInv /\ ReceiverBase /\ NetBase /\ file \in Files /\ port \in Nat
  BY DEF BaseInv, TypeInv
<1>2. sKcp' = ikcp_send(k, h) /\ sPc' = "waitAck" /\ port' = port + 1 /\ todo' = Chunks
      /\ UNCHANGED <<file, recvVars, netVars, envVars>>
  BY DEF StartFile
<1>3. k \in EndType /\ SndOK(k, O, 0) /\ RcvOK(k, Answers, 0)
  BY CreateOK
<1>4. h \in Messages /\ [sn |-> 0, data |-> h] \in O
  <2>1. h \in Messages /\ h.file = file /\ h.type = "handshake"
    BY <1>1, MessagesMade DEF Handshake
  <2>2. NumChunks \in Nat
    BY ConnectionAssumption
  <2> QED  BY <2>1, <2>2 DEF OutgoingOf, Outgoing, Stored
<1> HIDE DEF k, h, O
<1>5. sKcp' \in EndType /\ SndOK(sKcp', O, 0 + 1) /\ SameReceiving(k, sKcp')
  BY <1>2, <1>3, <1>4, SendOK
<1>6. RcvOK(sKcp', Answers, 0) /\ 0 + 1 = 1
  BY <1>3, <1>5, SameOK
<1>7. Taken(sKcp') = 0
  BY <1>5, <1>6, TakenIs
<1>8. TypeInv'
  BY <1>1, <1>2, <1>5 DEF TypeInv, recvVars, netVars, envVars
<1>9. SenderBase'
  BY <1>1, <1>2, <1>5, <1>6, <1>7 DEF SenderBase, GivenCount, O
<1>10. ReceiverBase'
  BY <1>1, <1>2, ReceiverStays
<1>11. NetBase'
  <2>1. toReceiver' = toReceiver /\ toSender' = toSender
    BY <1>2 DEF netVars
  <2>2. \A d \in toReceiver \cup toSender : d.port \in 1 .. port + 1 /\ d.port # port + 1
    BY <1>1 DEF NetBase
  <2> QED  BY <1>1, <1>2, <2>1, <2>2 DEF NetBase
<1> QED  BY <1>8, <1>9, <1>10, <1>11 DEF BaseInv

\* SenderRecv: there is one answer, and it says that no chunk is there.
LEMMA SenderRecvFacts ==
    ASSUME BaseInv, SenderRecv
    PROVE  /\ sPc = "waitAck" /\ sPc' = "sending" /\ todo' = todo /\ GivenCount' = GivenCount
           /\ sKcp' \in EndType /\ RcvOK(sKcp', Answers, 1) /\ SameSending(sKcp, sKcp')
           /\ sKcp'.acklist = sKcp.acklist
<1> DEFINE c == Taken(sKcp)
           m == Head(sKcp.rcv_queue)
<1>1. TypeInv /\ SenderBase /\ Alive /\ sKcp \in EndType
  BY DEF BaseInv, SenderRecv, TypeInv, Alive
<1>2. sKcp' = ikcp_recv(sKcp) /\ sKcp.rcv_queue # <<>>
      /\ (sPc = "waitAck" => sPc' = "sending" /\ todo' = Chunks \ m.bits)
  BY DEF SenderRecv
<1>3. /\ c \in Nat /\ RcvOK(sKcp, Answers, c) /\ c = (IF sPc = "waitAck" THEN 0 ELSE 1)
      /\ sPc = "waitAck" => todo = Chunks
  BY <1>1 DEF SenderBase
<1>4. Answers \in SUBSET Stored
  BY AnswersFacts
<1> HIDE DEF c, m
<1>5. /\ [sn |-> c, data |-> m] \in Answers
      /\ sKcp' \in EndType /\ RcvOK(sKcp', Answers, c + 1) /\ SameSending(sKcp, sKcp')
      /\ sKcp'.acklist = sKcp.acklist
  BY <1>1, <1>2, <1>3, <1>4, RecvOK DEF m
<1>6. m.bits = {} /\ c = 0
  <2>1. PICK s \in Answers : s = [sn |-> c, data |-> m]
    BY <1>5
  <2> QED  BY <2>1, AnswersFacts
<1>7. sPc = "waitAck" /\ sPc' = "sending" /\ todo' = todo /\ todo = Chunks
  BY <1>2, <1>3, <1>6
<1>8. GivenCount' = GivenCount
  <2>1. Cardinality(Chunks) = NumChunks /\ NumChunks \in Nat
    BY ChunkCounts
  <2>2. 1 + NumChunks - Cardinality(todo') = 1
    BY <1>7, <2>1
  <2> QED  BY <1>7, <2>2 DEF GivenCount
<1> QED  BY <1>5, <1>6, <1>7, <1>8

\* SenderRecv
LEMMA BaseSenderRecv ==
    ASSUME BaseInv, SenderRecv
    PROVE  BaseInv'
<1>1. TypeInv /\ SenderBase /\ ReceiverBase /\ NetBase /\ Alive
  BY DEF BaseInv, SenderRecv, Alive
<1>2. UNCHANGED <<file, port, recvVars, netVars, envVars>>
  BY DEF SenderRecv
<1>3. /\ sPc = "waitAck" /\ sPc' = "sending" /\ todo' = todo /\ GivenCount' = GivenCount
      /\ sKcp' \in EndType /\ RcvOK(sKcp', Answers, 1) /\ SameSending(sKcp, sKcp')
  BY SenderRecvFacts
<1>4. Taken(sKcp') = 1
  BY <1>3, TakenIs
<1>5. SndOK(sKcp', OutgoingOf(file), GivenCount) /\ port > 0
  BY <1>1, <1>3, SameOK DEF SenderBase
<1>6. TypeInv'
  BY <1>1, <1>2, <1>3 DEF TypeInv, recvVars, netVars, envVars
<1>7. SenderBase'
  BY <1>2, <1>3, <1>4, <1>5 DEF SenderBase
<1>8. ReceiverBase'
  BY <1>1, <1>2, ReceiverStays
<1>9. NetBase'
  <2>1. Alive'
    BY <1>3 DEF Alive
  <2> QED  BY <1>1, <1>2, <2>1 DEF NetBase, netVars
<1> QED  BY <1>6, <1>7, <1>8, <1>9 DEF BaseInv

\* SendChunk: the next message, from an endpoint that is else the same.
LEMMA SendChunkFacts ==
    ASSUME BaseInv, SendChunk
    PROVE  \E c \in todo, k \in EndType :
              /\ todo' = todo \ {c} /\ GivenCount' = GivenCount + 1
              /\ SameReceiving(sKcp, k) /\ SameWindows(sKcp, k) /\ k.updated = sKcp.updated
              /\ SenderSaid(k, GivenCount') /\ sKcp' \in EndType
              /\ toReceiver' \in SUBSET DatagramType /\ NetBase'
<1>1. TypeInv /\ SenderBase /\ sPc = "sending" /\ Alive /\ sKcp \in EndType /\ file \in Files
      /\ todo \in SUBSET Chunks
  BY DEF BaseInv, SendChunk, TypeInv, Alive
<1>2. PICK c \in todo :
         /\ todo' = todo \ {c}
         /\ SenderFlush(ikcp_send(sKcp, ChunkData(file, c)), {})
  BY DEF SendChunk
<1>3. UNCHANGED <<sPc, file, port, toSender, recvVars, envVars>>
  BY DEF SendChunk
<1> DEFINE n == GivenCount
           x == ChunkData(file, c)
           O == OutgoingOf(file)
           k == ikcp_send(sKcp, x)
           T == Cardinality(todo)
<1>4. /\ NumChunks \in Nat /\ T \in Nat /\ T <= NumChunks /\ (T = 0 <=> todo = {})
      /\ Cardinality(todo \ {c}) = T - 1
  BY <1>1, <1>2, ChunkCounts
<1> HIDE DEF T
<1>5. n = 1 + NumChunks - T /\ GivenCount' = 1 + NumChunks - (T - 1)
  BY <1>1, <1>2, <1>3, <1>4 DEF GivenCount, T
<1> HIDE DEF n
<1>6. n \in Nat /\ n > 0 /\ n <= NumChunks /\ GivenCount' = n + 1
  BY <1>4, <1>5
<1>7. x \in Messages /\ [sn |-> n, data |-> x] \in O
  <2>1. c \in Chunks
    BY <1>1
  <2>2. x \in Messages /\ x.file = file /\ x.type = "chunkData"
    BY <1>1, <2>1, MessagesMade DEF ChunkData
  <2> QED  BY <1>6, <2>2 DEF OutgoingOf, Outgoing, Stored
<1>8. SndOK(sKcp, O, n)
  BY <1>1 DEF SenderBase, n
<1> HIDE DEF x, O
<1>9. /\ k \in EndType /\ SndOK(k, O, n + 1)
      /\ SameReceiving(sKcp, k) /\ SameWindows(sKcp, k) /\ k.updated = sKcp.updated
  BY <1>1, <1>6, <1>7, <1>8, SendOK
<1>10. SenderFlush(k, {})
  BY <1>2 DEF x
<1> HIDE DEF k
<1>11. SenderSaid(k, n + 1) /\ sKcp' \in EndType /\ toReceiver' \in SUBSET DatagramType /\ NetBase'
  <2>1. n + 1 \in Nat
    BY <1>6
  <2> QED  BY <1>1, <1>3, <1>9, <1>10, <2>1, SenderSays DEF O
<1> QED  BY <1>2, <1>6, <1>9, <1>11 DEF n

\* SenderUpdate: the protocol is started, if it was not.
LEMMA SenderUpdateFacts ==
    ASSUME BaseInv, NEW due, SenderUpdate(due)
    PROVE  \E k \in EndType :
              /\ SameReceiving(sKcp, k) /\ SameWindows(sKcp, k) /\ k.updated
              /\ k.snd_queue = sKcp.snd_queue /\ k.snd_buf = sKcp.snd_buf
              /\ SenderSaid(k, GivenCount) /\ sKcp' \in EndType
              /\ toReceiver' \in SUBSET DatagramType /\ NetBase'
<1> DEFINE k == ikcp_update(sKcp)
<1>1. SenderBase /\ Alive /\ sKcp \in EndType /\ SenderFlush(k, due) /\ GivenCount \in Nat
      /\ UNCHANGED <<sPc, file, port, recvVars, toSender>>
  <2>1. TypeInv
    BY DEF BaseInv
  <2>2. GivenCount \in 1 .. NumChunks + 1 /\ NumChunks \in Nat
    BY <2>1, GivenBounds, ConnectionAssumption
  <2> QED  BY <2>1, <2>2 DEF BaseInv, SenderUpdate, TypeInv, Alive
<1>2. SndOK(sKcp, OutgoingOf(file), GivenCount)
  BY <1>1 DEF SenderBase
<1>3. /\ k \in EndType /\ k.updated /\ SameReceiving(sKcp, k) /\ SameWindows(sKcp, k)
      /\ k.snd_queue = sKcp.snd_queue /\ k.snd_buf = sKcp.snd_buf
      /\ SndOK(k, OutgoingOf(file), GivenCount)
  BY <1>1, <1>2, UpdateOK
<1> HIDE DEF k
<1>4. /\ SenderSaid(k, GivenCount) /\ sKcp' \in EndType
      /\ toReceiver' \in SUBSET DatagramType /\ NetBase'
  BY <1>1, <1>3, SenderSays
<1> QED  BY <1>3, <1>4

\* SenderInput of a datagram that reaches its socket.
LEMMA SenderInputFacts ==
    ASSUME BaseInv, NEW d \in toSender, SenderInput(d), Alive, d.port = port
    PROVE  \E k \in EndType :
              /\ Fed(sKcp, d.seg, k) /\ RcvOK(k, Answers, Taken(sKcp))
              /\ \A I \in SUBSET Answers :
                    /\ RcvOK(sKcp, I, Taken(sKcp))
                    /\ d.seg.cmd = "push" => d.seg.sn < sKcp.rcv_nxt \/ Carried(d.seg) \in I
                    => RcvOK(k, I, Taken(sKcp))
              /\ SenderSaid(k, GivenCount) /\ sKcp' \in EndType
              /\ toReceiver' \in SUBSET DatagramType /\ NetBase'
<1> DEFINE k == ikcp_input(sKcp, d.seg)
           c == Taken(sKcp)
<1>1. TypeInv /\ SenderBase /\ NetBase /\ Alive /\ sKcp \in EndType /\ GivenCount \in Nat
      /\ d \in DatagramType
  <2>1. TypeInv
    BY DEF BaseInv
  <2>2. GivenCount \in 1 .. NumChunks + 1 /\ NumChunks \in Nat
    BY <2>1, GivenBounds, ConnectionAssumption
  <2> QED  BY <2>1, <2>2 DEF BaseInv, TypeInv
<1>2. SenderFlush(k, {}) /\ toSender' \subseteq toSender
      /\ UNCHANGED <<sPc, file, port, recvVars>>
  BY <1>1 DEF SenderInput, Alive
<1>3. c \in Nat /\ RcvOK(sKcp, Answers, c) /\ SndOK(sKcp, OutgoingOf(file), GivenCount)
  BY <1>1 DEF SenderBase
<1>4. d.seg \in SegmentType /\ (d.seg.cmd = "push" => Carried(d.seg) \in Answers)
  BY <1>1 DEF DatagramType, NetBase
<1> HIDE DEF c
<1>5. ASSUME NEW I \in SUBSET Answers, RcvOK(sKcp, I, c),
             d.seg.cmd = "push" => d.seg.sn < sKcp.rcv_nxt \/ Carried(d.seg) \in I
      PROVE  Fed(sKcp, d.seg, k) /\ RcvOK(k, I, c)
  <2>1. I \in SUBSET Stored
    BY AnswersFacts
  <2> QED  BY <1>1, <1>3, <1>4, <1>5, <2>1, InputOK
<1> HIDE DEF k
<1>6. Fed(sKcp, d.seg, k) /\ RcvOK(k, Answers, c)
  BY <1>3, <1>4, <1>5
<1>7. k \in EndType /\ SndOK(k, OutgoingOf(file), GivenCount)
  BY <1>3, <1>6, FedSends DEF Fed
<1>8. /\ SenderSaid(k, GivenCount) /\ sKcp' \in EndType
      /\ toReceiver' \in SUBSET DatagramType /\ NetBase'
  BY <1>1, <1>2, <1>7, SenderSays
<1> QED  BY <1>5, <1>6, <1>7, <1>8 DEF c

\* BaseInv and the sender's critical sections.
LEMMA BaseSenderSays ==
    ASSUME BaseInv, NEW k, Alive, SenderSaid(k, GivenCount'), RcvOK(k, Answers, Taken(sKcp)),
           sKcp' \in EndType, toReceiver' \in SUBSET DatagramType, NetBase',
           toSender' \subseteq toSender, UNCHANGED <<sPc, file, port, recvVars, envVars>>,
           todo' \in SUBSET todo, sPc = "waitAck" => todo' = todo
    PROVE  BaseInv'
<1> DEFINE c == Taken(sKcp)
<1>1. TypeInv /\ SenderBase /\ ReceiverBase
  BY DEF BaseInv
<1>2. /\ c \in Nat /\ port > 0 /\ c = (IF sPc = "waitAck" THEN 0 ELSE 1)
      /\ (sPc = "waitAck" => todo = Chunks) /\ (sPc = "returned" => todo = {})
  BY <1>1 DEF SenderBase
<1> HIDE DEF c
<1>3. RcvOK(sKcp', Answers, c) /\ SndOK(sKcp', OutgoingOf(file), GivenCount')
  BY FlushedReceives DEF SenderSaid, c
<1>4. Taken(sKcp') = c
  BY <1>2, <1>3, TakenIs
<1>5. TypeInv'
  <2>1. file' = file /\ port' = port /\ sPc' = sPc /\ todo' \in SUBSET Chunks
        /\ toSender' \in SUBSET DatagramType
    BY <1>1 DEF TypeInv
  <2> QED  BY <1>1, <2>1 DEF TypeInv, recvVars, envVars
<1>6. SenderBase'
  <2>1. sPc' = sPc /\ file' = file /\ port' = port /\ Taken(sKcp)' = Taken(sKcp')
    BY DEF Taken
  <2> HIDE DEF GivenCount, Taken
  <2> QED  BY <1>2, <1>3, <1>4, <2>1 DEF SenderBase
<1>7. ReceiverBase'
  BY <1>1, ReceiverStays
<1> QED  BY <1>5, <1>6, <1>7 DEF BaseInv

\* SendChunk, SenderUpdate, SenderInput
LEMMA BaseSenderSections ==
    ASSUME BaseInv,
           \/ SendChunk
           \/ \E due \in SUBSET Sns(sKcp.snd_buf) : SenderUpdate(due)
           \/ \E d \in toSender : SenderInput(d)
    PROVE  BaseInv'
<1>1. TypeInv /\ SenderBase /\ ReceiverBase /\ NetBase
  BY DEF BaseInv
<1>2. CASE SendChunk
  <2>1. Alive /\ sPc # "waitAck" /\ UNCHANGED <<sPc, file, port, toSender, recvVars, envVars>>
    BY <1>2 DEF SendChunk, Alive
  <2>2. PICK c \in todo, k \in EndType :
           /\ todo' = todo \ {c} /\ SameReceiving(sKcp, k)
           /\ SenderSaid(k, GivenCount') /\ sKcp' \in EndType
           /\ toReceiver' \in SUBSET DatagramType /\ NetBase'
    BY <1>2, SendChunkFacts
  <2>3. RcvOK(k, Answers, Taken(sKcp))
    BY <1>1, <2>1, <2>2, SameOK DEF SenderBase
  <2> QED  BY <2>1, <2>2, <2>3, BaseSenderSays
<1>3. CASE \E due \in SUBSET Sns(sKcp.snd_buf) : SenderUpdate(due)
  <2>1. PICK due : SenderUpdate(due)
    BY <1>3
  <2>2. Alive /\ UNCHANGED <<sPc, file, port, todo, toSender, recvVars, envVars>>
    BY <2>1 DEF SenderUpdate, Alive
  <2>3. PICK k \in EndType :
           /\ SameReceiving(sKcp, k)
           /\ SenderSaid(k, GivenCount) /\ sKcp' \in EndType
           /\ toReceiver' \in SUBSET DatagramType /\ NetBase'
    BY <2>1, SenderUpdateFacts
  <2>4. RcvOK(k, Answers, Taken(sKcp))
    BY <1>1, <2>2, <2>3, SameOK DEF SenderBase
  <2>5. GivenCount' = GivenCount
    BY <2>2 DEF GivenCount
  <2> QED  BY <2>2, <2>3, <2>4, <2>5, BaseSenderSays
<1>4. CASE \E d \in toSender : SenderInput(d)
  <2>1. PICK d \in toSender : SenderInput(d)
    BY <1>4
  <2>2. toSender' \subseteq toSender /\ UNCHANGED <<sPc, file, port, todo, recvVars, envVars>>
    BY <2>1 DEF SenderInput
  <2>3. CASE Alive /\ d.port = port
    <3>1. PICK k \in EndType :
             /\ RcvOK(k, Answers, Taken(sKcp))
             /\ SenderSaid(k, GivenCount) /\ sKcp' \in EndType
             /\ toReceiver' \in SUBSET DatagramType /\ NetBase'
      BY <2>1, <2>3, SenderInputFacts
    <3>2. GivenCount' = GivenCount
      BY <2>2 DEF GivenCount
    <3> QED  BY <2>2, <2>3, <3>1, <3>2, BaseSenderSays
  <2>4. CASE ~(Alive /\ d.port = port)
    <3>1. UNCHANGED <<sKcp, toReceiver>>
      BY <2>1, <2>4 DEF SenderInput, Alive
    <3>2. SenderBase' /\ ReceiverBase' /\ NetBase'
      BY <1>1, <2>2, <3>1, SenderStays, ReceiverStays, NetStays DEF sendVars
    <3>3. TypeInv'
      BY <1>1, <2>2, <3>1 DEF TypeInv, recvVars, envVars
    <3> QED  BY <3>2, <3>3 DEF BaseInv
  <2> QED  BY <2>3, <2>4
<1> QED  BY <1>2, <1>3, <1>4

\* SendFileReturns, SenderCloses, SenderDrops
LEMMA BaseSenderThread ==
    ASSUME BaseInv, SendFileReturns \/ SenderCloses \/ SenderDrops
    PROVE  BaseInv'
<1>1. TypeInv /\ SenderBase /\ ReceiverBase /\ NetBase
  BY DEF BaseInv
<1>2. UNCHANGED <<port, todo, sKcp, recvVars, netVars, lost, scenario>>
  BY DEF SendFileReturns, SenderCloses, SenderDrops, envVars
<1>3. ReceiverBase'
  BY <1>1, <1>2, ReceiverStays
<1>4. CASE SendFileReturns
  <2>1. sPc = "sending" /\ todo = {} /\ sPc' = "returned" /\ UNCHANGED <<file, drops>>
    BY <1>4 DEF SendFileReturns, envVars
  <2>2. TypeInv'
    BY <1>1, <1>2, <2>1 DEF TypeInv, recvVars, netVars
  <2>3. SenderBase'
    <3>1. GivenCount' = GivenCount /\ Taken(sKcp)' = Taken(sKcp) /\ Alive
      BY <1>2, <2>1 DEF GivenCount, Taken, Alive
    <3> HIDE DEF GivenCount, Taken
    <3> QED  BY <1>1, <1>2, <2>1, <3>1 DEF SenderBase
  <2>4. NetBase'
    <3>1. Alive
      BY <2>1 DEF Alive
    <3> QED  BY <1>1, <1>2, <2>1, <3>1 DEF NetBase, netVars
  <2> QED  BY <1>3, <2>2, <2>3, <2>4 DEF BaseInv
<1>5. CASE SenderCloses \/ SenderDrops
  <2>1. sPc' = "idle" /\ file' \in {file, file + 1} /\ drops' \in {drops, drops + 1}
    BY <1>5 DEF SenderCloses, SenderDrops, envVars
  <2>2. file' \in Files /\ drops' \in Nat
    BY <1>1, <2>1 DEF TypeInv, Files, NoFile
  <2>3. ~Alive'
    BY <2>1 DEF Alive
  <2>4. TypeInv'
    BY <1>1, <1>2, <2>1, <2>2 DEF TypeInv, recvVars, netVars
  <2>5. SenderBase'
    BY <2>3 DEF SenderBase
  <2>6. NetBase'
    BY <1>1, <1>2, <2>3 DEF NetBase, netVars
  <2> QED  BY <1>3, <2>4, <2>5, <2>6 DEF BaseInv
<1> QED  BY <1>4, <1>5

------------------------------------------------------------------------------
(* BaseInv: the receiver *)

\* Answers the receiver's Session gave to KCP.
AnswerCount == IF claimed = NoFile THEN 0 ELSE 1

\* An endpoint that was given nothing sends nothing.
LEMMA NothingGiven ==
    ASSUME NEW k \in EndType, NEW O, SndOK(k, O, 0)
    PROVE  k.snd_queue = <<>> /\ k.snd_buf = {} /\ \A O2 : SndOK(k, O2, 0)
<1>1. k.snd_queue \in Seq(Messages) /\ Len(k.snd_queue) \in Nat /\ k.snd_nxt \in Nat
      /\ k.snd_buf \in SUBSET Stored
  BY EndFields
<1>2. k.snd_nxt = 0 /\ Len(k.snd_queue) = 0
  BY <1>1 DEF SndOK
<1>3. k.snd_queue = <<>>
  BY <1>1, <1>2, EmptySeq
<1>4. k.snd_buf = {}
  <2>1. ASSUME NEW s \in k.snd_buf PROVE FALSE
    <3>1. s.sn \in Nat /\ s.sn < 0
      BY <1>1, <1>2 DEF SndOK, Stored
    <3> QED  BY <3>1
  <2> QED  BY <2>1
<1>5. \A O2 : SndOK(k, O2, 0)
  BY <1>2, <1>4 DEF SndOK
<1> QED  BY <1>3, <1>4, <1>5

\* A silent endpoint without messages says nothing.
LEMMA SilentSays ==
    ASSUME NEW k, NEW O, NEW n, NEW m, Says(k, O, n, m), Silent(k),
           k.snd_queue = <<>>, k.snd_buf = {}
    PROVE  FALSE
<1>1. m \in SegmentType
  BY DEF Says
<1>2. m.cmd \in {"ack", "push", "wask", "wins"}
  BY <1>1, SegmentFields
<1> QED  BY <1>2 DEF Says, Silent

\* What a critical section of the receiver says is an answer, and to someone.
LEMMA ReceiverSays ==
    ASSUME BaseInv, NEW k \in EndType, NEW f, NEW n \in Nat, SndOK(k, AnswersOf(f), n), NEW due,
           ReceiverFlush(k, due), UNCHANGED sendVars, toReceiver' \subseteq toReceiver,
           remote' \in 0 .. port,
           remote' = NoPort => Silent(k) /\ k.snd_queue = <<>> /\ k.snd_buf = {}
    PROVE  /\ ReceiverSaid(k, f, n) /\ rKcp' \in EndType
           /\ toSender' \in SUBSET DatagramType /\ NetBase'
<1>1. port \in Nat /\ remote' \in Nat /\ toSender \in SUBSET DatagramType /\ NetBase
  BY DEF BaseInv, TypeInv
<1>2. /\ Flushed(k, rKcp') /\ SndOK(rKcp', AnswersOf(f), n)
      /\ toSender' \in SUBSET DatagramType
      /\ \A d \in toSender' :
            d \in toSender \/ (d.port = remote' /\ Says(k, AnswersOf(f), n, d.seg))
  BY <1>1, ReceiverFlushes
<1>3. ASSUME NEW d \in toSender'
      PROVE  d.port \in 1 .. port /\ (d.seg.cmd = "push" => Carried(d.seg) \in Answers)
  <2>1. CASE d \in toSender
    BY <1>1, <2>1 DEF NetBase
  <2>2. CASE d.port = remote' /\ Says(k, AnswersOf(f), n, d.seg)
    <3>1. d.seg.cmd = "push" => Carried(d.seg) \in AnswersOf(f)
      BY <2>2 DEF Says
    <3>2. remote' # NoPort
      BY <2>2, SilentSays
    <3> QED  BY <1>1, <2>2, <3>1, <3>2, AnswersFacts DEF NoPort
  <2> QED  BY <1>2, <2>1, <2>2
<1>4. port' = port /\ file' = file /\ (Alive' <=> Alive)
  BY DEF sendVars, Alive
<1>5. NetBase'
  BY <1>1, <1>3, <1>4 DEF NetBase
<1> QED  BY <1>2, <1>5 DEF Flushed, ReceiverSaid

\* What the receiver's Session read, as a number.
LEMMA ReadBounds ==
    ASSUME TypeInv
    PROVE  ReadCount \in Nat /\ (ReadCount = 0 <=> claimed = NoFile) /\ AnswerCount \in Nat
  BY DEF TypeInv, ReadCount, AnswerCount

\* What was opened is in what was received.
LEMMA OpenedSame ==
    ASSUME NEW k, NEW k1, NEW f, SameReceiving(k, k1)
    PROVE  OpenedOf(k1, f) = OpenedOf(k, f)
  BY DEF SameReceiving, OpenedOf

\* ReceiverInput of a datagram that reaches a socket: only the first handshake
\* opens a file.
LEMMA ReceiverInputFacts ==
    ASSUME BaseInv, NEW d \in toReceiver, ReceiverInput(d), Bound
    PROVE  \E k \in EndType :
              /\ Fed(rKcp, d.seg, k) /\ RcvOK(k, OutgoingFrom(Opened'), ReadCount)
              /\ Opened # NoFile \/ d.seg.cmd # "push" => Opened' = Opened
              /\ Opened = NoFile /\ d.seg.cmd = "push" /\ d.seg.sn = 0
                    => Opened' = d.seg.data.file
              /\ \A I \in SUBSET Outgoing :
                    /\ RcvOK(rKcp, I, ReadCount)
                    /\ d.seg.cmd = "push" => d.seg.sn < rKcp.rcv_nxt \/ Carried(d.seg) \in I
                    => RcvOK(k, I, ReadCount)
              /\ remote' = (IF remote = NoPort THEN d.port ELSE remote)
              /\ remote' \in 1 .. port
              /\ ReceiverSaid(k, Opened', AnswerCount) /\ rKcp' \in EndType
              /\ toSender' \in SUBSET DatagramType /\ NetBase'
<1> DEFINE k == ikcp_input(rKcp, d.seg)
           c == ReadCount
           o == OpenedOf(k, claimed)
<1>1. /\ TypeInv /\ ReceiverBase /\ NetBase /\ rKcp \in EndType /\ d \in DatagramType
      /\ claimed \in Nat /\ port \in Nat /\ remote \in 0 .. port
  BY DEF BaseInv, TypeInv
<1>2. /\ ReceiverFlush(k, {}) /\ toReceiver' \subseteq toReceiver
      /\ UNCHANGED <<sendVars, rPc, claimed, got, chunks_recv_, received, envVars>>
      /\ remote' = IF remote = NoPort THEN d.port ELSE remote
  BY DEF ReceiverInput, Bound
<1>3. /\ SndOK(rKcp, AnswersOf(Opened), AnswerCount)
      /\ RcvOK(rKcp, OutgoingFrom(OpenedOf(rKcp, claimed)), c)
  BY <1>1 DEF ReceiverBase, Opened, AnswerCount
<1>4. c \in Nat /\ (c = 0 <=> claimed = NoFile) /\ AnswerCount \in Nat
  BY <1>1, ReadBounds
<1>5. d.seg \in SegmentType /\ (d.seg.cmd = "push" => Carried(d.seg) \in Outgoing)
      /\ d.port \in 1 .. port
  BY <1>1 DEF DatagramType, NetBase
<1> HIDE DEF c
<1>6. /\ Fed(rKcp, d.seg, k) /\ RcvOK(k, OutgoingFrom(o), c)
      /\ Opened # NoFile \/ d.seg.cmd # "push" => o = Opened
      /\ Opened = NoFile /\ d.seg.cmd = "push" /\ d.seg.sn = 0 => o = d.seg.data.file
  BY <1>1, <1>3, <1>4, <1>5, OpenedFed DEF Opened
<1>7. ASSUME NEW I \in SUBSET Outgoing, RcvOK(rKcp, I, c),
             d.seg.cmd = "push" => d.seg.sn < rKcp.rcv_nxt \/ Carried(d.seg) \in I
      PROVE  RcvOK(k, I, c)
  <2>1. I \in SUBSET Stored
    BY OutgoingFacts
  <2> QED  BY <1>1, <1>4, <1>5, <1>7, <2>1, InputOK
<1> HIDE DEF k, o
<1>8. k \in EndType /\ SndOK(k, AnswersOf(o), AnswerCount)
  <2>1. k \in EndType /\ SndOK(k, AnswersOf(Opened), AnswerCount)
    BY <1>3, <1>6, FedSends DEF Fed
  <2>2. CASE claimed = NoFile
    <3>1. AnswerCount = 0
      BY <2>2 DEF AnswerCount
    <3> QED  BY <2>1, <3>1, NothingGiven
  <2>3. CASE claimed # NoFile
    <3>1. Opened = claimed /\ o = claimed
      BY <2>3 DEF Opened, OpenedOf, o
    <3> QED  BY <2>1, <3>1
  <2> QED  BY <2>2, <2>3
<1>9. remote' \in 1 .. port /\ remote' \in 0 .. port /\ remote' # NoPort
  BY <1>1, <1>2, <1>5 DEF NoPort
<1>10. /\ ReceiverSaid(k, o, AnswerCount) /\ rKcp' \in EndType
       /\ toSender' \in SUBSET DatagramType /\ NetBase'
  <2>1. UNCHANGED sendVars
    BY <1>2
  <2> QED  BY <1>2, <1>4, <1>8, <1>9, <2>1, ReceiverSays
<1>11. Opened' = o
  <2>1. SameReceiving(k, rKcp') /\ claimed' = claimed
    BY <1>2, <1>10 DEF ReceiverSaid, Flushed
  <2> QED  BY <2>1, OpenedSame DEF Opened, o
<1> QED  BY <1>2, <1>6, <1>7, <1>8, <1>9, <1>10, <1>11 DEF c

\* ReceiverUpdate: the protocol is started, if it was not.
LEMMA ReceiverUpdateFacts ==
    ASSUME BaseInv, NEW due, ReceiverUpdate(due)
    PROVE  \E k \in EndType :
              /\ SameReceiving(rKcp, k) /\ SameWindows(rKcp, k) /\ k.updated
              /\ k.snd_queue = rKcp.snd_queue /\ k.snd_buf = rKcp.snd_buf
              /\ ReceiverSaid(k, Opened, AnswerCount) /\ rKcp' \in EndType
              /\ toSender' \in SUBSET DatagramType /\ NetBase' /\ Opened' = Opened
<1> DEFINE k == ikcp_update(rKcp)
<1>1. /\ TypeInv /\ ReceiverBase /\ rKcp \in EndType /\ Bound /\ AnswerCount \in Nat
      /\ ReceiverFlush(k, due) /\ remote \in 0 .. port
      /\ UNCHANGED <<sendVars, remote, claimed, toReceiver>>
  <2>1. TypeInv
    BY DEF BaseInv
  <2> QED  BY <2>1, ReadBounds DEF BaseInv, ReceiverUpdate, TypeInv, Bound
<1>2. SndOK(rKcp, AnswersOf(Opened), AnswerCount)
  BY <1>1 DEF ReceiverBase, AnswerCount
<1>3. /\ k \in EndType /\ k.updated /\ SameReceiving(rKcp, k) /\ SameWindows(rKcp, k)
      /\ k.snd_queue = rKcp.snd_queue /\ k.snd_buf = rKcp.snd_buf
      /\ SndOK(k, AnswersOf(Opened), AnswerCount)
  BY <1>1, <1>2, UpdateOK
<1> HIDE DEF k
<1>4. ASSUME remote = NoPort PROVE Silent(k) /\ k.snd_queue = <<>> /\ k.snd_buf = {}
  <2>1. claimed = NoFile /\ Silent(rKcp)
    BY <1>1, <1>4 DEF ReceiverBase
  <2>2. rKcp.snd_queue = <<>> /\ rKcp.snd_buf = {}
    BY <1>1, <1>2, <2>1, NothingGiven DEF AnswerCount
  <2> QED  BY <1>3, <2>1, <2>2 DEF Silent, SameWindows
<1>5. /\ ReceiverSaid(k, Opened, AnswerCount) /\ rKcp' \in EndType
      /\ toSender' \in SUBSET DatagramType /\ NetBase'
  BY <1>1, <1>3, <1>4, ReceiverSays
<1>6. Opened' = Opened
  <2>1. SameReceiving(k, rKcp') /\ claimed' = claimed
    BY <1>1, <1>5 DEF ReceiverSaid, Flushed
  <2> QED  BY <1>3, <2>1, OpenedSame DEF Opened
<1> QED  BY <1>3, <1>5, <1>6

\* What is read next: a handshake comes first, and only chunks after it.
LEMMA ReceiverReads ==
    ASSUME BaseInv, Bound, rKcp.rcv_queue # <<>>
    PROVE  LET m == Head(rKcp.rcv_queue)
               k == ikcp_recv(rKcp)
           IN  /\ remote # NoPort /\ m \in Messages
               /\ m.type = "handshake" => claimed = NoFile /\ m.file = Opened /\ m.file # NoFile
               /\ m.type = "chunkData" => claimed # NoFile /\ m.chunk \in Chunks
               /\ k \in EndType /\ SameSending(rKcp, k) /\ k.acklist = rKcp.acklist
               /\ Len(rKcp.rcv_queue) < rcv_wnd => k.probe = rKcp.probe
               /\ \A I \in SUBSET Outgoing :
                     RcvOK(rKcp, I, ReadCount) => /\ RcvOK(k, I, ReadCount + 1)
                                                  /\ [sn |-> ReadCount, data |-> m] \in I
<1> DEFINE m == Head(rKcp.rcv_queue)
           k == ikcp_recv(rKcp)
           c == ReadCount
           J == OutgoingFrom(Opened)
<1>1. TypeInv /\ ReceiverBase /\ rKcp \in EndType
  BY DEF BaseInv, TypeInv
<1>2. c \in Nat /\ (c = 0 <=> claimed = NoFile)
  BY <1>1, ReadBounds
<1>3. RcvOK(rKcp, J, c) /\ J \in SUBSET Outgoing /\ remote # NoPort
  BY <1>1, OutgoingFacts DEF ReceiverBase
<1> HIDE DEF c, m, k, J
<1>4. ASSUME NEW I \in SUBSET Outgoing, RcvOK(rKcp, I, c)
      PROVE  /\ RcvOK(k, I, c + 1) /\ [sn |-> c, data |-> m] \in I
             /\ m = rKcp.rcv_queue[1]
             /\ k \in EndType /\ SameSending(rKcp, k) /\ k.acklist = rKcp.acklist
             /\ Len(rKcp.rcv_queue) < rcv_wnd => k.probe = rKcp.probe
  <2>1. I \in SUBSET Stored
    BY OutgoingFacts
  <2> QED  BY <1>1, <1>2, <1>4, <2>1, RecvOK DEF m, k
<1>5. [sn |-> c, data |-> m] \in J /\ m = rKcp.rcv_queue[1]
  BY <1>3, <1>4
<1>6. PICK s \in J : s = [sn |-> c, data |-> m]
  BY <1>5
<1>7. s.sn = c /\ s.data = m /\ s \in Outgoing
  BY <1>3, <1>6
<1>8. m \in Messages /\ m.type = (IF c = 0 THEN "handshake" ELSE "chunkData")
  BY <1>7, OutgoingFacts DEF Outgoing
<1>9. m.type = "handshake" => claimed = NoFile /\ m.file = Opened /\ m.file # NoFile
  <2>1. claimed = NoFile => Opened = m.file
    BY <1>5 DEF Opened, OpenedOf
  <2> QED  BY <1>2, <1>8, <2>1, MessageFields
<1>10. m.type = "chunkData" => claimed # NoFile /\ m.chunk \in Chunks
  BY <1>2, <1>8, MessageFields
<1> QED  BY <1>3, <1>4, <1>8, <1>9, <1>10 DEF c, m, k

\* ReceiverRecv of a handshake: it is the first, and answered with no chunks.
LEMMA ReceiverHandshakeFacts ==
    ASSUME BaseInv, ReceiverRecv, Head(rKcp.rcv_queue).type = "handshake"
    PROVE  /\ claimed = NoFile /\ claimed' = Opened /\ Opened' = Opened /\ Opened # NoFile
           /\ remote # NoPort /\ ReadCount = 0 /\ ReadCount' = 1 /\ UNCHANGED <<got, chunks_recv_>>
           /\ \E k \in EndType :
                 /\ k.rmt_wnd = rKcp.rmt_wnd /\ k.updated = rKcp.updated
                 /\ k.acklist = rKcp.acklist
                 /\ Len(rKcp.rcv_queue) < rcv_wnd => k.probe = rKcp.probe
                 /\ \A I \in SUBSET Outgoing :
                       RcvOK(rKcp, I, ReadCount) => RcvOK(k, I, ReadCount')
                 /\ ReceiverSaid(k, Opened, 1) /\ rKcp' \in EndType
                 /\ toSender' \in SUBSET DatagramType /\ NetBase'
<1> DEFINE m == Head(rKcp.rcv_queue)
           k0 == ikcp_recv(rKcp)
           bits == {c \in Chunks : got[c] # NoFile}
           x == Ack(m.file, bits)
           k == ikcp_send(k0, x)
           O == AnswersOf(Opened)
<1>1. /\ TypeInv /\ ReceiverBase /\ Bound /\ rKcp.rcv_queue # <<>>
      /\ remote \in 0 .. port /\ UNCHANGED <<sendVars, remote, toReceiver>>
  BY DEF BaseInv, TypeInv, ReceiverRecv, Bound
<1>2. ReceiverHandshake(m)
  BY DEF ReceiverRecv, ReceiverChunk
<1>3. /\ claimed' = (IF claimed = NoFile THEN m.file ELSE claimed)
      /\ UNCHANGED <<got, chunks_recv_>> /\ ReceiverFlush(k, {})
  BY <1>2 DEF ReceiverHandshake
<1> HIDE DEF k, k0
<1>4. /\ remote # NoPort /\ m \in Messages /\ claimed = NoFile
      /\ m.file = Opened /\ m.file # NoFile
      /\ k0 \in EndType /\ SameSending(rKcp, k0) /\ k0.acklist = rKcp.acklist
      /\ Len(rKcp.rcv_queue) < rcv_wnd => k0.probe = rKcp.probe
      /\ \A I \in SUBSET Outgoing :
            RcvOK(rKcp, I, ReadCount) => RcvOK(k0, I, ReadCount + 1)
  <2> HIDE DEF bits, x, O
  <2> QED  BY <1>1, ReceiverReads DEF m, k0
<1>5. ReadCount = 0 /\ claimed' = Opened /\ ReadCount' = 1 /\ Opened' = Opened
  <2>1. chunks_recv_ = 0
    BY <1>1, <1>4 DEF ReceiverBase
  <2>2. ReadCount = 0 /\ claimed' = Opened /\ claimed' # NoFile
    BY <1>3, <1>4 DEF ReadCount
  <2>3. ReadCount' = 1
    BY <1>3, <2>1, <2>2 DEF ReadCount
  <2>4. Opened' = claimed'
    BY <2>2 DEF Opened, OpenedOf
  <2> QED  BY <2>2, <2>3, <2>4
<1>6. bits = {}
  BY <1>1, <1>4 DEF ReceiverBase
<1>7. x \in Messages /\ [sn |-> 0, data |-> x] \in O
  <2>1. m.file \in Files /\ bits \in SUBSET Chunks
    BY <1>4, MessageFields
  <2>2. x \in Messages /\ x.file = Opened /\ x.type = "handshakeAck" /\ x.bits = {}
    BY <1>4, <1>6, <2>1, MessagesMade DEF Ack
  <2> HIDE DEF x
  <2> QED  BY <2>2 DEF AnswersOf, Answers, Stored
<1>8. SndOK(k0, O, 0)
  <2>1. SndOK(rKcp, O, 0)
    BY <1>1, <1>4 DEF ReceiverBase
  <2> QED  BY <1>4, <2>1, SameOK
<1> HIDE DEF x, O, bits
<1>9. /\ k \in EndType /\ SndOK(k, O, 1)
      /\ SameReceiving(k0, k) /\ SameWindows(k0, k) /\ k.updated = k0.updated
  BY <1>4, <1>7, <1>8, SendOK DEF k
<1>10. /\ ReceiverSaid(k, Opened, 1) /\ rKcp' \in EndType
       /\ toSender' \in SUBSET DatagramType /\ NetBase'
  BY <1>1, <1>3, <1>4, <1>9, ReceiverSays DEF O
<1>11. ASSUME NEW I \in SUBSET Outgoing, RcvOK(rKcp, I, ReadCount)
       PROVE  RcvOK(k, I, ReadCount')
  <2>1. RcvOK(k0, I, 0 + 1)
    BY <1>4, <1>5, <1>11
  <2>2. RcvOK(k, I, 1)
    BY <1>9, <2>1, SameOK
  <2> QED  BY <1>5, <2>2
<1>12. /\ k.rmt_wnd = rKcp.rmt_wnd /\ k.updated = rKcp.updated /\ k.acklist = rKcp.acklist
       /\ Len(rKcp.rcv_queue) < rcv_wnd => k.probe = rKcp.probe
  BY <1>4, <1>9 DEF SameSending, SameWindows
<1>13. Opened # NoFile /\ UNCHANGED <<got, chunks_recv_>>
  BY <1>3, <1>4
<1> HIDE DEF m
<1> QED  BY <1>4, <1>5, <1>9, <1>10, <1>11, <1>12, <1>13

\* ReceiverRecv of a chunk: there is a file to put it in.
LEMMA ReceiverChunkFacts ==
    ASSUME BaseInv, ReceiverRecv, Head(rKcp.rcv_queue).type # "handshake"
    PROVE  /\ claimed # NoFile /\ remote # NoPort /\ UNCHANGED <<claimed, toSender>>
           /\ Opened' = Opened /\ ReadCount' = ReadCount + 1 /\ chunks_recv_' = chunks_recv_ + 1
           /\ Head(rKcp.rcv_queue).chunk \in Chunks
           /\ Head(rKcp.rcv_queue).file \in Nat
           /\ got' = [got EXCEPT ![Head(rKcp.rcv_queue).chunk] = Head(rKcp.rcv_queue).file]
           /\ rKcp' \in EndType /\ SameSending(rKcp, rKcp') /\ rKcp'.acklist = rKcp.acklist
           /\ Len(rKcp.rcv_queue) < rcv_wnd => rKcp'.probe = rKcp.probe
           /\ \A I \in SUBSET Outgoing :
                 RcvOK(rKcp, I, ReadCount)
                 => /\ RcvOK(rKcp', I, ReadCount')
                    /\ [sn |-> ReadCount, data |-> Head(rKcp.rcv_queue)] \in I
<1> DEFINE m == Head(rKcp.rcv_queue)
<1>1. TypeInv /\ Bound /\ rKcp.rcv_queue # <<>>
  BY DEF BaseInv, ReceiverRecv, Bound
<1>2. ReceiverChunk(m)
  BY DEF ReceiverRecv, ReceiverHandshake
<1>3. m.type = "chunkData" /\ rKcp' = ikcp_recv(rKcp) /\ UNCHANGED <<claimed, toSender>>
      /\ (claimed # NoFile => /\ got' = [got EXCEPT ![m.chunk] = m.file]
                              /\ chunks_recv_' = chunks_recv_ + 1)
  BY <1>2 DEF ReceiverChunk
<1>4. /\ remote # NoPort /\ m \in Messages /\ claimed # NoFile /\ m.chunk \in Chunks
      /\ rKcp' \in EndType /\ SameSending(rKcp, rKcp') /\ rKcp'.acklist = rKcp.acklist
      /\ Len(rKcp.rcv_queue) < rcv_wnd => rKcp'.probe = rKcp.probe
      /\ \A I \in SUBSET Outgoing :
            RcvOK(rKcp, I, ReadCount) => /\ RcvOK(rKcp', I, ReadCount + 1)
                                         /\ [sn |-> ReadCount, data |-> m] \in I
  BY <1>1, <1>3, ReceiverReads
<1>5. m.file \in Nat
  BY <1>4, MessageFields
<1> HIDE DEF m
<1>6. ReadCount' = ReadCount + 1
  BY <1>1, <1>3, <1>4 DEF ReadCount, TypeInv
<1>7. Opened' = Opened
  BY <1>3, <1>4 DEF Opened, OpenedOf
<1> QED  BY <1>3, <1>4, <1>5, <1>6, <1>7 DEF m

\* BaseInv and the receiver's critical sections.
LEMMA BaseReceiverSays ==
    ASSUME BaseInv, Bound', rKcp' \in EndType, RcvOK(rKcp', OutgoingFrom(Opened'), ReadCount'),
           SndOK(rKcp', AnswersOf(Opened'), AnswerCount'),
           toReceiver' \subseteq toReceiver, toSender' \in SUBSET DatagramType, NetBase',
           UNCHANGED <<sendVars, envVars>>, rPc' \in {"listening", "returned"},
           remote' \in 0 .. port, claimed' \in Nat,
           got' \in [Chunks -> Nat], chunks_recv_' \in Nat, received' \in Seq(Nat),
           claimed' = NoFile => chunks_recv_' = 0 /\ \A c \in Chunks : got'[c] = NoFile,
           remote' = NoPort =>
              /\ rPc' = "listening" /\ claimed' = NoFile
              /\ rKcp'.rcv_queue = <<>> /\ rKcp'.rcv_buf = {} /\ Silent(rKcp'),
           rPc' = "returned" => claimed' # NoFile /\ chunks_recv_' >= NumChunks
    PROVE  BaseInv'
<1>1. TypeInv /\ SenderBase
  BY DEF BaseInv
<1>2. SenderBase'
  BY <1>1, SenderStays
<1>3. TypeInv'
  <2>1. toReceiver' \in SUBSET DatagramType /\ remote' \in 0 .. port'
    BY <1>1 DEF TypeInv, sendVars
  <2> QED  BY <1>1, <2>1 DEF TypeInv, sendVars, envVars
<1>4. ReceiverBase'
  BY DEF ReceiverBase, AnswerCount
<1> QED  BY <1>2, <1>3, <1>4 DEF BaseInv

\* ReceiverInput, ReceiverUpdate
LEMMA BaseReceiverNet ==
    ASSUME BaseInv,
           \/ \E due \in SUBSET Sns(rKcp.snd_buf) : ReceiverUpdate(due)
           \/ \E d \in toReceiver : ReceiverInput(d)
    PROVE  BaseInv'
<1>1. TypeInv /\ SenderBase /\ ReceiverBase /\ NetBase
  BY DEF BaseInv
<1>2. /\ claimed \in Nat /\ got \in [Chunks -> Nat] /\ chunks_recv_ \in Nat
      /\ received \in Seq(Nat) /\ remote \in 0 .. port /\ port \in Nat
      /\ rPc \in {"unbound", "listening", "returned"}
  BY <1>1 DEF TypeInv
<1>3. /\ UNCHANGED <<sendVars, envVars, rPc, claimed, got, chunks_recv_, received>>
      /\ toReceiver' \subseteq toReceiver
  BY DEF ReceiverUpdate, ReceiverInput
<1>4. ReadCount' = ReadCount /\ AnswerCount' = AnswerCount
  BY <1>3 DEF ReadCount, AnswerCount
<1>5. CASE \E due \in SUBSET Sns(rKcp.snd_buf) : ReceiverUpdate(due)
  <2>1. PICK due : ReceiverUpdate(due)
    BY <1>5
  <2>2. Bound /\ Bound' /\ remote' = remote /\ rPc' \in {"listening", "returned"}
    BY <1>2, <2>1 DEF ReceiverUpdate, Bound
  <2>3. PICK k \in EndType :
           /\ SameReceiving(rKcp, k) /\ SameWindows(rKcp, k)
           /\ ReceiverSaid(k, Opened, AnswerCount) /\ rKcp' \in EndType
           /\ toSender' \in SUBSET DatagramType /\ NetBase' /\ Opened' = Opened
    BY <2>1, ReceiverUpdateFacts
  <2>4. Flushed(k, rKcp') /\ SndOK(rKcp', AnswersOf(Opened), AnswerCount)
    BY <2>3 DEF ReceiverSaid
  <2>5. RcvOK(rKcp', OutgoingFrom(Opened), ReadCount)
    <3>1. RcvOK(k, OutgoingFrom(Opened), ReadCount)
      BY <1>1, <2>2, <2>3, SameOK DEF ReceiverBase
    <3> QED  BY <2>4, <3>1, FlushedReceives
  <2>6. ASSUME remote = NoPort
        PROVE  /\ rPc = "listening" /\ claimed = NoFile
               /\ rKcp'.rcv_queue = <<>> /\ rKcp'.rcv_buf = {} /\ Silent(rKcp')
    <3>1. /\ rPc = "listening" /\ claimed = NoFile
          /\ rKcp.rcv_queue = <<>> /\ rKcp.rcv_buf = {} /\ Silent(rKcp)
      BY <1>1, <2>2, <2>6 DEF ReceiverBase
    <3>2. rKcp'.rcv_queue = <<>> /\ rKcp'.rcv_buf = {}
      BY <2>3, <2>4, <3>1 DEF Flushed, SameReceiving
    <3>3. Silent(rKcp')
      BY <2>3, <2>4, <3>1 DEF Flushed, SameWindows, Silent
    <3> QED  BY <3>1, <3>2, <3>3
  <2>7. /\ claimed = NoFile => chunks_recv_ = 0 /\ \A c \in Chunks : got[c] = NoFile
        /\ rPc = "returned" => claimed # NoFile /\ chunks_recv_ >= NumChunks
    BY <1>1, <2>2 DEF ReceiverBase
  <2> HIDE DEF Bound, ReadCount, AnswerCount, Opened
  <2> QED  BY <1>2, <1>3, <1>4, <2>2, <2>3, <2>4, <2>5, <2>6, <2>7, BaseReceiverSays
<1>6. CASE \E d \in toReceiver : ReceiverInput(d)
  <2>1. PICK d \in toReceiver : ReceiverInput(d)
    BY <1>6
  <2>2. CASE Bound
    <3>1. PICK k \in EndType :
             /\ RcvOK(k, OutgoingFrom(Opened'), ReadCount)
             /\ remote' \in 1 .. port
             /\ ReceiverSaid(k, Opened', AnswerCount) /\ rKcp' \in EndType
             /\ toSender' \in SUBSET DatagramType /\ NetBase'
      BY <2>1, <2>2, ReceiverInputFacts
    <3>2. Flushed(k, rKcp') /\ SndOK(rKcp', AnswersOf(Opened'), AnswerCount)
      BY <3>1 DEF ReceiverSaid
    <3>3. RcvOK(rKcp', OutgoingFrom(Opened'), ReadCount)
      BY <3>1, <3>2, FlushedReceives
    <3>4. Bound' /\ rPc' \in {"listening", "returned"} /\ remote' # NoPort /\ remote' \in 0 .. port
      BY <1>2, <1>3, <2>2, <3>1 DEF Bound, NoPort
    <3>5. /\ claimed = NoFile => chunks_recv_ = 0 /\ \A c \in Chunks : got[c] = NoFile
          /\ rPc = "returned" => claimed # NoFile /\ chunks_recv_ >= NumChunks
      BY <1>1, <2>2 DEF ReceiverBase
    <3> HIDE DEF Bound, ReadCount, AnswerCount, Opened
    <3> QED  BY <1>2, <1>3, <1>4, <3>1, <3>2, <3>3, <3>4, <3>5, BaseReceiverSays
  <2>3. CASE ~Bound
    <3>1. UNCHANGED <<remote, rKcp, toSender>>
      BY <2>1, <2>3 DEF ReceiverInput, Bound
    <3>2. SenderBase' /\ ReceiverBase' /\ NetBase'
      BY <1>1, <1>3, <3>1, SenderStays, ReceiverStays, NetStays DEF sendVars, recvVars
    <3>3. TypeInv'
      BY <1>1, <1>3, <3>1 DEF TypeInv, sendVars, envVars
    <3> QED  BY <3>2, <3>3 DEF BaseInv
  <2> QED  BY <2>2, <2>3
<1> QED  BY <1>5, <1>6

\* ReceiverRecv
LEMMA BaseReceiverRecv ==
    ASSUME BaseInv, ReceiverRecv
    PROVE  BaseInv'
<1>1. TypeInv /\ ReceiverBase /\ Bound
  BY DEF BaseInv, ReceiverRecv, Bound
<1>2. /\ claimed \in Nat /\ got \in [Chunks -> Nat] /\ chunks_recv_ \in Nat
      /\ received \in Seq(Nat) /\ remote \in 0 .. port /\ toSender \in SUBSET DatagramType
      /\ rPc \in {"listening", "returned"} /\ NumChunks \in Nat
  BY <1>1, ConnectionAssumption DEF TypeInv, Bound
<1>3. /\ UNCHANGED <<sendVars, envVars, rPc, remote, received>>
      /\ toReceiver' = toReceiver
  BY DEF ReceiverRecv
<1>4. Bound' /\ RcvOK(rKcp, OutgoingFrom(Opened), ReadCount)
      /\ OutgoingFrom(Opened) \in SUBSET Outgoing
      /\ SndOK(rKcp, AnswersOf(Opened), AnswerCount)
      /\ (rPc = "returned" => claimed # NoFile /\ chunks_recv_ >= NumChunks)
  BY <1>1, <1>3, OutgoingFacts DEF ReceiverBase, AnswerCount, Bound
<1>5. CASE Head(rKcp.rcv_queue).type = "handshake"
  <2>1. /\ claimed = NoFile /\ claimed' = Opened /\ Opened' = Opened /\ Opened # NoFile
        /\ remote # NoPort /\ UNCHANGED <<got, chunks_recv_>>
    BY <1>5, ReceiverHandshakeFacts
  <2>2. PICK k \in EndType :
           /\ \A I \in SUBSET Outgoing :
                 RcvOK(rKcp, I, ReadCount) => RcvOK(k, I, ReadCount')
           /\ ReceiverSaid(k, Opened, 1) /\ rKcp' \in EndType
           /\ toSender' \in SUBSET DatagramType /\ NetBase'
    BY <1>5, ReceiverHandshakeFacts
  <2>3. Flushed(k, rKcp') /\ SndOK(rKcp', AnswersOf(Opened), 1)
    BY <2>2 DEF ReceiverSaid
  <2>4. RcvOK(rKcp', OutgoingFrom(Opened), ReadCount')
    BY <1>4, <2>2, <2>3, FlushedReceives
  <2>5. AnswerCount' = 1 /\ claimed' \in Nat
    <3>1. rKcp.rcv_queue \in Seq(Messages) /\ rKcp.rcv_queue # <<>>
      BY <1>1, EndFields DEF TypeInv, ReceiverRecv
    <3>2. claimed' # NoFile
      BY <2>1
    <3>3. Head(rKcp.rcv_queue) \in Messages
      BY <3>1
    <3>4. Head(rKcp.rcv_queue).file = Opened
      BY <1>1, <1>5, <3>1, ReceiverReads
    <3> QED  BY <2>1, <3>2, <3>3, <3>4, MessageFields DEF AnswerCount
  <2> HIDE DEF Bound, ReadCount, AnswerCount, Opened
  <2> QED  BY <1>2, <1>3, <1>4, <2>1, <2>2, <2>3, <2>4, <2>5, BaseReceiverSays
<1>6. CASE Head(rKcp.rcv_queue).type # "handshake"
  <2> DEFINE m == Head(rKcp.rcv_queue)
  <2>1. /\ claimed # NoFile /\ remote # NoPort /\ UNCHANGED <<claimed, toSender>>
        /\ Opened' = Opened /\ chunks_recv_' = chunks_recv_ + 1
        /\ m.chunk \in Chunks /\ m.file \in Nat /\ got' = [got EXCEPT ![m.chunk] = m.file]
        /\ rKcp' \in EndType /\ SameSending(rKcp, rKcp')
        /\ \A I \in SUBSET Outgoing :
              RcvOK(rKcp, I, ReadCount) => RcvOK(rKcp', I, ReadCount')
    BY <1>6, ReceiverChunkFacts
  <2>2. got' \in [Chunks -> Nat] /\ chunks_recv_' \in Nat
        /\ (chunks_recv_ >= NumChunks => chunks_recv_' >= NumChunks)
    BY <1>2, <2>1
  <2>3. RcvOK(rKcp', OutgoingFrom(Opened), ReadCount')
    BY <1>4, <2>1
  <2>4. SndOK(rKcp', AnswersOf(Opened), AnswerCount) /\ AnswerCount' = AnswerCount
    BY <1>4, <2>1, SameOK DEF AnswerCount
  <2>5. NetBase'
    BY <1>3, <2>1, NetStays DEF BaseInv, sendVars
  <2> HIDE DEF Bound, ReadCount, AnswerCount, Opened
  <2> QED  BY <1>2, <1>3, <1>4, <2>1, <2>2, <2>3, <2>4, <2>5, BaseReceiverSays
<1> QED  BY <1>5, <1>6

\* Listen, RecvFileReturns, ReceiverCloses, Lose
LEMMA BaseReceiverThread ==
    ASSUME BaseInv, Listen \/ RecvFileReturns \/ ReceiverCloses \/ Lose
    PROVE  BaseInv'
<1>1. TypeInv /\ SenderBase /\ ReceiverBase /\ NetBase
  BY DEF BaseInv
<1>2. UNCHANGED sendVars /\ toReceiver' \subseteq toReceiver /\ toSender' \subseteq toSender
      /\ drops' = drops /\ scenario' = scenario
  BY DEF Listen, RecvFileReturns, ReceiverCloses, Lose, netVars, envVars
<1>3. SenderBase' /\ NetBase'
  BY <1>1, <1>2, SenderStays, NetStays DEF sendVars
<1>4. CASE Listen
  <2>1. /\ rPc' = "listening" /\ remote' = NoPort /\ claimed' = NoFile /\ chunks_recv_' = 0
        /\ got' = [c \in Chunks |-> NoFile] /\ rKcp' = ikcp_create /\ received' = received
    BY <1>4 DEF Listen
  <2>2. /\ rKcp' \in EndType /\ Silent(rKcp') /\ (\A O : SndOK(rKcp', O, 0))
        /\ (\A I : RcvOK(rKcp', I, 0))
        /\ rKcp'.rcv_queue = <<>> /\ rKcp'.rcv_buf = {}
    BY <2>1, CreateOK
  <2>3. TypeInv'
    BY <1>1, <1>2, <2>1, <2>2 DEF TypeInv, sendVars, NoPort, NoFile
  <2>4. ReceiverBase'
    BY <2>1, <2>2 DEF ReceiverBase, ReadCount
  <2> QED  BY <1>3, <2>3, <2>4 DEF BaseInv
<1>5. CASE RecvFileReturns
  <2>1. /\ rPc = "listening" /\ claimed # NoFile /\ chunks_recv_ >= NumChunks
        /\ rPc' = "returned" /\ received' = Append(received, claimed)
        /\ UNCHANGED <<remote, claimed, got, chunks_recv_, rKcp>>
    BY <1>5 DEF RecvFileReturns
  <2>2. received' \in Seq(Nat)
    BY <1>1, <2>1 DEF TypeInv
  <2>3. TypeInv'
    BY <1>1, <1>2, <2>1, <2>2 DEF TypeInv, sendVars
  <2>4. ReceiverBase'
    BY <1>1, <2>1 DEF ReceiverBase, ReadCount, Opened, Bound
  <2> QED  BY <1>3, <2>3, <2>4 DEF BaseInv
<1>6. CASE ReceiverCloses
  <2>1. rPc' = "unbound" /\ UNCHANGED <<remote, claimed, got, chunks_recv_, rKcp, received>>
    BY <1>6 DEF ReceiverCloses
  <2>2. TypeInv'
    BY <1>1, <1>2, <2>1 DEF TypeInv, sendVars
  <2>3. ReceiverBase'
    BY <2>1 DEF ReceiverBase, Bound
  <2> QED  BY <1>3, <2>2, <2>3 DEF BaseInv
<1>7. CASE Lose
  <2>1. UNCHANGED recvVars
    BY <1>7 DEF Lose
  <2>2. TypeInv'
    BY <1>1, <1>2, <2>1 DEF TypeInv, sendVars, recvVars
  <2> QED  BY <1>1, <1>3, <2>1, <2>2, ReceiverStays DEF BaseInv
<1> QED  BY <1>4, <1>5, <1>6, <1>7

\* The beginning.
LEMMA BaseInit ==
    ASSUME Init
    PROVE  BaseInv
<1>1. ikcp_create \in EndType
  BY CreateOK
<1>2. TypeInv
  BY <1>1 DEF Init, TypeInv, Files, NoFile, NoPort
<1>3. SenderBase /\ ReceiverBase /\ NetBase
  BY DEF Init, SenderBase, ReceiverBase, NetBase, Alive, Bound
<1> QED  BY <1>2, <1>3 DEF BaseInv

\* Every step.
LEMMA BaseNext ==
    ASSUME BaseInv, [Next]_vars
    PROVE  BaseInv'
<1>1. CASE UNCHANGED vars
  <2>1. UNCHANGED <<sendVars, recvVars, netVars, envVars>>
    BY <1>1 DEF vars
  <2>2. SenderBase' /\ ReceiverBase' /\ NetBase'
    BY <2>1, SenderStays, ReceiverStays, NetStays DEF BaseInv, sendVars, netVars
  <2>3. TypeInv'
    BY <2>1 DEF BaseInv, TypeInv, sendVars, recvVars, netVars, envVars
  <2> QED  BY <2>2, <2>3 DEF BaseInv
<1>2. CASE Next
  BY <1>2, BaseStartFile, BaseSenderRecv, BaseSenderSections, BaseSenderThread,
     BaseReceiverNet, BaseReceiverRecv, BaseReceiverThread
     DEF Next, SenderThread, ReceiverThread
<1> QED  BY <1>1, <1>2

\* A Session is heard by nothing but its file's handshake and chunks, numbered as
\* they were given to KCP, and its peer by nothing but its one answer, whatever
\* datagrams are lost, late or from another Session; the handshake that comes
\* first opens the file, and no second handshake is ever read.
THEOREM ConnectionBase == Spec => []BaseInv
<1>1. Init => BaseInv
  BY BaseInit
<1>2. BaseInv /\ [Next]_vars => BaseInv'
  BY BaseNext
<1> QED  BY <1>1, <1>2, PTL DEF Spec

------------------------------------------------------------------------------
(* WideInv *)

\* A window that holds a file and its handshake, and one more.
Wide == rcv_wnd > NumChunks + 1

\* There is but one answer to hold, and a file and its handshake.
LEMMA QueuesShort ==
    ASSUME NEW k \in EndType, NEW c \in Nat, Wide
    PROVE  /\ RcvOK(k, Answers, c) => Len(k.rcv_queue) < rcv_wnd
           /\ \A f : RcvOK(k, OutgoingFrom(f), c) => Len(k.rcv_queue) < rcv_wnd
<1> DEFINE L == Len(k.rcv_queue)
<1>1. L \in Nat /\ rcv_wnd \in Nat /\ NumChunks \in Nat /\ NumChunks > 0
      /\ rcv_wnd > NumChunks + 1
  BY EndFields, ConnectionAssumption DEF Wide
<1>2. ASSUME NEW I \in SUBSET Stored, \A s \in I : s.sn <= NumChunks, RcvOK(k, I, c)
      PROVE  L < rcv_wnd
  <2>1. CASE L = 0
    BY <1>1, <2>1
  <2>2. CASE L > 0
    <3>1. L \in 1 .. L
      BY <1>1, <2>2
    <3>2. [sn |-> c + L - 1, data |-> k.rcv_queue[L]] \in I
      BY <1>2, <3>1 DEF RcvOK
    <3>3. PICK s \in I : s = [sn |-> c + L - 1, data |-> k.rcv_queue[L]]
      BY <3>2
    <3>4. c + L - 1 <= NumChunks
      BY <1>2, <3>3
    <3> QED  BY <1>1, <3>4
  <2> QED  BY <1>1, <2>1, <2>2
<1>3. \A s \in Answers : s.sn <= NumChunks
  BY <1>1, AnswersFacts
<1>4. \A f : \A s \in OutgoingFrom(f) : s.sn <= NumChunks
  BY OutgoingFacts
<1>5. Answers \in SUBSET Stored /\ \A f : OutgoingFrom(f) \in SUBSET Stored
  BY AnswersFacts, OutgoingFacts
<1> HIDE DEF L
<1>6. RcvOK(k, Answers, c) => L < rcv_wnd
  BY <1>2, <1>3, <1>5
<1>7. \A f : RcvOK(k, OutgoingFrom(f), c) => L < rcv_wnd
  BY <1>2, <1>4, <1>5
<1> QED  BY <1>6, <1>7 DEF L

\* An endpoint that has room says so, and asks for none.
LEMMA SaysRoomy ==
    ASSUME NEW k \in EndType, NEW O, NEW n, NEW m, Says(k, O, n, m), Roomy(k),
           Len(k.rcv_queue) < rcv_wnd
    PROVE  m.cmd \in {"ack", "push"} /\ m.wnd > 0
<1>1. m \in SegmentType
  BY DEF Says
<1>2. m.cmd \in {"ack", "push", "wask", "wins"} /\ k.rmt_wnd \in Nat
      /\ Len(k.rcv_queue) \in Nat /\ rcv_wnd \in Nat
  BY <1>1, SegmentFields, EndFields
<1>3. ikcp_wnd_unused(k) > 0
  BY <1>2 DEF ikcp_wnd_unused
<1> QED  BY <1>2, <1>3 DEF Says, Roomy

\* And still has room after a flush.
LEMMA FlushedRoomy ==
    ASSUME NEW k, NEW k1, Flushed(k, k1), Roomy(k)
    PROVE  Roomy(k1)
  BY DEF Flushed, Roomy

\* What is told of windows by a critical section of the sender.
LEMMA RoomSenderSays ==
    ASSUME RoomInv, Wide, NEW k \in EndType, NEW n, NEW c \in Nat, Roomy(k),
           RcvOK(k, Answers, c), SenderSaid(k, n), UNCHANGED recvVars,
           toSender' \subseteq toSender
    PROVE  RoomInv'
<1>1. Len(k.rcv_queue) < rcv_wnd
  BY QueuesShort
<1>2. Flushed(k, sKcp') /\ \A d \in toReceiver' :
         d \in toReceiver \/ (d.port = port /\ Says(k, OutgoingOf(file), n, d.seg))
  BY DEF SenderSaid
<1>3. Roomy(sKcp')
  BY <1>2, FlushedRoomy
<1>4. \A d \in toReceiver' : d.seg.cmd \in {"ack", "push"} /\ d.seg.wnd > 0
  <2> SUFFICES ASSUME NEW d \in toReceiver'
               PROVE  d.seg.cmd \in {"ack", "push"} /\ d.seg.wnd > 0
    OBVIOUS
  <2>1. CASE d \in toReceiver
    BY <2>1 DEF RoomInv
  <2>2. CASE Says(k, OutgoingOf(file), n, d.seg)
    BY <1>1, <2>2, SaysRoomy
  <2> QED  BY <1>2, <2>1, <2>2
<1>5. Bound' => Roomy(rKcp')
  BY DEF RoomInv, Bound, recvVars
<1> QED  BY <1>3, <1>4, <1>5 DEF RoomInv

\* What is told of windows by a critical section of the receiver.
LEMMA RoomReceiverSays ==
    ASSUME RoomInv, Wide, NEW k \in EndType, NEW f, NEW g, NEW n, NEW c \in Nat, Roomy(k),
           RcvOK(k, OutgoingFrom(g), c), ReceiverSaid(k, f, n), UNCHANGED sendVars,
           toReceiver' \subseteq toReceiver
    PROVE  RoomInv'
<1>1. Len(k.rcv_queue) < rcv_wnd
  BY QueuesShort
<1>2. Flushed(k, rKcp') /\ \A d \in toSender' :
         d \in toSender \/ (d.port = remote' /\ Says(k, AnswersOf(f), n, d.seg))
  BY DEF ReceiverSaid
<1>3. Roomy(rKcp')
  BY <1>2, FlushedRoomy
<1>4. \A d \in toSender' : d.seg.cmd \in {"ack", "push"} /\ d.seg.wnd > 0
  <2> SUFFICES ASSUME NEW d \in toSender'
               PROVE  d.seg.cmd \in {"ack", "push"} /\ d.seg.wnd > 0
    OBVIOUS
  <2>1. CASE d \in toSender
    BY <2>1 DEF RoomInv
  <2>2. CASE Says(k, AnswersOf(f), n, d.seg)
    BY <1>1, <2>2, SaysRoomy
  <2> QED  BY <1>2, <2>1, <2>2
<1>5. Alive' => Roomy(sKcp')
  BY DEF RoomInv, Alive, sendVars
<1> QED  BY <1>3, <1>4, <1>5 DEF RoomInv

\* A sender that is not answered says its handshake only.
LEMMA AnswerSenderSays ==
    ASSUME BaseInv, AnswerInv, Wide, sPc = "waitAck", NEW k \in EndType, Roomy(k),
           RcvOK(k, AnswersOf(file), 0), k.rcv_nxt = 0 => Waiting /\ k.acklist = {},
           SenderSaid(k, 1), UNCHANGED <<sPc, file, port, recvVars>>,
           toSender' \subseteq toSender
    PROVE  AnswerInv'
<1>1. Flushed(k, sKcp') /\ \A d \in toReceiver' :
         d \in toReceiver \/ (d.port = port /\ Says(k, OutgoingOf(file), 1, d.seg))
  BY DEF SenderSaid
<1>2. RcvOK(sKcp', AnswersOf(file), 0)
  BY <1>1, FlushedReceives
<1>3. ASSUME Waiting'
      PROVE  /\ sKcp'.acklist = {}
             /\ \A d \in toReceiver' : d.port = port => d.seg.cmd = "push" /\ d.seg.sn = 0
             /\ \A d \in toSender' : d.port = port /\ d.seg.cmd = "push" => d.seg.data.file = file
             /\ Bound' /\ remote' = port => Opened' = file
  <2>1. k.rcv_nxt = 0
    BY <1>1, <1>3 DEF Waiting, Flushed, SameReceiving
  <2>2. Waiting /\ k.acklist = {}
    BY <2>1
  <2>3. sKcp'.acklist = {}
    BY <1>1, <2>2 DEF Flushed
  <2>4. ASSUME NEW d \in toReceiver', d.port = port PROVE d.seg.cmd = "push" /\ d.seg.sn = 0
    <3>1. CASE d \in toReceiver
      BY <2>2, <2>4, <3>1 DEF AnswerInv
    <3>2. CASE Says(k, OutgoingOf(file), 1, d.seg)
      <4>1. Len(k.rcv_queue) < rcv_wnd
        <5>1. RcvOK(k, Answers, 0)
          BY AnswersFacts DEF RcvOK
        <5> QED  BY <5>1, QueuesShort
      <4>2. d.seg.cmd \in {"ack", "push"}
        BY <3>2, <4>1, SaysRoomy
      <4>3. d.seg.cmd = "push" /\ d.seg.sn < 1
        BY <2>2, <3>2, <4>2 DEF Says
      <4>4. d.seg.sn \in Nat
        BY <3>2, SegmentFields DEF Says
      <4> QED  BY <4>3, <4>4
    <3> QED  BY <1>1, <3>1, <3>2
  <2>5. \A d \in toSender' : d.port = port /\ d.seg.cmd = "push" => d.seg.data.file = file
    BY <2>2 DEF AnswerInv
  <2>6. Bound' /\ remote' = port => Opened' = file
    BY <2>2 DEF AnswerInv, Bound, Opened, recvVars
  <2> QED  BY <2>3, <2>4, <2>5, <2>6
<1> QED  BY <1>2, <1>3 DEF AnswerInv

\* The receiver says something to a waiting sender only if it opened its file.
LEMMA AnswerReceiverSays ==
    ASSUME BaseInv, AnswerInv, NEW k, NEW n, ReceiverSaid(k, Opened', n),
           UNCHANGED sendVars, toReceiver' \subseteq toReceiver, Bound',
           Waiting /\ remote' = port => Opened' = file
    PROVE  AnswerInv'
<1>1. \A d \in toSender' :
         d \in toSender \/ (d.port = remote' /\ Says(k, AnswersOf(Opened'), n, d.seg))
  BY DEF ReceiverSaid
<1>2. UNCHANGED <<sPc, file, port, sKcp>> /\ (Waiting' <=> Waiting)
  BY DEF sendVars, Waiting
<1>3. ASSUME Waiting, NEW d \in toSender', d.port = port, d.seg.cmd = "push"
      PROVE  d.seg.data.file = file
  <2>1. CASE d \in toSender
    BY <1>3, <2>1 DEF AnswerInv
  <2>2. CASE d.port = remote' /\ Says(k, AnswersOf(Opened'), n, d.seg)
    <3>1. Carried(d.seg) \in AnswersOf(file)
      BY <1>3, <2>2 DEF Says
    <3>2. Carried(d.seg).data = d.seg.data
      BY DEF Carried
    <3> QED  BY <3>1, <3>2, AnswersFacts
  <2> QED  BY <1>1, <2>1, <2>2
<1> QED  BY <1>2, <1>3 DEF AnswerInv

\* StartFile: nothing was said to or by a port that is new.
LEMMA WideStartFile ==
    ASSUME BaseInv, RoomInv, AnswerInv, StartFile
    PROVE  RoomInv' /\ AnswerInv'
<1> DEFINE h == Handshake(file)
<1>1. /\ sKcp' = ikcp_send(ikcp_create, h) /\ sPc' = "waitAck" /\ port' = port + 1
      /\ UNCHANGED <<file, recvVars, netVars>>
  BY DEF StartFile
<1>2. /\ port \in Nat /\ remote \in 0 .. port /\ file \in Files /\ NetBase
  BY DEF BaseInv, TypeInv
<1>3. /\ SameReceiving(ikcp_create, sKcp') /\ SameWindows(ikcp_create, sKcp')
  <2>1. h \in Messages /\ [sn |-> 0, data |-> h] \in Stored
    BY <1>2, MessagesMade DEF Stored
  <2>2. ikcp_create \in EndType /\ SndOK(ikcp_create, Stored, 0)
    BY CreateOK
  <2> HIDE DEF h
  <2> QED  BY <1>1, <2>1, <2>2, SendOK
<1> HIDE DEF h
<1>4. Roomy(sKcp') /\ sKcp'.acklist = {}
  BY <1>3, CreateOK DEF SameWindows, Silent, Roomy
<1>5. RcvOK(sKcp', AnswersOf(file), 0)
  BY <1>3, CreateOK, SameOK
<1>6. toReceiver' = toReceiver /\ toSender' = toSender /\ remote' = remote
      /\ (Bound' <=> Bound) /\ rKcp' = rKcp
  BY <1>1 DEF netVars, recvVars, Bound
<1>7. \A d \in toReceiver \cup toSender : d.port # port'
  BY <1>1, <1>2 DEF NetBase
<1>8. remote' # port'
  BY <1>1, <1>2, <1>6
<1>9. RoomInv'
  BY <1>4, <1>6 DEF RoomInv
<1>10. AnswerInv'
  BY <1>1, <1>4, <1>5, <1>6, <1>7, <1>8 DEF AnswerInv
<1> QED  BY <1>9, <1>10

\* SenderRecv, SendFileReturns, SenderCloses, SenderDrops: the sender does not
\* wait any more.
LEMMA WideSenderThread ==
    ASSUME BaseInv, RoomInv, AnswerInv, Wide,
           SenderRecv \/ SendFileReturns \/ SenderCloses \/ SenderDrops
    PROVE  RoomInv' /\ AnswerInv'
<1>1. sPc' # "waitAck" /\ UNCHANGED <<recvVars, netVars>> /\ (Alive' => Alive)
  BY DEF SenderRecv, SendFileReturns, SenderCloses, SenderDrops, Alive
<1>2. AnswerInv'
  BY <1>1 DEF AnswerInv, Waiting
<1>3. Alive => Roomy(sKcp')
  <2>1. CASE SenderRecv
    <3>1. /\ Alive /\ sKcp' = ikcp_recv(sKcp) /\ sKcp.rcv_queue # <<>> /\ sKcp \in EndType
      BY <2>1 DEF SenderRecv, Alive, BaseInv, TypeInv
    <3>2. Taken(sKcp) \in Nat /\ RcvOK(sKcp, Answers, Taken(sKcp)) /\ Answers \in SUBSET Stored
      BY <3>1, AnswersFacts DEF BaseInv, SenderBase
    <3>3. Len(sKcp.rcv_queue) < rcv_wnd
      BY <3>1, <3>2, QueuesShort
    <3>4. SameSending(sKcp, sKcp') /\ sKcp'.probe = sKcp.probe
      BY <3>1, <3>2, <3>3, RecvOK
    <3> QED  BY <3>1, <3>4 DEF RoomInv, Roomy, SameSending
  <2>2. CASE SendFileReturns \/ SenderCloses \/ SenderDrops
    <3>1. sKcp' = sKcp
      BY <2>2 DEF SendFileReturns, SenderCloses, SenderDrops
    <3> QED  BY <3>1 DEF RoomInv
  <2> QED  BY <2>1, <2>2
<1>4. RoomInv'
  BY <1>1, <1>3 DEF RoomInv, recvVars, netVars, Bound
<1> QED  BY <1>2, <1>4

\* SendChunk, SenderUpdate, SenderInput
LEMMA WideSenderSections ==
    ASSUME BaseInv, RoomInv, AnswerInv, Wide,
           \/ SendChunk
           \/ \E due \in SUBSET Sns(sKcp.snd_buf) : SenderUpdate(due)
           \/ \E d \in toSender : SenderInput(d)
    PROVE  RoomInv' /\ AnswerInv'
<1> DEFINE c == Taken(sKcp)
<1>1. Alive => /\ Roomy(sKcp) /\ c \in Nat /\ RcvOK(sKcp, Answers, c) /\ sKcp \in EndType
               /\ (sPc = "waitAck" => c = 0)
  BY DEF BaseInv, TypeInv, SenderBase, RoomInv
<1>2. sPc = "waitAck" => Alive /\ GivenCount = 1 /\ RcvOK(sKcp, AnswersOf(file), 0)
  BY DEF Alive, GivenCount, AnswerInv
<1> HIDE DEF c
<1>3. CASE SendChunk
  <2>1. Alive /\ sPc' # "waitAck" /\ UNCHANGED <<toSender, recvVars>>
    BY <1>3 DEF SendChunk, Alive
  <2>2. PICK k \in EndType : /\ SameReceiving(sKcp, k) /\ SameWindows(sKcp, k)
                             /\ SenderSaid(k, GivenCount')
    BY <1>3, SendChunkFacts
  <2>3. Roomy(k)
    BY <1>1, <2>1, <2>2 DEF Roomy, SameWindows
  <2>4. RcvOK(k, Answers, c)
    BY <1>1, <2>1, <2>2, SameOK
  <2>5. RoomInv'
    BY <1>1, <2>1, <2>2, <2>3, <2>4, RoomSenderSays
  <2>6. AnswerInv'
    BY <2>1 DEF AnswerInv, Waiting
  <2> QED  BY <2>5, <2>6
<1>4. CASE \E due \in SUBSET Sns(sKcp.snd_buf) : SenderUpdate(due)
  <2>1. PICK due : SenderUpdate(due)
    BY <1>4
  <2>2. Alive /\ UNCHANGED <<sPc, file, port, toSender, recvVars>>
    BY <2>1 DEF SenderUpdate, Alive
  <2>3. PICK k \in EndType : /\ SameReceiving(sKcp, k) /\ SameWindows(sKcp, k)
                             /\ SenderSaid(k, GivenCount)
    BY <2>1, SenderUpdateFacts
  <2>4. Roomy(k)
    BY <1>1, <2>2, <2>3 DEF Roomy, SameWindows
  <2>5. RcvOK(k, Answers, c)
    BY <1>1, <2>2, <2>3, SameOK
  <2>6. RoomInv'
    BY <1>1, <2>2, <2>3, <2>4, <2>5, RoomSenderSays
  <2>7. CASE sPc = "waitAck"
    <3>1. RcvOK(k, AnswersOf(file), 0)
      BY <1>2, <2>3, <2>7, SameOK
    <3>2. k.rcv_nxt = 0 => Waiting /\ k.acklist = {}
      BY <2>3, <2>7 DEF Waiting, AnswerInv, SameReceiving, SameWindows
    <3>3. SenderSaid(k, 1)
      BY <1>2, <2>3, <2>7
    <3>4. AnswerInv'
      BY <2>2, <2>4, <2>7, <3>1, <3>2, <3>3, AnswerSenderSays
    <3> QED  BY <2>6, <3>4
  <2>8. CASE sPc # "waitAck"
    BY <2>2, <2>6, <2>8 DEF AnswerInv, Waiting
  <2> QED  BY <2>7, <2>8
<1>5. CASE \E d \in toSender : SenderInput(d)
  <2>1. PICK d \in toSender : SenderInput(d)
    BY <1>5
  <2>2. toSender' \subseteq toSender /\ UNCHANGED <<sPc, file, port, recvVars>>
    BY <2>1 DEF SenderInput
  <2>3. CASE Alive /\ d.port = port
    <3>1. PICK k \in EndType :
             /\ Fed(sKcp, d.seg, k) /\ RcvOK(k, Answers, c)
             /\ \A I \in SUBSET Answers :
                   /\ RcvOK(sKcp, I, c)
                   /\ d.seg.cmd = "push" => d.seg.sn < sKcp.rcv_nxt \/ Carried(d.seg) \in I
                   => RcvOK(k, I, c)
             /\ SenderSaid(k, GivenCount)
      BY <2>1, <2>3, SenderInputFacts DEF c
    <3>2. d.seg.cmd \in {"ack", "push"} /\ d.seg.wnd > 0
      BY <2>1 DEF RoomInv
    <3>3. Roomy(k)
      BY <1>1, <2>3, <3>1, <3>2 DEF Fed, Roomy
    <3>4. RoomInv'
      BY <1>1, <2>2, <2>3, <3>1, <3>3, RoomSenderSays
    <3>5. CASE sPc = "waitAck"
      <4>1. /\ c = 0 /\ RcvOK(sKcp, AnswersOf(file), c) /\ sKcp.rcv_nxt \in Nat
            /\ k.rcv_nxt \in Nat /\ sKcp.rcv_nxt <= k.rcv_nxt
        BY <1>1, <1>2, <2>3, <3>1, <3>5, EndFields DEF Fed, Extends
      <4>2. d.seg.cmd = "push" => /\ d.seg.sn = 0 /\ Carried(d.seg) \in Answers
        <5>1. d.seg.cmd = "push" => Carried(d.seg) \in Answers
          BY DEF BaseInv, NetBase
        <5>2. Carried(d.seg).sn = d.seg.sn
          BY DEF Carried
        <5> QED  BY <5>1, <5>2, AnswersFacts
      <4>3. d.seg.cmd = "push" => d.seg.sn < sKcp.rcv_nxt \/ Carried(d.seg) \in AnswersOf(file)
        <5>1. CASE sKcp.rcv_nxt = 0
          <6>1. Waiting
            BY <3>5, <5>1 DEF Waiting
          <6>2. d.seg.cmd = "push" => d.seg.data.file = file
            BY <2>3, <6>1 DEF AnswerInv
          <6>3. Carried(d.seg).data = d.seg.data
            BY DEF Carried
          <6> QED  BY <4>2, <6>2, <6>3 DEF AnswersOf
        <5>2. CASE sKcp.rcv_nxt # 0
          BY <4>1, <4>2, <5>2
        <5> QED  BY <5>1, <5>2
      <4>4. RcvOK(k, AnswersOf(file), 0)
        BY <3>1, <4>1, <4>3, AnswersFacts
      <4>5. ASSUME k.rcv_nxt = 0 PROVE Waiting /\ k.acklist = {}
        <5>1. sKcp.rcv_nxt = 0 /\ Waiting
          BY <3>5, <4>1, <4>5 DEF Waiting
        <5>2. Len(sKcp.rcv_queue) < rcv_wnd
          BY <1>1, <2>3, QueuesShort
        <5>3. d.seg.cmd # "push"
          BY <3>1, <4>2, <4>5, <5>1, <5>2 DEF Fed
        <5> QED  BY <3>1, <5>1, <5>3 DEF Fed, AnswerInv
      <4>6. SenderSaid(k, 1)
        BY <1>2, <3>1, <3>5
      <4>7. AnswerInv'
        BY <2>2, <3>3, <3>5, <4>4, <4>5, <4>6, AnswerSenderSays
      <4> QED  BY <3>4, <4>7
    <3>6. CASE sPc # "waitAck"
      BY <2>2, <3>4, <3>6 DEF AnswerInv, Waiting
    <3> QED  BY <3>5, <3>6
  <2>4. CASE ~(Alive /\ d.port = port)
    <3>1. UNCHANGED <<sKcp, toReceiver>>
      BY <2>1, <2>4 DEF SenderInput, Alive
    <3>2. RoomInv'
      BY <2>2, <3>1 DEF RoomInv, Alive, Bound, recvVars
    <3>3. AnswerInv'
      BY <2>2, <3>1 DEF AnswerInv, Waiting, Bound, Opened, recvVars
    <3> QED  BY <3>2, <3>3
  <2> QED  BY <2>3, <2>4
<1> QED  BY <1>3, <1>4, <1>5

\* ReceiverInput, ReceiverUpdate, ReceiverRecv
LEMMA WideReceiverSections ==
    ASSUME BaseInv, RoomInv, AnswerInv, Wide,
           \/ \E due \in SUBSET Sns(rKcp.snd_buf) : ReceiverUpdate(due)
           \/ \E d \in toReceiver : ReceiverInput(d)
           \/ ReceiverRecv
    PROVE  RoomInv' /\ AnswerInv'
<1> DEFINE c == ReadCount
           I == OutgoingFrom(Opened)
<1>1. Bound => /\ Roomy(rKcp) /\ RcvOK(rKcp, I, c)
               /\ (remote = NoPort => claimed = NoFile /\ rKcp.rcv_queue = <<>>)
  BY DEF BaseInv, ReceiverBase, RoomInv
<1>2. c \in Nat /\ rKcp \in EndType /\ I \in SUBSET Outgoing
  BY ReadBounds, OutgoingFacts DEF BaseInv, TypeInv
<1>3. UNCHANGED sendVars /\ toReceiver' \subseteq toReceiver
  BY DEF ReceiverUpdate, ReceiverInput, ReceiverRecv
<1>4. Waiting /\ Bound /\ remote = port => Opened = file
  BY DEF AnswerInv
<1>5. file # NoFile /\ (Waiting => Alive /\ port > 0)
  BY DEF BaseInv, TypeInv, SenderBase, Files, Waiting, Alive
<1> HIDE DEF c, I
<1>6. CASE \E due \in SUBSET Sns(rKcp.snd_buf) : ReceiverUpdate(due)
  <2>1. PICK due : ReceiverUpdate(due)
    BY <1>6
  <2>2. Bound /\ Bound' /\ remote' = remote
    BY <2>1 DEF ReceiverUpdate, Bound
  <2>3. PICK k \in EndType :
           /\ SameReceiving(rKcp, k) /\ SameWindows(rKcp, k)
           /\ ReceiverSaid(k, Opened, AnswerCount) /\ Opened' = Opened
    BY <2>1, ReceiverUpdateFacts
  <2>4. Roomy(k)
    BY <1>1, <2>2, <2>3 DEF Roomy, SameWindows
  <2>5. RcvOK(k, I, c)
    BY <1>1, <2>2, <2>3, SameOK
  <2>6. RoomInv'
    BY <1>2, <1>3, <2>3, <2>4, <2>5, RoomReceiverSays DEF I
  <2>7. AnswerInv'
    <3>1. ReceiverSaid(k, Opened', AnswerCount)
      BY <2>3
    <3> QED  BY <1>3, <1>4, <2>2, <2>3, <3>1, AnswerReceiverSays
  <2> QED  BY <2>6, <2>7
<1>7. CASE \E d \in toReceiver : ReceiverInput(d)
  <2>1. PICK d \in toReceiver : ReceiverInput(d)
    BY <1>7
  <2>2. CASE Bound
    <3>1. PICK k \in EndType :
             /\ Fed(rKcp, d.seg, k) /\ RcvOK(k, OutgoingFrom(Opened'), c)
             /\ Opened # NoFile \/ d.seg.cmd # "push" => Opened' = Opened
             /\ Opened = NoFile /\ d.seg.cmd = "push" /\ d.seg.sn = 0
                   => Opened' = d.seg.data.file
             /\ remote' = (IF remote = NoPort THEN d.port ELSE remote)
             /\ ReceiverSaid(k, Opened', AnswerCount)
      BY <2>1, <2>2, ReceiverInputFacts DEF c
    <3>2. d.seg.cmd \in {"ack", "push"} /\ d.seg.wnd > 0
      BY <2>1 DEF RoomInv
    <3>3. Roomy(k)
      BY <1>1, <2>2, <3>1, <3>2 DEF Fed, Roomy
    <3>4. RoomInv'
      BY <1>2, <1>3, <3>1, <3>3, RoomReceiverSays
    <3>5. Bound'
      BY <2>1, <2>2 DEF ReceiverInput, Bound
    <3>6. ASSUME Waiting, remote' = port PROVE Opened' = file
      <4>1. CASE remote = NoPort
        <5>1. d.port = port /\ Opened = NoFile
          BY <1>1, <2>2, <3>1, <3>6, <4>1 DEF Opened, OpenedOf
        <5>2. d.seg.cmd = "push" /\ d.seg.sn = 0
          BY <2>1, <3>6, <5>1 DEF AnswerInv
        <5>3. d.seg.data.file = file
          BY <1>5, <2>1, <3>6, <5>1, <5>2 DEF BaseInv, NetBase
        <5> QED  BY <3>1, <5>1, <5>2, <5>3
      <4>2. CASE remote # NoPort
        <5>1. Opened = file
          BY <1>4, <2>2, <3>1, <3>6, <4>2
        <5> QED  BY <1>5, <3>1, <5>1
      <4> QED  BY <4>1, <4>2
    <3>7. AnswerInv'
      BY <1>3, <3>1, <3>5, <3>6, AnswerReceiverSays
    <3> QED  BY <3>4, <3>7
  <2>3. CASE ~Bound
    <3>1. UNCHANGED <<toSender, rPc>> /\ ~Bound'
      BY <2>1, <2>3 DEF ReceiverInput, Bound
    <3>2. RoomInv'
      BY <1>3, <3>1 DEF RoomInv, Alive, sendVars
    <3>3. AnswerInv'
      BY <1>3, <3>1 DEF AnswerInv, Waiting, sendVars
    <3> QED  BY <3>2, <3>3
  <2> QED  BY <2>2, <2>3
<1>8. CASE ReceiverRecv
  <2>1. Bound /\ Bound' /\ remote' = remote /\ rKcp.rcv_queue # <<>>
    BY <1>8 DEF ReceiverRecv, Bound
  <2>2. Len(rKcp.rcv_queue) < rcv_wnd
    BY <1>1, <1>2, <2>1, QueuesShort DEF I
  <2>3. CASE Head(rKcp.rcv_queue).type = "handshake"
    <3>1. Opened' = Opened /\ ReadCount' = 1
      BY <1>8, <2>3, ReceiverHandshakeFacts
    <3>2. PICK k \in EndType :
             /\ k.rmt_wnd = rKcp.rmt_wnd
             /\ Len(rKcp.rcv_queue) < rcv_wnd => k.probe = rKcp.probe
             /\ \A J \in SUBSET Outgoing :
                   RcvOK(rKcp, J, ReadCount) => RcvOK(k, J, ReadCount')
             /\ ReceiverSaid(k, Opened, 1)
      BY <1>8, <2>3, ReceiverHandshakeFacts
    <3>3. Roomy(k)
      BY <1>1, <2>1, <2>2, <3>2 DEF Roomy
    <3>4. RcvOK(k, I, 1)
      BY <1>1, <1>2, <2>1, <3>1, <3>2 DEF c
    <3>5. RoomInv'
      BY <1>3, <3>2, <3>3, <3>4, RoomReceiverSays DEF I
    <3>6. AnswerInv'
      <4>1. ReceiverSaid(k, Opened', 1)
        BY <3>1, <3>2
      <4> QED  BY <1>3, <1>4, <2>1, <3>1, <4>1, AnswerReceiverSays
    <3> QED  BY <3>5, <3>6
  <2>4. CASE Head(rKcp.rcv_queue).type # "handshake"
    <3>1. /\ toSender' = toSender /\ Opened' = Opened /\ SameSending(rKcp, rKcp')
          /\ Len(rKcp.rcv_queue) < rcv_wnd => rKcp'.probe = rKcp.probe
      BY <1>8, <2>4, ReceiverChunkFacts
    <3>2. Roomy(rKcp')
      BY <1>1, <2>1, <2>2, <3>1 DEF Roomy, SameSending
    <3>3. RoomInv'
      BY <1>3, <3>1, <3>2 DEF RoomInv, Alive, sendVars
    <3>4. AnswerInv'
      BY <1>3, <2>1, <3>1 DEF AnswerInv, Waiting, sendVars
    <3> QED  BY <3>3, <3>4
  <2> QED  BY <2>3, <2>4
<1> QED  BY <1>6, <1>7, <1>8

\* Listen, RecvFileReturns, ReceiverCloses, Lose
LEMMA WideReceiverThread ==
    ASSUME BaseInv, RoomInv, AnswerInv,
           Listen \/ RecvFileReturns \/ ReceiverCloses \/ Lose
    PROVE  RoomInv' /\ AnswerInv'
<1>1. UNCHANGED sendVars /\ toReceiver' \subseteq toReceiver /\ toSender' \subseteq toSender
  BY DEF Listen, RecvFileReturns, ReceiverCloses, Lose, netVars, envVars
<1>2. Waiting' <=> Waiting
  BY <1>1 DEF Waiting, sendVars
<1>3. /\ Bound' => Roomy(rKcp')
      /\ Waiting /\ Bound' /\ remote' = port => Opened' = file
  <2>1. CASE Listen
    <3>1. rKcp' = ikcp_create /\ remote' = NoPort
      BY <2>1 DEF Listen
    <3>2. Waiting => port # NoPort
      BY DEF Waiting, BaseInv, TypeInv, SenderBase, Alive, NoPort
    <3> QED  BY <3>1, <3>2, CreateOK DEF Silent, Roomy
  <2>2. CASE RecvFileReturns \/ ReceiverCloses \/ Lose
    <3>1. UNCHANGED <<rKcp, remote, claimed>> /\ (Bound' => Bound)
      BY <2>2 DEF RecvFileReturns, ReceiverCloses, Lose, Bound, recvVars
    <3> QED  BY <3>1 DEF RoomInv, AnswerInv, Opened
  <2> QED  BY <2>1, <2>2
<1>4. RoomInv'
  BY <1>1, <1>3 DEF RoomInv, Alive, sendVars
<1>5. AnswerInv'
  BY <1>1, <1>2, <1>3 DEF AnswerInv, sendVars
<1> QED  BY <1>4, <1>5

\* Every step.
LEMMA WideNext ==
    ASSUME BaseInv, WideInv, [Next]_vars
    PROVE  WideInv'
<1> SUFFICES ASSUME Wide PROVE RoomInv' /\ AnswerInv'
  BY DEF WideInv, Wide
<1>1. RoomInv /\ AnswerInv
  BY DEF WideInv, Wide
<1>2. CASE UNCHANGED vars
  BY <1>1, <1>2 DEF vars, sendVars, recvVars, netVars, RoomInv, AnswerInv, Alive, Bound,
     Waiting, Opened
<1>3. CASE Next
  BY <1>1, <1>3, WideStartFile, WideSenderThread, WideSenderSections, WideReceiverSections,
     WideReceiverThread DEF Next, SenderThread, ReceiverThread
<1> QED  BY <1>2, <1>3

------------------------------------------------------------------------------
(* PauseInv: the sender *)

\* What may be heard is limited by what the sender gave to KCP.
LEMMA LimitFacts ==
    ASSUME TypeInv
    PROVE  /\ Limit \in 1 .. NumChunks + 1 /\ Limit \in Nat /\ Limit > 0
           /\ GivenCount \in Nat /\ GivenCount <= NumChunks + 1 /\ NumChunks \in Nat
           /\ Incoming \in SUBSET Outgoing
<1>1. GivenCount \in 1 .. NumChunks + 1 /\ NumChunks \in Nat
  BY GivenBounds, ConnectionAssumption
<1>2. Limit \in 1 .. NumChunks + 1
  BY <1>1 DEF Limit
<1>3. Incoming \in SUBSET Outgoing
  BY OutgoingFacts DEF Incoming
<1> HIDE DEF Limit
<1> QED  BY <1>1, <1>2, <1>3

\* What is received from some segments is received from more.
LEMMA RcvMore ==
    ASSUME NEW k, NEW I, NEW J, NEW c, RcvOK(k, I, c), I \subseteq J
    PROVE  RcvOK(k, J, c)
  BY DEF RcvOK

\* A message of the file the receiver's Session opened.
LEMMA CarriedSn ==
    ASSUME NEW m
    PROVE  Carried(m).sn = m.sn /\ Carried(m).data = m.data
  BY DEF Carried

\* What the receiver's Session may hear, after a step of the sender.
LEMMA HearsMore ==
    ASSUME TypeInv, TypeInv', HearingInv, UNCHANGED recvVars, Limit <= Limit',
           \A d \in toReceiver' :
              \/ d \in toReceiver
              \/ d.seg.cmd = "push" /\ d.seg.sn = 0
              \/ /\ Heard /\ d.port = remote
                 /\ d.seg.cmd = "push" => /\ Carried(d.seg) \in OutgoingOf(Opened)
                                          /\ d.seg.sn < Limit'
    PROVE  HearingInv'
<1>1. Limit \in Nat /\ Incoming \in SUBSET Outgoing
  BY LimitFacts
<1>2. Limit' \in Nat
  <2>1. GivenCount' \in Nat /\ NumChunks \in Nat
    <3>1. Cardinality(todo') \in Nat /\ Cardinality(todo') <= NumChunks /\ NumChunks \in Nat
      BY ChunkCounts DEF TypeInv
    <3> QED  BY <3>1 DEF GivenCount
  <2> HIDE DEF GivenCount
  <2> QED  BY <2>1 DEF Limit
<1>3. Opened' = Opened /\ (Heard' <=> Heard) /\ remote' = remote /\ rKcp' = rKcp
      /\ ReadCount' = ReadCount
  BY DEF Opened, Heard, Bound, ReadCount, recvVars
<1>4. Incoming' = {s \in OutgoingOf(Opened) : s.sn < Limit'}
  BY <1>3 DEF Incoming
<1>5. Incoming \subseteq Incoming'
  <2> SUFFICES ASSUME NEW s \in Incoming PROVE s \in OutgoingOf(Opened) /\ s.sn < Limit'
    BY <1>4
  <2>1. s \in OutgoingOf(Opened) /\ s.sn < Limit
    BY DEF Incoming
  <2>2. s.sn \in Nat
    BY <1>1, OutgoingFacts
  <2> HIDE DEF Limit
  <2> QED  BY <1>1, <1>2, <2>1, <2>2
<1> HIDE DEF Incoming, Limit, Heard, Opened, ReadCount
<1>6. ASSUME NEW d \in toReceiver'
      PROVE  \/ d.seg.cmd = "push" /\ d.seg.sn = 0
             \/ Heard /\ d.port = remote /\ (d.seg.cmd = "push" => Carried(d.seg) \in Incoming')
  <2>1. CASE d \in toReceiver
    BY <1>5, <2>1 DEF HearingInv
  <2>2. CASE /\ Heard /\ d.port = remote
             /\ d.seg.cmd = "push" => /\ Carried(d.seg) \in OutgoingOf(Opened)
                                      /\ d.seg.sn < Limit'
    BY <1>4, <2>2, CarriedSn
  <2> QED  BY <2>1, <2>2
<1>7. ASSUME Heard
      PROVE  Opened # NoFile /\ RcvOK(rKcp, Incoming', ReadCount) /\ ReadCount <= Limit'
  <2>1. Opened # NoFile /\ RcvOK(rKcp, Incoming, ReadCount) /\ ReadCount <= Limit
    BY <1>7 DEF HearingInv
  <2>2. ReadCount \in Nat
    BY ReadBounds
  <2> QED  BY <1>1, <1>2, <1>5, <2>1, <2>2, RcvMore
<1> QED  BY <1>3, <1>6, <1>7 DEF HearingInv

\* FilesNotMixed is about the receiver only.
LEMMA MixedStays ==
    ASSUME FilesNotMixed, UNCHANGED <<got, claimed>>
    PROVE  FilesNotMixed'
  BY DEF FilesNotMixed

\* StartFile: the new sender faces no Session yet.
LEMMA PauseStartFile ==
    ASSUME BaseInv, BaseInv', Apart, StartFile
    PROVE  Apart'
<1> DEFINE h == Handshake(file)
<1>1. /\ sKcp' = ikcp_send(ikcp_create, h) /\ sPc' = "waitAck" /\ port' = port + 1
      /\ sPc = "idle" /\ UNCHANGED <<file, recvVars, netVars>>
  BY DEF StartFile
<1>2. /\ port \in Nat /\ remote \in 0 .. port /\ file \in Files /\ NetBase /\ TypeInv /\ TypeInv'
  BY DEF BaseInv, TypeInv
<1>3. /\ SameReceiving(ikcp_create, sKcp') /\ SameWindows(ikcp_create, sKcp')
  <2>1. h \in Messages /\ [sn |-> 0, data |-> h] \in Stored
    BY <1>2, MessagesMade DEF Stored
  <2>2. ikcp_create \in EndType /\ SndOK(ikcp_create, Stored, 0)
    BY CreateOK
  <2> HIDE DEF h
  <2> QED  BY <1>1, <2>1, <2>2, SendOK
<1> HIDE DEF h
<1>4. Silent(sKcp') /\ sKcp'.rcv_queue = <<>>
  BY <1>3, CreateOK DEF SameWindows, SameReceiving, Silent
<1>5. toReceiver' = toReceiver /\ toSender' = toSender /\ remote' = remote
      /\ claimed' = claimed /\ got' = got
  BY <1>1 DEF netVars, recvVars
<1>6. \A d \in toReceiver \cup toSender : d.port # port'
  BY <1>1, <1>2 DEF NetBase
<1>7. remote' # port' /\ ~Facing'
  BY <1>1, <1>2, <1>5 DEF Facing
<1>8. ApartInv'
  BY <1>1, <1>4, <1>5, <1>6 DEF ApartInv
<1>9. FacingInv'
  BY <1>5, <1>6, <1>7 DEF FacingInv
<1>10. HearingInv'
  <2>1. Limit = NumChunks + 1 /\ Limit' = NumChunks + 1 /\ NumChunks \in Nat
    BY <1>1, <1>7, ConnectionAssumption DEF Limit, Alive
  <2>2. Limit <= Limit'
    BY <2>1
  <2>3. UNCHANGED recvVars /\ HearingInv
    BY <1>1 DEF Apart
  <2> QED  BY <1>2, <1>5, <2>2, <2>3, HearsMore
<1>11. FilesNotMixed'
  BY <1>5, MixedStays DEF Apart
<1> QED  BY <1>8, <1>9, <1>10, <1>11 DEF Apart

\* SenderRecv: an answer is for a sender that faces its Session.
LEMMA PauseSenderRecv ==
    ASSUME BaseInv, BaseInv', Apart, SenderRecv
    PROVE  Apart'
<1>1. /\ sPc = "waitAck" /\ sPc' = "sending" /\ todo' = todo /\ GivenCount' = GivenCount
      /\ SameSending(sKcp, sKcp') /\ sKcp'.acklist = sKcp.acklist
  BY SenderRecvFacts
<1>2. sKcp.rcv_queue # <<>> /\ UNCHANGED <<file, port, recvVars, netVars>>
  BY DEF SenderRecv
<1>3. Alive /\ Alive' /\ TypeInv /\ TypeInv'
  BY <1>1 DEF Alive, BaseInv
<1>4. Facing
  BY <1>1, <1>2, <1>3 DEF Apart, ApartInv
<1>5. /\ Facing' /\ Opened' = Opened /\ remote' = remote /\ toReceiver' = toReceiver
      /\ UNCHANGED <<got, claimed>>
  BY <1>2, <1>3, <1>4 DEF Facing, Heard, Bound, Opened, recvVars, netVars
<1>6. ApartInv'
  BY <1>5 DEF ApartInv
<1>7. FacingInv'
  BY <1>1, <1>2, <1>4, <1>5 DEF Apart, FacingInv, SameSending
<1>8. Limit' = Limit /\ Limit \in Nat
  BY <1>1, <1>2, <1>3, <1>5, LimitFacts DEF Limit
<1>9. HearingInv'
  <2>1. Limit <= Limit' /\ HearingInv /\ UNCHANGED recvVars
    BY <1>2, <1>8 DEF Apart
  <2> QED  BY <1>3, <1>5, <2>1, HearsMore
<1> QED  BY <1>5, <1>6, <1>7, <1>9, MixedStays DEF Apart

\* A critical section of a sender that faces its Session.
LEMMA PauseFacingSays ==
    ASSUME BaseInv, BaseInv', Apart, Facing, NEW k, k.updated = sKcp.updated \/ k.updated,
           SenderSaid(k, GivenCount'), GivenCount <= GivenCount',
           UNCHANGED <<sPc, file, port, recvVars>>, toSender' \subseteq toSender
    PROVE  Apart'
<1>1. /\ Flushed(k, sKcp')
      /\ \A d \in toReceiver' :
            d \in toReceiver \/ (d.port = port /\ Says(k, OutgoingOf(file), GivenCount', d.seg))
  BY DEF SenderSaid
<1>2. TypeInv /\ TypeInv' /\ Alive /\ Alive' /\ Heard /\ remote = port
      /\ sKcp.updated /\ Opened = file /\ HearingInv /\ FilesNotMixed
  BY DEF BaseInv, Facing, Alive, Apart, FacingInv
<1>3. /\ Facing' /\ Opened' = Opened /\ remote' = remote /\ UNCHANGED <<got, claimed>>
      /\ (Heard' <=> Heard)
  BY <1>2 DEF Facing, Heard, Bound, Opened, recvVars
<1>4. sKcp'.acklist = {} /\ sKcp'.updated
  BY <1>1, <1>2 DEF Flushed
<1>5. ApartInv'
  BY <1>3 DEF ApartInv
<1>6. FacingInv'
  BY <1>2, <1>3, <1>4 DEF FacingInv
<1>7. Limit = GivenCount /\ Limit' = GivenCount'
  BY <1>2, <1>3 DEF Limit
<1>8. HearingInv'
  <2>1. UNCHANGED recvVars /\ Limit <= Limit'
    BY <1>7
  <2>2. ASSUME NEW d \in toReceiver', d \notin toReceiver
        PROVE  /\ Heard /\ d.port = remote
               /\ d.seg.cmd = "push" => /\ Carried(d.seg) \in OutgoingOf(Opened)
                                        /\ d.seg.sn < Limit'
    BY <1>1, <1>2, <1>7, <2>2 DEF Says
  <2> HIDE DEF Limit, Heard, Opened
  <2> QED  BY <1>2, <2>1, <2>2, HearsMore
<1> QED  BY <1>2, <1>3, <1>5, <1>6, <1>8, MixedStays DEF Apart

\* A flush by the clock of a sender that faces no Session: its handshake, or nothing.
LEMMA PauseApartSays ==
    ASSUME BaseInv, BaseInv', Apart, Alive, ~Facing, NEW k \in EndType, k.updated,
           SameReceiving(sKcp, k), SameWindows(sKcp, k),
           k.snd_queue = sKcp.snd_queue, k.snd_buf = sKcp.snd_buf,
           SenderSaid(k, GivenCount), UNCHANGED <<sPc, file, port, todo, toSender, recvVars>>
    PROVE  Apart'
<1>1. /\ Flushed(k, sKcp')
      /\ \A d \in toReceiver' :
            d \in toReceiver \/ (d.port = port /\ Says(k, OutgoingOf(file), GivenCount, d.seg))
  BY DEF SenderSaid
<1>2. TypeInv /\ TypeInv' /\ Alive' /\ HearingInv /\ FilesNotMixed
  BY DEF BaseInv, Alive, Apart
<1>3. /\ Silent(sKcp)
      /\ \A d \in toSender : d.port # port
      /\ sPc = "waitAck" => sKcp.rcv_queue = <<>>
      /\ sPc # "waitAck" =>
            /\ todo = {} /\ sKcp.snd_buf = {} /\ sKcp.snd_queue = <<>>
            /\ \A d \in toReceiver : d.port # port
  BY DEF Apart, ApartInv
<1>4. ~Facing' /\ UNCHANGED <<got, claimed>>
  BY <1>2 DEF Facing, Heard, Bound, recvVars
<1>5. Silent(k) /\ Silent(sKcp') /\ sKcp'.rcv_queue = sKcp.rcv_queue /\ sKcp'.updated
  BY <1>1, <1>3 DEF Silent, SameWindows, SameReceiving, Flushed
<1>6. ASSUME NEW d \in toReceiver', d \notin toReceiver
      PROVE  sPc = "waitAck" /\ d.seg.cmd = "push" /\ d.seg.sn = 0
  <2>1. Says(k, OutgoingOf(file), GivenCount, d.seg)
    BY <1>1, <1>6
  <2>2. d.seg \in SegmentType
    BY <2>1 DEF Says
  <2>3. d.seg.cmd \in {"ack", "push", "wask", "wins"} /\ d.seg.sn \in Nat
    BY <2>2, SegmentFields
  <2>4. d.seg.cmd = "push" /\ d.seg.sn < GivenCount /\ ~(k.snd_queue = <<>> /\ k.snd_buf = {})
    BY <1>5, <2>1, <2>3 DEF Says, Silent
  <2>5. sPc = "waitAck"
    BY <1>3, <2>4
  <2>6. d.seg.sn < 1
    BY <2>4, <2>5 DEF GivenCount
  <2> QED  BY <2>3, <2>4, <2>5, <2>6
<1>7. ApartInv'
  <2>1. sPc # "waitAck" =>
           /\ todo' = {} /\ sKcp'.snd_buf = {} /\ sKcp'.snd_queue = <<>>
           /\ \A d \in toReceiver' : d.port # port
    BY <1>1, <1>3, <1>6 DEF Flushed
  <2> QED  BY <1>3, <1>5, <2>1 DEF ApartInv
<1>8. FacingInv'
  BY <1>4, <1>5 DEF FacingInv
<1>9. HearingInv'
  <2>1. Limit' = Limit /\ Limit \in Nat
    BY <1>2, LimitFacts DEF Limit, GivenCount, recvVars, Alive
  <2>2. Limit <= Limit' /\ UNCHANGED recvVars
    BY <2>1
  <2> HIDE DEF Limit
  <2> QED  BY <1>2, <1>6, <2>2, HearsMore
<1> QED  BY <1>2, <1>4, <1>7, <1>8, <1>9, MixedStays DEF Apart

\* SendChunk, SenderUpdate, SenderInput
LEMMA PauseSenderSections ==
    ASSUME BaseInv, BaseInv', Apart,
           \/ SendChunk
           \/ \E due \in SUBSET Sns(sKcp.snd_buf) : SenderUpdate(due)
           \/ \E d \in toSender : SenderInput(d)
    PROVE  Apart'
<1>1. TypeInv /\ TypeInv' /\ GivenCount \in Nat
  <2>1. TypeInv
    BY DEF BaseInv
  <2> QED  BY <2>1, LimitFacts DEF BaseInv
<1>2. Alive /\ ~Facing => /\ \A d \in toSender : d.port # port
                          /\ sPc # "waitAck" => todo = {}
  BY DEF Apart, ApartInv
<1>3. CASE SendChunk
  <2>1. /\ Alive /\ sPc # "waitAck" /\ todo # {}
        /\ UNCHANGED <<sPc, file, port, toSender, recvVars>>
    BY <1>3 DEF SendChunk, Alive
  <2>2. Facing
    BY <1>2, <2>1
  <2>3. PICK k \in EndType : /\ GivenCount' = GivenCount + 1 /\ k.updated = sKcp.updated
                             /\ SenderSaid(k, GivenCount')
    BY <1>3, SendChunkFacts
  <2>4. GivenCount <= GivenCount'
    BY <1>1, <2>3
  <2> QED  BY <2>1, <2>2, <2>3, <2>4, PauseFacingSays
<1>4. CASE \E due \in SUBSET Sns(sKcp.snd_buf) : SenderUpdate(due)
  <2>1. PICK due : SenderUpdate(due)
    BY <1>4
  <2>2. Alive /\ UNCHANGED <<sPc, file, port, todo, toSender, recvVars>>
    BY <2>1 DEF SenderUpdate, Alive
  <2>3. PICK k \in EndType :
           /\ SameReceiving(sKcp, k) /\ SameWindows(sKcp, k) /\ k.updated
           /\ k.snd_queue = sKcp.snd_queue /\ k.snd_buf = sKcp.snd_buf
           /\ SenderSaid(k, GivenCount)
    BY <2>1, SenderUpdateFacts
  <2>4. CASE Facing
    <3>1. GivenCount' = GivenCount /\ GivenCount <= GivenCount'
      BY <1>1, <2>2 DEF GivenCount
    <3>2. SenderSaid(k, GivenCount')
      BY <2>3, <3>1
    <3> QED  BY <2>2, <2>3, <2>4, <3>1, <3>2, PauseFacingSays
  <2>5. CASE ~Facing
    BY <2>2, <2>3, <2>5, PauseApartSays
  <2> QED  BY <2>4, <2>5
<1>5. CASE \E d \in toSender : SenderInput(d)
  <2>1. PICK d \in toSender : SenderInput(d)
    BY <1>5
  <2>2. toSender' \subseteq toSender /\ UNCHANGED <<sPc, file, port, todo, recvVars>>
    BY <2>1 DEF SenderInput
  <2>3. CASE Alive /\ d.port = port
    <3>1. Facing
      BY <1>2, <2>1, <2>3
    <3>2. PICK k \in EndType : Fed(sKcp, d.seg, k) /\ SenderSaid(k, GivenCount)
      BY <2>1, <2>3, SenderInputFacts
    <3>3. GivenCount' = GivenCount /\ GivenCount <= GivenCount'
      BY <1>1, <2>2 DEF GivenCount
    <3>4. SenderSaid(k, GivenCount') /\ k.updated = sKcp.updated
      BY <3>2, <3>3 DEF Fed
    <3> QED  BY <2>2, <3>1, <3>3, <3>4, PauseFacingSays
  <2>4. CASE ~(Alive /\ d.port = port)
    <3>1. UNCHANGED <<sKcp, toReceiver>>
      BY <2>1, <2>4 DEF SenderInput, Alive
    <3>2. /\ (Facing' <=> Facing) /\ (Heard' <=> Heard) /\ (Alive' <=> Alive)
          /\ Opened' = Opened /\ Limit' = Limit /\ ReadCount' = ReadCount
          /\ remote' = remote /\ rKcp' = rKcp /\ UNCHANGED <<got, claimed>>
      BY <2>2 DEF Facing, Heard, Bound, Alive, Opened, Limit, GivenCount, ReadCount, recvVars
    <3>3. Incoming' = Incoming
      BY <3>2 DEF Incoming
    <3> HIDE DEF Facing, Heard, Alive, Opened, Limit, ReadCount, Incoming
    <3>4. ApartInv'
      BY <2>2, <3>1, <3>2 DEF Apart, ApartInv
    <3>5. FacingInv'
      BY <2>2, <3>1, <3>2 DEF Apart, FacingInv
    <3>6. HearingInv'
      BY <3>1, <3>2, <3>3 DEF Apart, HearingInv
    <3> QED  BY <3>2, <3>4, <3>5, <3>6, MixedStays DEF Apart
  <2> QED  BY <2>3, <2>4
<1> QED  BY <1>3, <1>4, <1>5

\* SendFileReturns, SenderCloses, SenderDrops: a Session that is left alone may
\* still hear what its sender said.
LEMMA PauseSenderThread ==
    ASSUME BaseInv, BaseInv', Apart, SendFileReturns \/ SenderCloses \/ SenderDrops
    PROVE  Apart'
<1>1. TypeInv /\ TypeInv' /\ HearingInv /\ FilesNotMixed
  BY DEF BaseInv, Apart
<1>2. UNCHANGED <<port, todo, sKcp, recvVars, netVars>>
  BY DEF SendFileReturns, SenderCloses, SenderDrops
<1>3. GivenCount \in Nat /\ GivenCount <= NumChunks + 1 /\ NumChunks \in Nat
  BY <1>1, LimitFacts
<1>4. Limit <= Limit'
  <2>1. CASE SendFileReturns
    <3>1. Alive /\ Alive' /\ GivenCount' = GivenCount /\ remote' = remote
      BY <1>2, <2>1 DEF SendFileReturns, Alive, GivenCount, recvVars
    <3> QED  BY <1>2, <1>3, <3>1 DEF Limit
  <2>2. CASE SenderCloses \/ SenderDrops
    <3>1. ~Alive'
      BY <2>2 DEF SenderCloses, SenderDrops, Alive
    <3> QED  BY <1>3, <3>1 DEF Limit
  <2> QED  BY <2>1, <2>2
<1>5. HearingInv'
  <2>1. toReceiver' = toReceiver /\ UNCHANGED recvVars
    BY <1>2 DEF netVars
  <2> QED  BY <1>1, <1>4, <2>1, HearsMore
<1>6. ApartInv' /\ FacingInv'
  <2>1. CASE SendFileReturns
    <3>1. Alive /\ Alive' /\ sPc # "waitAck" /\ sPc' # "waitAck" /\ file' = file
      BY <2>1 DEF SendFileReturns, Alive
    <3>2. (Facing' <=> Facing) /\ Opened' = Opened /\ toReceiver' = toReceiver
          /\ toSender' = toSender
      BY <1>2, <3>1 DEF Facing, Heard, Bound, Opened, recvVars, netVars
    <3> QED  BY <1>2, <3>1, <3>2 DEF Apart, ApartInv, FacingInv
  <2>2. CASE SenderCloses \/ SenderDrops
    <3>1. ~Alive'
      BY <2>2 DEF SenderCloses, SenderDrops, Alive
    <3> QED  BY <3>1 DEF ApartInv, FacingInv, Facing
  <2> QED  BY <2>1, <2>2
<1>7. FilesNotMixed'
  BY <1>1, <1>2, MixedStays DEF recvVars
<1> QED  BY <1>5, <1>6, <1>7 DEF Apart

------------------------------------------------------------------------------
(* PauseInv: the receiver *)

\* What the sender may say and hear, after a step of the receiver that leaves the
\* two as they were to one another.
LEMMA ApartStays ==
    ASSUME ApartInv, FacingInv, UNCHANGED sendVars, Facing' <=> Facing,
           Facing => Opened' = Opened, toReceiver' \subseteq toReceiver,
           \A d \in toSender' : d \in toSender \/ (Heard' /\ d.port = remote')
    PROVE  ApartInv' /\ FacingInv'
<1>1. UNCHANGED <<sPc, file, port, todo, sKcp>> /\ (Alive' <=> Alive)
  BY DEF sendVars, Alive
<1>2. ASSUME Alive, ~Facing, NEW d \in toSender' PROVE d.port # port
  <2>1. CASE d \in toSender
    BY <1>2, <2>1 DEF ApartInv
  <2>2. CASE Heard' /\ d.port = remote'
    BY <1>1, <1>2, <2>2 DEF Facing
  <2> QED  BY <2>1, <2>2
<1> HIDE DEF Facing, Alive
<1>3. ApartInv'
  BY <1>1, <1>2 DEF ApartInv
<1>4. FacingInv'
  BY <1>1 DEF FacingInv
<1> QED  BY <1>3, <1>4

\* ReceiverInput: the first datagram is a handshake, and makes its sender and the
\* Session face one another; every other is of the Session's file.
LEMMA PauseReceiverInput ==
    ASSUME BaseInv, BaseInv', Apart, NEW d \in toReceiver, ReceiverInput(d)
    PROVE  Apart'
<1>1. /\ TypeInv /\ ReceiverBase /\ NetBase /\ ApartInv /\ FacingInv /\ HearingInv
      /\ FilesNotMixed /\ rKcp \in EndType /\ file \in Files
  BY DEF BaseInv, Apart, TypeInv
<1>2. /\ UNCHANGED <<sendVars, rPc, claimed, got, chunks_recv_>>
      /\ toReceiver' = toReceiver \ {d}
  BY DEF ReceiverInput
<1>3. /\ UNCHANGED <<sPc, file, port, todo, sKcp>> /\ (Alive' <=> Alive)
      /\ (Bound' <=> Bound) /\ ReadCount' = ReadCount /\ GivenCount' = GivenCount
  BY <1>2 DEF sendVars, Alive, Bound, ReadCount, GivenCount
<1>4. FilesNotMixed'
  BY <1>1, <1>2, MixedStays
<1>5. ReadCount \in Nat /\ Limit \in Nat /\ Limit > 0 /\ NumChunks \in Nat /\ GivenCount \in Nat
      /\ Incoming \in SUBSET Outgoing
  BY <1>1, ReadBounds, LimitFacts
<1>6. CASE ~Bound
  <2>1. UNCHANGED <<remote, rKcp, toSender>>
    BY <1>6 DEF ReceiverInput, Bound
  <2>2. ~Heard /\ ~Heard' /\ ~Facing /\ ~Facing'
    BY <1>3, <1>6 DEF Heard, Facing
  <2>3. ApartInv' /\ FacingInv'
    BY <1>1, <1>2, <2>1, <2>2, ApartStays
  <2>4. HearingInv'
    BY <1>1, <1>2, <2>2 DEF HearingInv
  <2> QED  BY <1>4, <2>3, <2>4 DEF Apart
<1>7. CASE Bound
  <2>1. PICK k \in EndType :
           /\ Fed(rKcp, d.seg, k)
           /\ Opened # NoFile \/ d.seg.cmd # "push" => Opened' = Opened
           /\ Opened = NoFile /\ d.seg.cmd = "push" /\ d.seg.sn = 0
                 => Opened' = d.seg.data.file
           /\ \A I \in SUBSET Outgoing :
                 /\ RcvOK(rKcp, I, ReadCount)
                 /\ d.seg.cmd = "push" => d.seg.sn < rKcp.rcv_nxt \/ Carried(d.seg) \in I
                 => RcvOK(k, I, ReadCount)
           /\ remote' = (IF remote = NoPort THEN d.port ELSE remote)
           /\ remote' \in 1 .. port
           /\ ReceiverSaid(k, Opened', AnswerCount)
    BY <1>7, ReceiverInputFacts
  <2>2. /\ Flushed(k, rKcp')
        /\ \A e \in toSender' : e \in toSender \/ e.port = remote'
    BY <2>1 DEF ReceiverSaid
  <2>3. Heard' /\ port \in Nat
    BY <1>1, <1>3, <1>7, <2>1 DEF Heard, NoPort, TypeInv
  <2>4. CASE remote = NoPort
    <3>1. ~Heard /\ ~Facing /\ Opened = NoFile /\ claimed = NoFile
          /\ rKcp.rcv_queue = <<>> /\ rKcp.rcv_buf = {}
      BY <1>1, <1>7, <2>4 DEF ReceiverBase, Heard, Facing, Opened, OpenedOf
    <3>2. ReadCount = 0
      BY <3>1 DEF ReadCount
    <3>3. \A e \in toReceiver : e.seg.cmd = "push" /\ e.seg.sn = 0
      BY <1>1, <3>1 DEF HearingInv
    <3>4. remote' = d.port /\ Opened' = d.seg.data.file
      BY <2>1, <2>4, <3>1, <3>3
    <3>5. Carried(d.seg) \in Outgoing /\ d.seg.sn = 0 /\ d.seg.cmd = "push"
          /\ d.seg \in SegmentType
      BY <1>1, <3>3 DEF NetBase, TypeInv, DatagramType
    <3>6. Opened' # NoFile
      <4>1. d.seg.data \in Messages
        BY <3>5, SegmentFields
      <4> QED  BY <3>4, <4>1, MessageFields
    <3>7. Limit' \in Nat /\ Limit' > 0
      <4>1. GivenCount' \in 1 .. NumChunks + 1
        BY <1>1, <1>3, GivenBounds
      <4> HIDE DEF GivenCount
      <4> QED  BY <1>5, <4>1 DEF Limit
    <3>8. Carried(d.seg) \in Incoming' /\ Incoming' \in SUBSET Outgoing
      <4>1. Incoming' = {s \in OutgoingOf(Opened') : s.sn < Limit'}
        BY DEF Incoming
      <4>2. Carried(d.seg) \in OutgoingOf(Opened') /\ Carried(d.seg).sn = 0
        BY <3>4, <3>5, CarriedSn DEF OutgoingOf
      <4>3. \A s \in OutgoingOf(Opened') : s \in Outgoing
        BY OutgoingFacts
      <4> HIDE DEF Limit, Opened
      <4> QED  BY <3>7, <4>1, <4>2, <4>3
    <3> HIDE DEF Limit, Opened, ReadCount, Incoming
    <3>9. RcvOK(rKcp', Incoming', ReadCount)
      <4>1. RcvOK(rKcp, Incoming', ReadCount)
        <5>1. RcvOK(rKcp, OutgoingFrom(Opened), ReadCount)
          BY <1>1, <1>7 DEF ReceiverBase
        <5>2. Len(<<>>) = 0
          OBVIOUS
        <5> QED  BY <3>1, <5>1, <5>2 DEF RcvOK
      <4>2. RcvOK(k, Incoming', ReadCount)
        BY <2>1, <3>8, <4>1
      <4> QED  BY <2>2, <4>2, FlushedReceives
    <3>10. HearingInv'
      <4>1. ReadCount' <= Limit'
        BY <1>3, <3>2, <3>7
      <4> QED  BY <1>2, <1>3, <3>3, <3>6, <3>9, <4>1 DEF HearingInv
    <3>11. ApartInv' /\ FacingInv'
      <4>1. CASE Alive /\ d.port = port
        <5>1. Facing' /\ Opened' = file
          <6>1. d.seg.data.file = file
            BY <1>1, <3>5, <4>1 DEF NetBase
          <6> QED  BY <1>3, <2>3, <3>4, <4>1, <6>1 DEF Facing
        <5>2. sKcp.acklist = {} /\ sKcp.updated
          BY <1>1, <3>1, <4>1 DEF ApartInv, FacingInv, Silent
        <5> QED  BY <1>3, <5>1, <5>2 DEF ApartInv, FacingInv
      <4>2. CASE ~(Alive /\ d.port = port)
        <5>1. ~Facing'
          BY <1>3, <3>4, <4>2 DEF Facing
        <5>2. toReceiver' \subseteq toReceiver /\ UNCHANGED sendVars
          BY <1>2
        <5> QED  BY <1>1, <2>2, <2>3, <3>1, <5>1, <5>2, ApartStays
      <4> QED  BY <4>1, <4>2
    <3> QED  BY <1>4, <3>10, <3>11 DEF Apart
  <2>5. CASE remote # NoPort
    <3>1. Heard /\ remote' = remote
      BY <1>7, <2>1, <2>5 DEF Heard
    <3>2. Opened # NoFile /\ RcvOK(rKcp, Incoming, ReadCount) /\ ReadCount <= Limit
      BY <1>1, <3>1 DEF HearingInv
    <3>3. Opened' = Opened
      BY <2>1, <3>2
    <3>4. Limit' = Limit /\ (Facing' <=> Facing)
      BY <1>3, <2>3, <3>1 DEF Limit, Facing
    <3>5. Incoming' = Incoming
      BY <3>3, <3>4 DEF Incoming
    <3>6. d.seg.cmd = "push" => d.seg.sn < rKcp.rcv_nxt \/ Carried(d.seg) \in Incoming
      <4>1. CASE d.seg.cmd = "push" /\ d.seg.sn = 0
        <5>1. rKcp.rcv_nxt \in Nat /\ Len(rKcp.rcv_queue) \in Nat
              /\ rKcp.rcv_nxt = ReadCount + Len(rKcp.rcv_queue) /\ rKcp.rcv_queue \in Seq(Messages)
          BY <1>1, <3>2, EndFields DEF RcvOK
        <5>2. ReadCount > 0 \/ Len(rKcp.rcv_queue) > 0
          <6>1. claimed # NoFile \/ rKcp.rcv_queue # <<>>
            BY <3>2 DEF Opened, OpenedOf
          <6>2. claimed # NoFile => ReadCount # 0
            BY <1>1, ReadBounds
          <6>3. rKcp.rcv_queue # <<>> => Len(rKcp.rcv_queue) # 0
            BY <5>1, EmptySeq
          <6> HIDE DEF ReadCount
          <6> QED  BY <1>5, <5>1, <6>1, <6>2, <6>3
        <5> HIDE DEF ReadCount
        <5> QED  BY <1>5, <4>1, <5>1, <5>2
      <4>2. CASE ~(d.seg.cmd = "push" /\ d.seg.sn = 0)
        BY <1>1, <4>2 DEF HearingInv
      <4> QED  BY <4>1, <4>2
    <3> HIDE DEF Limit, Opened, ReadCount, Incoming
    <3>7. RcvOK(rKcp', Incoming, ReadCount)
      <4>1. RcvOK(k, Incoming, ReadCount)
        BY <1>5, <2>1, <3>2, <3>6
      <4> QED  BY <2>2, <4>1, FlushedReceives
    <3>8. HearingInv'
      BY <1>1, <1>2, <1>3, <2>3, <3>1, <3>2, <3>3, <3>4, <3>5, <3>7 DEF HearingInv
    <3>9. ApartInv' /\ FacingInv'
      BY <1>1, <1>2, <2>2, <2>3, <3>3, <3>4, ApartStays
    <3> QED  BY <1>4, <3>8, <3>9 DEF Apart
  <2> QED  BY <2>4, <2>5
<1> QED  BY <1>6, <1>7

\* A step of the receiver that keeps its address and its file.
LEMMA ReceiverOn ==
    ASSUME TypeInv, Apart, FilesNotMixed', UNCHANGED <<sendVars, remote>>, Bound' <=> Bound,
           toReceiver' \subseteq toReceiver, Opened' = Opened,
           \A d \in toSender' : d \in toSender \/ (Heard' /\ d.port = remote'),
           Heard => RcvOK(rKcp', Incoming, ReadCount') /\ ReadCount' <= Limit
    PROVE  Apart'
<1>1. /\ UNCHANGED <<sPc, file, port, todo, sKcp>> /\ (Alive' <=> Alive)
      /\ (Heard' <=> Heard) /\ (Facing' <=> Facing) /\ Limit' = Limit
      /\ ApartInv /\ FacingInv /\ HearingInv
  BY DEF sendVars, Alive, Heard, Bound, Facing, Limit, GivenCount, Apart
<1>2. Incoming' = Incoming
  BY <1>1 DEF Incoming
<1> HIDE DEF Limit, Opened, ReadCount, Incoming, Heard, Facing
<1>3. ApartInv' /\ FacingInv'
  BY <1>1, ApartStays
<1>4. HearingInv'
  BY <1>1, <1>2 DEF HearingInv
<1> QED  BY <1>3, <1>4 DEF Apart

\* ReceiverUpdate: a Session that heard nothing says nothing.
LEMMA PauseReceiverUpdate ==
    ASSUME BaseInv, Apart, NEW due, ReceiverUpdate(due)
    PROVE  Apart'
<1>1. /\ TypeInv /\ ReceiverBase /\ HearingInv /\ FilesNotMixed
  BY DEF BaseInv, Apart
<1>2. /\ Bound /\ (Bound' <=> Bound)
      /\ UNCHANGED <<sendVars, remote, claimed, got, chunks_recv_, toReceiver>>
  BY DEF ReceiverUpdate, Bound
<1>3. PICK k \in EndType :
         /\ SameReceiving(rKcp, k) /\ SameWindows(rKcp, k) /\ k.updated
         /\ k.snd_queue = rKcp.snd_queue /\ k.snd_buf = rKcp.snd_buf
         /\ ReceiverSaid(k, Opened, AnswerCount) /\ Opened' = Opened
  BY ReceiverUpdateFacts
<1>4. FilesNotMixed'
  BY <1>1, <1>2, MixedStays
<1>5. Heard => RcvOK(rKcp, Incoming, ReadCount) /\ ReadCount <= Limit
  BY <1>1 DEF HearingInv
<1>6. ReadCount' = ReadCount
  BY <1>2 DEF ReadCount
<1>7. ASSUME NEW d \in toSender', d \notin toSender
      PROVE  Heard' /\ d.port = remote'
  <2>1. d.port = remote' /\ Says(k, AnswersOf(Opened), AnswerCount, d.seg)
    BY <1>3, <1>7 DEF ReceiverSaid
  <2>2. remote # NoPort
    <3>1. SUFFICES ASSUME remote = NoPort PROVE FALSE
      OBVIOUS
    <3>2. Silent(rKcp) /\ claimed = NoFile /\ SndOK(rKcp, AnswersOf(Opened), 0)
      BY <1>1, <1>2, <3>1 DEF ReceiverBase
    <3>3. rKcp.snd_queue = <<>> /\ rKcp.snd_buf = {}
      <4>1. rKcp \in EndType
        BY <1>1 DEF TypeInv
      <4> QED  BY <3>2, <4>1, NothingGiven
    <3>4. Silent(k) /\ k.snd_queue = <<>> /\ k.snd_buf = {}
      BY <1>3, <3>2, <3>3 DEF Silent, SameWindows
    <3> QED  BY <2>1, <3>4, SilentSays
  <2> QED  BY <1>2, <2>1, <2>2 DEF Heard, Bound
<1> HIDE DEF Limit, Opened, ReadCount, Incoming, AnswerCount
<1>8. Heard => RcvOK(rKcp', Incoming, ReadCount') /\ ReadCount' <= Limit
  <2>1. ASSUME Heard PROVE RcvOK(rKcp', Incoming, ReadCount)
    <3>1. RcvOK(k, Incoming, ReadCount)
      BY <1>3, <1>5, <2>1, SameOK
    <3> QED  BY <1>3, <3>1, FlushedReceives DEF ReceiverSaid
  <2> QED  BY <1>5, <1>6, <2>1
<1> HIDE DEF Heard
<1> QED  BY <1>1, <1>2, <1>3, <1>4, <1>7, <1>8, ReceiverOn

\* ReceiverRecv: what is read is of the Session's file.
LEMMA PauseReceiverRecv ==
    ASSUME BaseInv, Apart, ReceiverRecv
    PROVE  Apart'
<1>1. /\ TypeInv /\ ReceiverBase /\ HearingInv /\ FilesNotMixed
  BY DEF BaseInv, Apart
<1>2. /\ Bound /\ rKcp.rcv_queue # <<>>
      /\ (Bound' <=> Bound) /\ UNCHANGED <<sendVars, remote>> /\ toReceiver' = toReceiver
  BY DEF ReceiverRecv, Bound
<1>3. Incoming \in SUBSET Outgoing /\ Limit \in Nat /\ ReadCount \in Nat
  BY <1>1, LimitFacts, ReadBounds
<1>4. Heard /\ Heard' /\ RcvOK(rKcp, Incoming, ReadCount)
  <2>1. remote # NoPort
    BY <1>2, ReceiverReads
  <2> QED  BY <1>1, <1>2, <2>1 DEF Heard, Bound, HearingInv
<1> DEFINE m == Head(rKcp.rcv_queue)
<1>5. [sn |-> ReadCount, data |-> m] \in Incoming
  BY <1>2, <1>3, <1>4, ReceiverReads
<1> HIDE DEF m
<1>6. ReadCount < Limit /\ m.file = Opened
  <2>1. [sn |-> ReadCount, data |-> m] \in OutgoingOf(Opened) /\ ReadCount < Limit
    BY <1>5 DEF Incoming
  <2> QED  BY <2>1, OutgoingFacts
<1>7. CASE m.type = "handshake"
  <2>1. /\ claimed = NoFile /\ claimed' = Opened /\ Opened' = Opened
        /\ ReadCount = 0 /\ ReadCount' = 1 /\ UNCHANGED <<got, chunks_recv_>>
    BY <1>7, ReceiverHandshakeFacts DEF m
  <2>2. PICK k \in EndType :
           /\ \A I \in SUBSET Outgoing :
                 RcvOK(rKcp, I, ReadCount) => RcvOK(k, I, ReadCount')
           /\ ReceiverSaid(k, Opened, 1)
    BY <1>7, ReceiverHandshakeFacts DEF m
  <2>3. FilesNotMixed'
    <3>1. \A c \in Chunks : got[c] = NoFile
      BY <1>1, <1>2, <2>1 DEF ReceiverBase
    <3> QED  BY <2>1, <3>1 DEF FilesNotMixed
  <2> HIDE DEF Limit, Opened, ReadCount, Incoming, Heard
  <2>4. RcvOK(rKcp', Incoming, ReadCount')
    BY <1>3, <1>4, <2>2, FlushedReceives DEF ReceiverSaid
  <2>5. ReadCount' <= Limit
    BY <1>3, <1>6, <2>1
  <2>6. \A d \in toSender' : d \in toSender \/ (Heard' /\ d.port = remote')
    BY <1>4, <2>2 DEF ReceiverSaid
  <2> QED  BY <1>1, <1>2, <2>1, <2>3, <2>4, <2>5, <2>6, ReceiverOn
<1>8. CASE m.type # "handshake"
  <2>1. /\ claimed # NoFile /\ UNCHANGED <<claimed, toSender>>
        /\ Opened' = Opened /\ ReadCount' = ReadCount + 1
        /\ got' = [got EXCEPT ![m.chunk] = m.file]
        /\ RcvOK(rKcp', Incoming, ReadCount')
    BY <1>3, <1>4, <1>8, ReceiverChunkFacts DEF m
  <2>2. Opened = claimed
    BY <2>1 DEF Opened, OpenedOf
  <2>3. FilesNotMixed'
    <3>1. got \in [Chunks -> Nat] /\ \A c \in Chunks : got[c] \in {NoFile, claimed}
      BY <1>1 DEF TypeInv, FilesNotMixed
    <3>2. \A c \in Chunks : got'[c] = got[c] \/ got'[c] = m.file
      BY <2>1, <3>1
    <3> QED  BY <1>6, <2>1, <2>2, <3>1, <3>2 DEF FilesNotMixed
  <2> HIDE DEF Limit, Opened, ReadCount, Incoming, Heard
  <2>4. ReadCount' <= Limit
    BY <1>3, <1>6, <2>1
  <2> QED  BY <1>1, <1>2, <2>1, <2>3, <2>4, ReceiverOn
<1> QED  BY <1>7, <1>8

\* A Session that has a whole file read all that its sender was ever to send.
LEMMA ReceiverReturned ==
    ASSUME BaseInv, Apart, rPc = "returned"
    PROVE  /\ Heard /\ claimed # NoFile
           /\ Facing => sPc # "waitAck" /\ todo = {}
<1>1. /\ TypeInv /\ ReceiverBase /\ HearingInv /\ Bound
      /\ chunks_recv_ \in Nat /\ todo \in SUBSET Chunks
  BY DEF BaseInv, Apart, TypeInv, Bound
<1>2. Heard /\ claimed # NoFile /\ chunks_recv_ >= NumChunks
  BY <1>1 DEF ReceiverBase, Heard
<1>3. ASSUME Facing PROVE sPc # "waitAck" /\ todo = {}
  <2>1. Limit = GivenCount
    BY <1>3 DEF Limit, Facing
  <2>2. 1 + chunks_recv_ <= GivenCount
    BY <1>1, <1>2, <2>1 DEF HearingInv, ReadCount
  <2>3. /\ NumChunks \in Nat /\ NumChunks > 0 /\ Cardinality(todo) \in Nat
        /\ (Cardinality(todo) = 0 <=> todo = {})
    BY <1>1, ChunkCounts
  <2>4. sPc # "waitAck"
    BY <1>1, <1>2, <2>2, <2>3 DEF GivenCount
  <2>5. GivenCount = 1 + NumChunks - Cardinality(todo)
    BY <2>4 DEF GivenCount
  <2>6. Cardinality(todo) = 0
    BY <1>1, <1>2, <2>2, <2>3, <2>5
  <2> QED  BY <2>3, <2>4, <2>6
<1> QED  BY <1>2, <1>3

\* Nothing waits to be acknowledged.
LEMMA WaitsForNothing ==
    ASSUME NEW k \in EndType, NEW O, NEW n, SndOK(k, O, n), ikcp_waitsnd(k) = 0
    PROVE  k.snd_buf = {} /\ k.snd_queue = <<>>
<1>1. IsFiniteSet(k.snd_buf) /\ Len(k.snd_queue) \in Nat /\ k.snd_queue \in Seq(Messages)
  BY EndFields DEF SndOK
<1>2. Cardinality(k.snd_buf) \in Nat
  BY <1>1, FS_CardinalityType
<1>3. Cardinality(k.snd_buf) = 0 /\ Len(k.snd_queue) = 0
  BY <1>1, <1>2 DEF ikcp_waitsnd
<1> QED  BY <1>1, <1>3, FS_EmptySet, EmptySeq

\* Listen, RecvFileReturns, ReceiverCloses, Lose: the pause is what leaves nothing
\* of its file to the Session that comes next.
LEMMA PauseReceiverThread ==
    ASSUME BaseInv, Apart, scenario.pauseSuffices,
           Listen \/ RecvFileReturns \/ ReceiverCloses \/ Lose
    PROVE  Apart'
<1>1. /\ TypeInv /\ SenderBase /\ ReceiverBase /\ ApartInv /\ FacingInv /\ HearingInv
      /\ FilesNotMixed
  BY DEF BaseInv, Apart
<1>2. UNCHANGED sendVars
  BY DEF Listen, RecvFileReturns, ReceiverCloses, Lose
<1>3. UNCHANGED <<sPc, file, port, todo, sKcp>> /\ (Alive' <=> Alive)
  BY <1>2 DEF sendVars, Alive
<1>4. CASE Listen
  <2>1. /\ rPc = "unbound" /\ remote' = NoPort /\ claimed' = NoFile
        /\ got' = [c \in Chunks |-> NoFile] /\ UNCHANGED netVars
    BY <1>4 DEF Listen
  <2>2. ~Heard /\ ~Heard' /\ ~Facing /\ ~Facing'
    BY <2>1 DEF Heard, Facing, Bound
  <2>3. toReceiver' = toReceiver /\ toSender' = toSender
    BY <2>1 DEF netVars
  <2>4. FilesNotMixed'
    BY <2>1 DEF FilesNotMixed
  <2> HIDE DEF Heard, Facing
  <2>5. ApartInv' /\ FacingInv'
    BY <1>1, <1>2, <2>2, <2>3, ApartStays
  <2>6. HearingInv'
    BY <1>1, <2>2, <2>3 DEF HearingInv
  <2> QED  BY <2>4, <2>5, <2>6 DEF Apart
<1>5. CASE RecvFileReturns \/ Lose
  <2>1. /\ UNCHANGED <<sendVars, remote, claimed, got, chunks_recv_, rKcp>>
        /\ (Bound' <=> Bound)
        /\ toReceiver' \subseteq toReceiver /\ toSender' \subseteq toSender
    BY <1>5 DEF RecvFileReturns, Lose, recvVars, netVars, Bound
  <2>2. Opened' = Opened /\ ReadCount' = ReadCount
    BY <2>1 DEF Opened, ReadCount
  <2>3. FilesNotMixed'
    BY <1>1, <2>1, MixedStays
  <2>4. Heard => RcvOK(rKcp', Incoming, ReadCount') /\ ReadCount' <= Limit
    BY <1>1, <2>1, <2>2 DEF HearingInv
  <2> HIDE DEF Heard, Limit, Opened, ReadCount, Incoming
  <2> QED  BY <1>1, <2>1, <2>2, <2>3, <2>4, ReceiverOn
<1>6. CASE ReceiverCloses
  <2>1. /\ rPc = "returned" /\ rPc' = "unbound" /\ Quiet(remote)
        /\ UNCHANGED <<claimed, got>> /\ toReceiver' = toReceiver /\ toSender' = toSender
    BY <1>6 DEF ReceiverCloses, netVars
  <2>2. ~Heard' /\ ~Facing' /\ FilesNotMixed'
    BY <1>1, <2>1, MixedStays DEF Heard, Facing, Bound
  <2>3. /\ \A d \in toReceiver : d.port # remote
        /\ Facing =>
              /\ ikcp_waitsnd(sKcp) = 0 /\ sKcp.rmt_wnd > 0 /\ sKcp.probe = {}
              /\ \A d \in toSender : d.port # port
    BY <2>1 DEF Quiet, Facing, Alive
  <2>4. HearingInv'
    <3>1. \A d \in toReceiver : d.seg.cmd = "push" /\ d.seg.sn = 0
      BY <1>1, <2>3 DEF HearingInv
    <3> HIDE DEF Heard
    <3> QED  BY <2>1, <2>2, <3>1 DEF HearingInv
  <2>5. FacingInv'
    BY <1>1, <1>3, <2>1, <2>2 DEF FacingInv
  <2>6. ApartInv'
    <3>1. CASE Facing
      <4>1. Alive /\ remote = port /\ sKcp \in EndType
        BY <1>1, <3>1 DEF Facing, TypeInv
      <4>2. sKcp.snd_buf = {} /\ sKcp.snd_queue = <<>>
        BY <1>1, <2>3, <3>1, <4>1, WaitsForNothing DEF SenderBase
      <4>3. Silent(sKcp)
        BY <1>1, <2>3, <3>1 DEF FacingInv, Silent
      <4>4. sPc # "waitAck" /\ todo = {}
        BY <2>1, <3>1, ReceiverReturned
      <4> HIDE DEF Facing
      <4> QED  BY <1>3, <2>1, <2>3, <3>1, <4>1, <4>2, <4>3, <4>4 DEF ApartInv
    <3>2. CASE ~Facing
      <4> HIDE DEF Facing
      <4> QED  BY <1>1, <1>3, <2>1, <3>2 DEF ApartInv
    <3> QED  BY <3>1, <3>2
  <2> QED  BY <2>2, <2>4, <2>5, <2>6 DEF Apart
<1> QED  BY <1>4, <1>5, <1>6

------------------------------------------------------------------------------
(* PauseInv *)

\* A behaviour keeps its scenario.
LEMMA ScenarioStays ==
    ASSUME [Next]_vars
    PROVE  scenario' = scenario
  BY DEF Next, vars, SenderThread, StartFile, SendChunk, SendFileReturns, SenderCloses,
         SenderRecv, SenderDrops, SenderUpdate, SenderInput, ReceiverThread, Listen,
         RecvFileReturns, ReceiverCloses, ReceiverRecv, ReceiverUpdate, ReceiverInput, Lose,
         envVars

\* PauseInv holds initially.
LEMMA PauseInit ==
    ASSUME Init
    PROVE  PauseInv
<1> SUFFICES Apart
  BY DEF PauseInv
<1>1. ~Alive /\ ~Heard /\ ~Facing /\ toReceiver = {} /\ \A c \in Chunks : got[c] = NoFile
  BY DEF Init, Alive, Heard, Bound, Facing
<1> QED  BY <1>1 DEF Apart, ApartInv, FacingInv, HearingInv, FilesNotMixed

\* Every step preserves PauseInv.
LEMMA PauseNext ==
    ASSUME BaseInv, BaseInv', PauseInv, [Next]_vars
    PROVE  PauseInv'
<1>1. scenario' = scenario
  BY ScenarioStays
<1>2. SUFFICES ASSUME scenario.pauseSuffices PROVE Apart'
  BY <1>1 DEF PauseInv
<1>3. Apart
  BY <1>2 DEF PauseInv
<1>4. CASE StartFile
  BY <1>3, <1>4, PauseStartFile
<1>5. CASE SenderRecv
  BY <1>3, <1>5, PauseSenderRecv
<1>6. CASE \/ SendChunk
           \/ \E due \in SUBSET Sns(sKcp.snd_buf) : SenderUpdate(due)
           \/ \E d \in toSender : SenderInput(d)
  BY <1>3, <1>6, PauseSenderSections
<1>7. CASE SendFileReturns \/ SenderCloses \/ SenderDrops
  BY <1>3, <1>7, PauseSenderThread
<1>8. CASE \E due \in SUBSET Sns(rKcp.snd_buf) : ReceiverUpdate(due)
  BY <1>3, <1>8, PauseReceiverUpdate
<1>9. CASE \E d \in toReceiver : ReceiverInput(d)
  BY <1>3, <1>9, PauseReceiverInput
<1>10. CASE ReceiverRecv
  BY <1>3, <1>10, PauseReceiverRecv
<1>11. CASE Listen \/ RecvFileReturns \/ ReceiverCloses \/ Lose
  BY <1>2, <1>3, <1>11, PauseReceiverThread
<1>12. CASE UNCHANGED vars
  <2>1. UNCHANGED <<sendVars, remote, claimed, got, chunks_recv_, rKcp, toReceiver, toSender>>
        /\ (Bound' <=> Bound) /\ Opened' = Opened /\ ReadCount' = ReadCount
    BY <1>12 DEF vars, recvVars, netVars, Bound, Opened, ReadCount
  <2>2. FilesNotMixed' /\ TypeInv /\ HearingInv
    BY <1>3, <2>1, MixedStays DEF Apart, BaseInv
  <2>3. Heard => RcvOK(rKcp', Incoming, ReadCount') /\ ReadCount' <= Limit
    BY <2>1, <2>2 DEF HearingInv
  <2> HIDE DEF Heard, Limit, Opened, ReadCount, Incoming
  <2> QED  BY <1>3, <2>1, <2>2, <2>3, ReceiverOn
<1> QED  BY <1>4, <1>5, <1>6, <1>7, <1>8, <1>9, <1>10, <1>11, <1>12
         DEF Next, SenderThread, ReceiverThread

\* PausesKeepFilesApart: whatever is lost, late or sent twice, and whichever sender
\* dies, when nothing of a file is left at the end of a pause, the receiver
\* stores no bytes of one file in another.
THEOREM PausesKeepThemApart == Spec => []PausesKeepFilesApart
<1>1. Init => PauseInv
  BY PauseInit
<1>2. BaseInv /\ BaseInv' /\ PauseInv /\ [Next]_vars => PauseInv'
  BY PauseNext
<1>3. PauseInv => PausesKeepFilesApart
  BY DEF PauseInv, Apart, PausesKeepFilesApart
<1>4. Spec => []BaseInv
  BY ConnectionBase
<1> QED  BY <1>1, <1>2, <1>3, <1>4, PTL DEF Spec

------------------------------------------------------------------------------
(* EchoInv *)

\* StartFile: nothing was said to a port that is new.
LEMMA EchoStartFile ==
    ASSUME BaseInv, StartFile
    PROVE  Echoes'
<1> DEFINE h == Handshake(file)
<1>1. /\ sKcp' = ikcp_send(ikcp_create, h) /\ port' = port + 1 /\ file' = file
      /\ toSender' = toSender
  BY DEF StartFile, netVars
<1>2. /\ port \in Nat /\ file \in Files /\ NetBase
  BY DEF BaseInv, TypeInv
<1>3. SameReceiving(ikcp_create, sKcp')
  <2>1. h \in Messages /\ [sn |-> 0, data |-> h] \in Stored
    BY <1>2, MessagesMade DEF Stored
  <2>2. ikcp_create \in EndType /\ SndOK(ikcp_create, Stored, 0)
    BY CreateOK
  <2> HIDE DEF h
  <2> QED  BY <1>1, <2>1, <2>2, SendOK
<1> HIDE DEF h
<1>4. RcvOK(sKcp', AnswersOf(file), 0)
  BY <1>3, CreateOK, SameOK
<1>5. \A d \in toSender : d.port # port'
  BY <1>1, <1>2 DEF NetBase
<1> QED  BY <1>1, <1>4, <1>5 DEF Echoes

\* The sender's other steps: it takes what is under way to it.
LEMMA EchoSender ==
    ASSUME BaseInv, Echoes,
           \/ SenderRecv \/ SendFileReturns \/ SenderCloses \/ SenderDrops \/ SendChunk
           \/ \E due \in SUBSET Sns(sKcp.snd_buf) : SenderUpdate(due)
           \/ \E d \in toSender : SenderInput(d)
    PROVE  Echoes'
<1>1. CASE SenderRecv \/ SendFileReturns \/ SenderCloses \/ SenderDrops \/ SendChunk
  <2>1. sPc' # "waitAck" /\ (Alive' => Alive /\ file' = file /\ port' = port)
    BY <1>1, SenderRecvFacts
       DEF SendFileReturns, SenderCloses, SenderDrops, SendChunk, Alive, SenderRecv
  <2>2. toSender' = toSender
    BY <1>1 DEF SenderRecv, SendFileReturns, SenderCloses, SenderDrops, SendChunk, netVars
  <2> QED  BY <2>1, <2>2 DEF Echoes
<1>2. CASE \E due \in SUBSET Sns(sKcp.snd_buf) : SenderUpdate(due)
  <2>1. PICK due : SenderUpdate(due)
    BY <1>2
  <2>2. Alive /\ UNCHANGED <<sPc, file, port, toSender>>
    BY <2>1 DEF SenderUpdate, Alive
  <2>3. PICK k \in EndType : SameReceiving(sKcp, k) /\ SenderSaid(k, GivenCount)
    BY <2>1, SenderUpdateFacts
  <2>4. RcvOK(sKcp, AnswersOf(file), 0) => RcvOK(sKcp', AnswersOf(file), 0)
    BY <2>3, SameOK, FlushedReceives DEF SenderSaid
  <2> QED  BY <2>2, <2>4 DEF Echoes
<1>3. CASE \E d \in toSender : SenderInput(d)
  <2>1. PICK d \in toSender : SenderInput(d)
    BY <1>3
  <2>2. toSender' \subseteq toSender /\ UNCHANGED <<sPc, file, port>> /\ (Alive' <=> Alive)
    BY <2>1 DEF SenderInput, Alive
  <2>3. ASSUME sPc = "waitAck" PROVE RcvOK(sKcp', AnswersOf(file), 0)
    <3>1. Alive /\ RcvOK(sKcp, AnswersOf(file), 0) /\ Taken(sKcp) = 0
      BY <2>3 DEF Alive, Echoes, BaseInv, SenderBase
    <3>2. CASE d.port = port
      <4>1. PICK k \in EndType :
               /\ \A I \in SUBSET Answers :
                     /\ RcvOK(sKcp, I, Taken(sKcp))
                     /\ d.seg.cmd = "push" => d.seg.sn < sKcp.rcv_nxt \/ Carried(d.seg) \in I
                     => RcvOK(k, I, Taken(sKcp))
               /\ SenderSaid(k, GivenCount)
        BY <2>1, <3>1, <3>2, SenderInputFacts
      <4>2. d.seg.cmd = "push" => Carried(d.seg) \in AnswersOf(file)
        BY <3>1, <3>2, CarriedSn DEF AnswersOf, Echoes, BaseInv, NetBase
      <4>3. RcvOK(k, AnswersOf(file), 0)
        BY <3>1, <4>1, <4>2, AnswersFacts
      <4> QED  BY <4>1, <4>3, FlushedReceives DEF SenderSaid
    <3>3. CASE d.port # port
      BY <2>1, <3>1, <3>3 DEF SenderInput
    <3> QED  BY <3>2, <3>3
  <2> QED  BY <2>2, <2>3 DEF Echoes
<1> QED  BY <1>1, <1>2, <1>3

\* What a Session says to the sender, it says as the sender's peer.
LEMMA EchoReceiverSays ==
    ASSUME BaseInv', Apart', Echoes, NEW k, NEW n, ReceiverSaid(k, Opened', n),
           UNCHANGED sendVars, Bound'
    PROVE  Echoes'
<1>1. \A d \in toSender' :
         d \in toSender \/ (d.port = remote' /\ Says(k, AnswersOf(Opened'), n, d.seg))
  BY DEF ReceiverSaid
<1>2. UNCHANGED <<sPc, file, port, sKcp>> /\ (Alive' <=> Alive)
  BY DEF sendVars, Alive
<1>3. ASSUME Alive, NEW d \in toSender', d.port = port, d.seg.cmd = "push"
      PROVE  d.seg.data.file = file
  <2>1. CASE d \in toSender
    BY <1>3, <2>1 DEF Echoes
  <2>2. CASE d.port = remote' /\ Says(k, AnswersOf(Opened'), n, d.seg)
    <3>1. port' \in Nat /\ port' > 0
      BY <1>2, <1>3 DEF BaseInv, SenderBase, TypeInv
    <3>2. Facing'
      BY <1>2, <1>3, <2>2, <3>1 DEF Facing, Heard, NoPort
    <3>3. Opened' = file
      BY <1>2, <3>2 DEF Apart, FacingInv
    <3>4. Carried(d.seg) \in AnswersOf(file)
      BY <1>3, <2>2, <3>3 DEF Says
    <3> QED  BY <3>4, AnswersFacts, CarriedSn
  <2> QED  BY <1>1, <2>1, <2>2
<1> QED  BY <1>2, <1>3 DEF Echoes

\* The steps of the receiver and the net.
LEMMA EchoReceiver ==
    ASSUME BaseInv, BaseInv', Apart', Echoes,
           \/ \E due \in SUBSET Sns(rKcp.snd_buf) : ReceiverUpdate(due)
           \/ \E d \in toReceiver : ReceiverInput(d)
           \/ ReceiverRecv \/ Listen \/ RecvFileReturns \/ ReceiverCloses \/ Lose
    PROVE  Echoes'
<1>1. UNCHANGED sendVars
  BY DEF ReceiverUpdate, ReceiverInput, ReceiverRecv, Listen, RecvFileReturns,
         ReceiverCloses, Lose
<1>2. ASSUME toSender' \subseteq toSender PROVE Echoes'
  <2>1. UNCHANGED <<sPc, file, port, sKcp>> /\ (Alive' <=> Alive)
    BY <1>1 DEF sendVars, Alive
  <2> QED  BY <1>2, <2>1 DEF Echoes
<1>3. CASE \E due \in SUBSET Sns(rKcp.snd_buf) : ReceiverUpdate(due)
  <2>1. PICK due : ReceiverUpdate(due)
    BY <1>3
  <2>2. PICK k \in EndType : ReceiverSaid(k, Opened, AnswerCount) /\ Opened' = Opened
    BY <2>1, ReceiverUpdateFacts
  <2>3. Bound'
    BY <2>1 DEF ReceiverUpdate, Bound
  <2>4. ReceiverSaid(k, Opened', AnswerCount)
    BY <2>2
  <2> QED  BY <1>1, <2>3, <2>4, EchoReceiverSays
<1>4. CASE \E d \in toReceiver : ReceiverInput(d)
  <2>1. PICK d \in toReceiver : ReceiverInput(d)
    BY <1>4
  <2>2. CASE ~Bound
    BY <1>2, <2>1, <2>2 DEF ReceiverInput, Bound
  <2>3. CASE Bound
    <3>1. PICK k \in EndType : ReceiverSaid(k, Opened', AnswerCount)
      BY <2>1, <2>3, ReceiverInputFacts
    <3>2. Bound'
      BY <2>1, <2>3 DEF ReceiverInput, Bound
    <3> QED  BY <1>1, <3>1, <3>2, EchoReceiverSays
  <2> QED  BY <2>2, <2>3
<1>5. CASE ReceiverRecv
  <2>1. CASE Head(rKcp.rcv_queue).type = "handshake"
    <3>1. PICK k \in EndType : ReceiverSaid(k, Opened, 1)
      BY <1>5, <2>1, ReceiverHandshakeFacts
    <3>2. Opened' = Opened
      BY <1>5, <2>1, ReceiverHandshakeFacts
    <3>3. Bound' /\ ReceiverSaid(k, Opened', 1)
      BY <1>5, <3>1, <3>2 DEF ReceiverRecv, Bound
    <3> QED  BY <1>1, <3>3, EchoReceiverSays
  <2>2. CASE Head(rKcp.rcv_queue).type # "handshake"
    BY <1>2, <1>5, <2>2, ReceiverChunkFacts
  <2> QED  BY <2>1, <2>2
<1>6. CASE Listen \/ RecvFileReturns \/ ReceiverCloses \/ Lose
  <2>1. toSender' \subseteq toSender
    BY <1>6 DEF Listen, RecvFileReturns, ReceiverCloses, Lose, netVars
  <2> QED  BY <1>2, <2>1
<1> QED  BY <1>3, <1>4, <1>5, <1>6

\* Every step preserves EchoInv.
LEMMA EchoNext ==
    ASSUME BaseInv, BaseInv', PauseInv', EchoInv, [Next]_vars
    PROVE  EchoInv'
<1>1. scenario' = scenario
  BY ScenarioStays
<1>2. SUFFICES ASSUME scenario.pauseSuffices PROVE Echoes'
  BY <1>1 DEF EchoInv
<1>3. Echoes /\ Apart'
  BY <1>1, <1>2 DEF EchoInv, PauseInv
<1>4. CASE UNCHANGED vars
  BY <1>3, <1>4 DEF vars, sendVars, netVars, Echoes, Alive
<1>5. CASE Next
  BY <1>3, <1>5, EchoStartFile, EchoSender, EchoReceiver DEF Next, SenderThread, ReceiverThread
<1> QED  BY <1>4, <1>5

\* AnswerIsForMe: the answer a sender acts on is the answer to its own handshake,
\* if the pauses suffice (the Session that answers faces it), and for every
\* window that holds a file (the receiver answers one address, and hears of a
\* waiting sender by its handshake only).
THEOREM AnswersReachTheirSender == Spec => []AnswerIsForMe
<1>1. Init => WideInv
  BY DEF Init, WideInv, RoomInv, AnswerInv, Waiting, Alive, Bound
<1>2. Init => PauseInv /\ EchoInv
  BY PauseInit DEF Init, EchoInv, Echoes, Alive
<1>3. BaseInv /\ WideInv /\ [Next]_vars => WideInv'
  BY WideNext
<1>4. BaseInv /\ BaseInv' /\ PauseInv /\ [Next]_vars => PauseInv'
  BY PauseNext
<1>5. BaseInv /\ BaseInv' /\ PauseInv' /\ EchoInv /\ [Next]_vars => EchoInv'
  BY EchoNext
<1>6. BaseInv /\ WideInv /\ EchoInv => AnswerIsForMe
  <2> SUFFICES ASSUME BaseInv, WideInv, EchoInv,
                      scenario.pauseSuffices \/ rcv_wnd > NumChunks + 1,
                      sPc = "waitAck", sKcp.rcv_queue # <<>>
               PROVE  Head(sKcp.rcv_queue).file = file
    BY DEF AnswerIsForMe
  <2>1. RcvOK(sKcp, AnswersOf(file), 0)
    BY DEF WideInv, AnswerInv, EchoInv, Echoes, Alive
  <2>2. sKcp \in EndType /\ AnswersOf(file) \in SUBSET Stored
    BY AnswersFacts DEF BaseInv, TypeInv
  <2>3. [sn |-> 0, data |-> Head(sKcp.rcv_queue)] \in AnswersOf(file)
    BY <2>1, <2>2, RecvOK
  <2>4. PICK s \in AnswersOf(file) : s = [sn |-> 0, data |-> Head(sKcp.rcv_queue)]
    BY <2>3
  <2> QED  BY <2>4, AnswersFacts
<1> QED  BY <1>1, <1>2, <1>3, <1>4, <1>5, <1>6, ConnectionBase, PTL DEF Spec

------------------------------------------------------------------------------
(* OrderInv *)

\* A step that leaves the Sessions at their files.
LEMMA OrderStays ==
    ASSUME InOrder, UNCHANGED <<sPc, file, port, drops, received, rPc, remote>>,
           Heard => Opened' = Opened,
           \A d \in toReceiver' : d \in toReceiver \/ (Alive /\ d.port = port)
    PROVE  InOrder'
<1>1. (Alive' <=> Alive) /\ (Heard' <=> Heard) /\ Current' = Current
  BY DEF Alive, Heard, Bound, Current
<1> HIDE DEF Alive, Heard, Opened, Current
<1> QED  BY <1>1 DEF InOrder

\* The sender's threads: it starts its next file when the receiver is at the last
\* one, and is answered by the Session of its own.
LEMMA OrderSenderThread ==
    ASSUME BaseInv, Apart, InOrder, Orderly,
           \/ StartFile \/ SenderRecv \/ SendFileReturns \/ SenderCloses \/ SenderDrops
    PROVE  InOrder'
<1>1. /\ TypeInv /\ ApartInv /\ port \in Nat /\ received \in Seq(Nat)
  BY DEF BaseInv, Apart, TypeInv
<1>2. UNCHANGED <<recvVars, netVars>>
  BY DEF StartFile, SenderRecv, SendFileReturns, SenderCloses, SenderDrops
<1>3. /\ UNCHANGED <<rPc, remote, claimed, rKcp, received, toReceiver>>
      /\ (Heard' <=> Heard) /\ Opened' = Opened /\ Current' = Current
  BY <1>2 DEF recvVars, netVars, Heard, Bound, Opened, Current
<1>4. Current \in Nat /\ Len(received) \in Nat
  BY <1>1 DEF Current
<1> HIDE DEF Heard, Opened, Current
<1>5. CASE StartFile
  <2>1. /\ sPc = "idle" /\ sPc' = "waitAck" /\ port' = port + 1 /\ UNCHANGED <<file, drops>>
    BY <1>5 DEF StartFile, envVars
  <2>2. file' = port' /\ Alive' /\ ~Alive
    BY <2>1 DEF Alive, InOrder
  <2>3. toReceiver' = {}
    BY <1>3, <2>2 DEF InOrder
  <2>4. Heard => port' = Current + 1
    BY <2>1 DEF InOrder
  <2>5. ~Heard => port' = Len(received) + 1
    BY <2>1 DEF InOrder
  <2> QED  BY <1>3, <2>1, <2>2, <2>3, <2>4, <2>5 DEF InOrder
<1>6. CASE SenderRecv
  <2>1. /\ sPc = "waitAck" /\ sPc' = "sending"
    BY <1>6, SenderRecvFacts
  <2>2. /\ sKcp.rcv_queue # <<>> /\ UNCHANGED <<file, port, drops>>
    BY <1>6 DEF SenderRecv, envVars
  <2>3. Alive /\ Alive'
    BY <2>1 DEF Alive
  <2>4. Facing
    BY <1>1, <2>1, <2>2, <2>3 DEF ApartInv
  <2>5. Heard /\ port = Current
    BY <2>4 DEF Facing, InOrder
  <2> QED  BY <1>3, <1>4, <2>1, <2>2, <2>3, <2>5 DEF InOrder
<1>7. CASE SendFileReturns
  <2>1. /\ sPc = "sending" /\ sPc' = "returned" /\ UNCHANGED <<file, port, drops>>
    BY <1>7 DEF SendFileReturns, envVars
  <2>2. Alive /\ Alive'
    BY <2>1 DEF Alive
  <2> QED  BY <1>3, <1>4, <2>1, <2>2 DEF InOrder
<1>8. CASE SenderCloses
  <2>1. /\ sPc = "returned" /\ sPc' = "idle" /\ file' = file + 1 /\ Quiet(port)
        /\ UNCHANGED <<port, drops>>
    BY <1>8 DEF SenderCloses, envVars, Orderly
  <2>2. Alive /\ ~Alive'
    BY <2>1 DEF Alive
  <2>3. toReceiver' = {}
    BY <1>3, <2>1 DEF InOrder, Quiet
  <2> QED  BY <1>3, <1>4, <2>1, <2>2, <2>3 DEF InOrder
<1>9. CASE SenderDrops
  <2>1. drops < scenario.maxDrops /\ scenario.maxDrops = 0 /\ drops = 0
    BY <1>9 DEF SenderDrops, Orderly, InOrder
  <2> QED  BY <2>1
<1> QED  BY <1>5, <1>6, <1>7, <1>8, <1>9

\* The sender's critical sections.
LEMMA OrderSenderSections ==
    ASSUME InOrder,
           \/ SendChunk
           \/ \E due \in SUBSET Sns(sKcp.snd_buf) : SenderUpdate(due)
           \/ \E d \in toSender : SenderInput(d)
    PROVE  InOrder'
<1>1. UNCHANGED <<sPc, file, port, recvVars, drops>>
  BY DEF SendChunk, SenderUpdate, SenderInput, envVars
<1>2. UNCHANGED <<received, rPc, remote>> /\ Opened' = Opened
  BY <1>1 DEF recvVars, Opened
<1>3. \/ toReceiver' = toReceiver
      \/ Alive /\ \E k, due : SenderFlush(k, due)
  BY DEF SendChunk, SenderUpdate, SenderInput, Alive
<1>4. ASSUME NEW d \in toReceiver', d \notin toReceiver
      PROVE  Alive /\ d.port = port
  <2>1. toReceiver' # toReceiver
    BY <1>4
  <2>2. PICK k, due : SenderFlush(k, due)
    BY <1>3, <2>1
  <2>3. PICK m \in FlushOut(k, due, TRUE) : d = [port |-> port', seg |-> m]
    BY <1>4, <2>2 DEF SenderFlush, Addressed
  <2>4. d.port = port'
    BY <2>3
  <2> QED  BY <1>1, <1>3, <2>1, <2>4
<1> QED  BY <1>1, <1>2, <1>4, OrderStays

\* A Session that heard nothing hears the handshake of the file that is next.
LEMMA OrderReceiverInput ==
    ASSUME BaseInv, Apart, InOrder, NEW d \in toReceiver, ReceiverInput(d)
    PROVE  InOrder'
<1>1. /\ ReceiverBase /\ NetBase /\ ApartInv /\ HearingInv
      /\ port \in Nat /\ received \in Seq(Nat) /\ Len(received) \in Nat
  BY DEF BaseInv, TypeInv, Apart
<1>2. /\ UNCHANGED <<sPc, file, port, rPc, claimed, received, drops>>
      /\ toReceiver' \subseteq toReceiver
  BY DEF ReceiverInput, sendVars, envVars
<1>3. Alive /\ d.port = port
  BY DEF InOrder
<1>4. CASE ~Bound
  <2>1. UNCHANGED <<remote, rKcp>>
    BY <1>4 DEF ReceiverInput, Bound
  <2>2. Opened' = Opened
    BY <1>2, <2>1 DEF Opened
  <2> QED  BY <1>2, <2>1, <2>2, OrderStays
<1>5. CASE Bound
  <2>1. /\ Opened # NoFile => Opened' = Opened
        /\ Opened = NoFile /\ d.seg.cmd = "push" /\ d.seg.sn = 0
              => Opened' = d.seg.data.file
        /\ remote' = IF remote = NoPort THEN d.port ELSE remote
        /\ remote' \in 1 .. port
    BY <1>5, ReceiverInputFacts
  <2>2. CASE remote # NoPort
    <3>1. Heard /\ remote' = remote
      BY <1>5, <2>1, <2>2 DEF Heard
    <3>2. Opened' = Opened
      BY <1>1, <2>1, <3>1 DEF HearingInv
    <3> QED  BY <1>2, <3>1, <3>2, OrderStays
  <2>3. CASE remote = NoPort
    <3>1. /\ ~Heard /\ ~Facing /\ Opened = NoFile /\ rPc = "listening"
      BY <1>1, <1>5, <2>3 DEF ReceiverBase, Heard, Facing, Opened, OpenedOf
    <3>2. d.seg.cmd = "push" /\ d.seg.sn = 0
      BY <1>1, <3>1 DEF HearingInv
    <3>3. remote' = port /\ Opened' = file
      BY <1>1, <1>3, <2>1, <2>3, <3>1, <3>2 DEF NetBase
    <3>4. sPc = "waitAck"
      BY <1>1, <1>3, <3>1 DEF ApartInv
    <3>5. Current' = Len(received) + 1
      BY <1>2, <3>1 DEF Current
    <3>6. Heard' /\ (Alive' <=> Alive)
      BY <1>1, <1>2, <1>5, <2>1, <3>3 DEF Heard, Bound, Alive, NoPort
    <3>7. port = Len(received) + 1 /\ file = port
      BY <1>3, <3>1, <3>4 DEF InOrder
    <3> HIDE DEF Heard, Opened, Current, Alive
    <3> QED  BY <1>1, <1>2, <1>3, <3>3, <3>5, <3>6, <3>7 DEF InOrder
  <2> QED  BY <2>2, <2>3
<1> QED  BY <1>4, <1>5

\* The other steps of the receiver and the net: a file is logged when it is the
\* next one, and a Session ends when its sender is done.
LEMMA OrderReceiver ==
    ASSUME BaseInv, Apart, InOrder,
           \/ \E due \in SUBSET Sns(rKcp.snd_buf) : ReceiverUpdate(due)
           \/ ReceiverRecv \/ Listen \/ RecvFileReturns \/ ReceiverCloses \/ Lose
    PROVE  InOrder'
<1>1. /\ ReceiverBase /\ TypeInv /\ port \in Nat /\ received \in Seq(Nat)
      /\ Len(received) \in Nat /\ claimed \in Nat
  BY DEF BaseInv, TypeInv
<1>2. UNCHANGED <<sPc, file, port, drops>> /\ toReceiver' \subseteq toReceiver
  BY DEF ReceiverUpdate, ReceiverRecv, Listen, RecvFileReturns, ReceiverCloses, Lose,
         sendVars, netVars, envVars
<1>3. Alive' <=> Alive
  BY <1>2 DEF Alive
<1>4. CASE \/ \E due \in SUBSET Sns(rKcp.snd_buf) : ReceiverUpdate(due)
           \/ ReceiverRecv \/ Lose
  <2>1. UNCHANGED <<received, rPc, remote>>
    BY <1>4 DEF ReceiverUpdate, ReceiverRecv, Lose, recvVars
  <2>2. Opened' = Opened
    BY <1>4, ReceiverUpdateFacts, ReceiverHandshakeFacts, ReceiverChunkFacts
       DEF Lose, recvVars, Opened
  <2> QED  BY <1>2, <2>1, <2>2, OrderStays
<1>5. CASE Listen
  <2>1. ~Heard /\ ~Heard' /\ received' = received
    BY <1>5 DEF Listen, Heard, Bound
  <2> HIDE DEF Heard, Alive
  <2> QED  BY <1>2, <1>3, <2>1 DEF InOrder
<1>6. CASE RecvFileReturns
  <2>1. /\ rPc = "listening" /\ rPc' = "returned" /\ claimed # NoFile
        /\ received' = Append(received, claimed) /\ UNCHANGED <<remote, claimed, rKcp>>
    BY <1>6 DEF RecvFileReturns
  <2>2. Heard /\ Heard' /\ Opened' = Opened /\ Opened = claimed
    BY <1>1, <2>1 DEF Heard, Bound, ReceiverBase, Opened, OpenedOf
  <2>3. Current = Len(received) + 1 /\ Len(received') = Len(received) + 1
        /\ Current' = Current
    BY <1>1, <2>1 DEF Current
  <2>4. claimed = Len(received) + 1
    BY <2>2, <2>3 DEF InOrder
  <2>5. received' = [i \in 1 .. Len(received') |-> i]
    <3> DEFINE n == Len(received)
    <3>1. \A i \in 1 .. n : received[i] = i
      BY DEF InOrder
    <3>2. received' \in Seq(Nat) /\ Len(received') = n + 1
          /\ \A i \in 1 .. n + 1 : received'[i] = IF i <= n THEN received[i] ELSE claimed
      BY <1>1, <2>1, <2>3
    <3>3. ASSUME NEW i \in 1 .. n + 1 PROVE received'[i] = i
      <4>1. CASE i <= n
        <5>1. i \in 1 .. n
          BY <1>1, <4>1
        <5> QED  BY <3>1, <3>2, <4>1, <5>1
      <4>2. CASE ~(i <= n)
        <5>1. i = n + 1
          BY <1>1, <4>2
        <5> QED  BY <2>4, <3>2, <4>2, <5>1
      <4> QED  BY <4>1, <4>2
    <3>4. received' = [i \in 1 .. n + 1 |-> received'[i]]
      BY <3>2
    <3> HIDE DEF n
    <3> QED  BY <3>2, <3>3, <3>4
  <2> HIDE DEF Heard, Opened, Current, Alive
  <2> QED  BY <1>2, <1>3, <2>1, <2>2, <2>3, <2>5 DEF InOrder
<1>7. CASE ReceiverCloses
  <2>1. rPc = "returned" /\ rPc' = "unbound" /\ received' = received
    BY <1>7 DEF ReceiverCloses
  <2>2. Heard /\ ~Heard' /\ (Facing => sPc # "waitAck")
    BY <2>1, ReceiverReturned DEF Heard, Bound
  <2>3. Current = Len(received)
    BY <2>1 DEF Current
  <2>4. port = Len(received) => sPc # "waitAck"
    BY <2>2, <2>3 DEF InOrder, Facing, Alive
  <2> HIDE DEF Heard, Opened, Current, Alive
  <2> QED  BY <1>1, <1>2, <1>3, <2>1, <2>2, <2>3, <2>4 DEF InOrder
<1> QED  BY <1>4, <1>5, <1>6, <1>7

\* Every step preserves OrderInv.
LEMMA OrderNext ==
    ASSUME BaseInv, PauseInv, OrderInv, [Next]_vars
    PROVE  OrderInv'
<1>1. scenario' = scenario
  BY ScenarioStays
<1>2. SUFFICES ASSUME Orderly PROVE InOrder'
  BY <1>1 DEF OrderInv, Orderly
<1>3. Apart /\ InOrder
  BY <1>2 DEF OrderInv, Orderly, PauseInv
<1>4. CASE \/ StartFile \/ SenderRecv \/ SendFileReturns \/ SenderCloses \/ SenderDrops
  BY <1>2, <1>3, <1>4, OrderSenderThread
<1>5. CASE \/ SendChunk
           \/ \E due \in SUBSET Sns(sKcp.snd_buf) : SenderUpdate(due)
           \/ \E d \in toSender : SenderInput(d)
  BY <1>3, <1>5, OrderSenderSections
<1>6. CASE \E d \in toReceiver : ReceiverInput(d)
  BY <1>3, <1>6, OrderReceiverInput
<1>7. CASE \/ \E due \in SUBSET Sns(rKcp.snd_buf) : ReceiverUpdate(due)
           \/ ReceiverRecv \/ Listen \/ RecvFileReturns \/ ReceiverCloses \/ Lose
  BY <1>3, <1>7, OrderReceiver
<1>8. CASE UNCHANGED vars
  <2>1. UNCHANGED <<sPc, file, port, drops, received, rPc, remote, toReceiver>>
        /\ Opened' = Opened
    BY <1>8 DEF vars, sendVars, recvVars, netVars, envVars, Opened
  <2> QED  BY <1>3, <2>1, OrderStays
<1> QED  BY <1>4, <1>5, <1>6, <1>7, <1>8 DEF Next, SenderThread, ReceiverThread

\* ReceivedInOrder: with pauses that suffice and a sender that does not die, the
\* receiver logs the files in the order of the queue, each once.
THEOREM QueueReceivedInOrder == Spec => []ReceivedInOrder
<1>1. Init => OrderInv
  <2> SUFFICES ASSUME Init PROVE InOrder
    BY DEF OrderInv
  <2>1. /\ ~Alive /\ ~Heard /\ toReceiver = {} /\ drops = 0 /\ received = <<>>
        /\ file = 1 /\ port = 0 /\ sPc # "waitAck"
    BY DEF Init, Alive, Heard, Bound, NoPort
  <2>2. received = [i \in 1 .. Len(received) |-> i] /\ Len(received) = 0
    BY <2>1
  <2> QED  BY <2>1, <2>2 DEF InOrder
<1>2. Init => PauseInv
  BY PauseInit
<1>3. BaseInv /\ BaseInv' /\ PauseInv /\ [Next]_vars => PauseInv'
  BY PauseNext
<1>4. BaseInv /\ PauseInv /\ OrderInv /\ [Next]_vars => OrderInv'
  BY OrderNext
<1>5. OrderInv => ReceivedInOrder
  BY DEF OrderInv, Orderly, InOrder, ReceivedInOrder
<1>6. Spec => []BaseInv
  BY ConnectionBase
<1> QED  BY <1>1, <1>2, <1>3, <1>4, <1>5, <1>6, PTL DEF Spec
=============================================================================
