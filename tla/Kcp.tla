--------------------------------- MODULE Kcp ---------------------------------
(***************************************************************************)
(* One endpoint of the KCP protocol (kcp-2.1.1/ikcp.c) as KCPTransport     *)
(* configures it: stream mode, so every segment stands alone (frg = 0) and *)
(* a message of the model is the bytes of one segment, nocwnd = 1 and no   *)
(* congestion module, so the send window is bounded by snd_wnd and the     *)
(* window the peer announced.                                              *)
(*                                                                         *)
(* An endpoint is a record with the fields of ikcpcb.  The operations are  *)
(* functions from endpoint to endpoint.  Clocks are left out: which        *)
(* segments are due again (retransmission timeout or fast retransmission)  *)
(* and whether the probe timer has run out are arguments of ikcp_flush.    *)
(* The sorted lists snd_buf and rcv_buf are sets of segments: sn orders    *)
(* them.  Sequence numbers do not wrap (2^32 segments of 16 KB).           *)
(***************************************************************************)
EXTENDS Integers, Sequences, FiniteSets, FiniteSetsExt

CONSTANTS
    snd_wnd,        \* ikcp_wndsize
    rcv_wnd,
    IKCP_WND_RCV    \* what an endpoint assumes before it hears from its peer

ASSUME KcpAssumption ==
    /\ snd_wnd \in Nat \ {0}
    /\ rcv_wnd \in Nat \ {0}
    /\ IKCP_WND_RCV \in 1 .. rcv_wnd

ikcp_create ==
    [snd_queue |-> <<>>, snd_buf |-> {}, snd_una |-> 0, snd_nxt |-> 0,
     rmt_wnd |-> IKCP_WND_RCV, rcv_queue |-> <<>>, rcv_buf |-> {},
     rcv_nxt |-> 0, acklist |-> {}, probe |-> {}, probing |-> FALSE,
     updated |-> FALSE]

Sns(buf) == {s.sn : s \in buf}

------------------------------------------------------------------------------
(* Sending *)

ikcp_send(k, data) == [k EXCEPT !.snd_queue = Append(@, data)]

ikcp_waitsnd(k) == Cardinality(k.snd_buf) + Len(k.snd_queue)

------------------------------------------------------------------------------
(* Receiving *)

\* MUTANT: the bound of rcv_queue is not looked at.
AvailableUnbounded(k) ==
    Max({n \in 0 .. Cardinality(k.rcv_buf) :
            k.rcv_nxt .. k.rcv_nxt + n - 1 \subseteq Sns(k.rcv_buf)})

\* How many segments at the front of rcv_buf are next in line and fit.
Available(k) ==
    Max({n \in 0 .. rcv_wnd - Len(k.rcv_queue) :
            k.rcv_nxt .. k.rcv_nxt + n - 1 \subseteq Sns(k.rcv_buf)})

\* MUTANT: rcv_nxt advances once however many segments are moved.
MoveAvailableOnce(k) ==
    LET n == Available(k)
        DataOf(sn) == (CHOOSE s \in k.rcv_buf : s.sn = sn).data
    IN  [k EXCEPT
           !.rcv_queue = @ \o [i \in 1 .. n |-> DataOf(k.rcv_nxt + i - 1)],
           !.rcv_buf = {s \in @ : s.sn >= k.rcv_nxt + n},
           !.rcv_nxt = @ + (IF n = 0 THEN 0 ELSE 1)]

\* Move available data from rcv_buf to rcv_queue.
MoveAvailable(k) ==
    LET n == Available(k)
        DataOf(sn) == (CHOOSE s \in k.rcv_buf : s.sn = sn).data
    IN  [k EXCEPT
           !.rcv_queue = @ \o [i \in 1 .. n |-> DataOf(k.rcv_nxt + i - 1)],
           !.rcv_buf = {s \in @ : s.sn >= k.rcv_nxt + n},
           !.rcv_nxt = @ + n]

\* The caller gets Head(k.rcv_queue).  A queue that was full and no longer is
\* has its window announced by the next flush.
ikcp_recv(k) ==
    LET full  == Len(k.rcv_queue) >= rcv_wnd
        moved == MoveAvailable([k EXCEPT !.rcv_queue = Tail(@)])
    IN  IF full /\ Len(moved.rcv_queue) < rcv_wnd
        THEN [moved EXCEPT !.probe = @ \cup {"tell"}]
        ELSE moved

------------------------------------------------------------------------------
(* Input of one segment m *)

ikcp_shrink_buf(k) ==
    [k EXCEPT !.snd_una = IF k.snd_buf = {} THEN k.snd_nxt
                                            ELSE Min(Sns(k.snd_buf))]

\* MUTANT: una is taken to acknowledge the segment it names too.
ParseUnaInclusive(k, una) ==
    [k EXCEPT !.snd_buf = {s \in @ : s.sn > una}]

ikcp_parse_una(k, una) == [k EXCEPT !.snd_buf = {s \in @ : s.sn >= una}]

ikcp_parse_ack(k, sn) ==
    IF sn < k.snd_una \/ sn >= k.snd_nxt THEN k
    ELSE [k EXCEPT !.snd_buf = {s \in @ : s.sn # sn}]

ikcp_ack_push(k, sn) == [k EXCEPT !.acklist = @ \cup {sn}]

\* Within the window and new, it joins rcv_buf.
ikcp_parse_data(k, m) ==
    IF m.sn >= k.rcv_nxt + rcv_wnd \/ m.sn < k.rcv_nxt THEN k
    ELSE IF m.sn \in Sns(k.rcv_buf) THEN MoveAvailable(k)
    ELSE MoveAvailable(
            [k EXCEPT !.rcv_buf = @ \cup {[sn |-> m.sn, data |-> m.data]}])

\* A segment beyond the window is neither acknowledged nor kept; an old one is
\* acknowledged again.
InputPush(k, m) ==
    IF m.sn >= k.rcv_nxt + rcv_wnd THEN k
    ELSE IF m.sn < k.rcv_nxt THEN ikcp_ack_push(k, m.sn)
    ELSE ikcp_parse_data(ikcp_ack_push(k, m.sn), m)

ikcp_input(k, m) ==
    LET heard == ikcp_shrink_buf(
                    ikcp_parse_una([k EXCEPT !.rmt_wnd = m.wnd], m.una))
    IN  CASE m.cmd = "ack"  -> ikcp_shrink_buf(ikcp_parse_ack(heard, m.sn))
          [] m.cmd = "push" -> InputPush(heard, m)
          [] m.cmd = "wask" -> [heard EXCEPT !.probe = @ \cup {"tell"}]
          [] m.cmd = "wins" -> heard

------------------------------------------------------------------------------
(* Flush *)

ikcp_wnd_unused(k) ==
    IF Len(k.rcv_queue) < rcv_wnd THEN rcv_wnd - Len(k.rcv_queue) ELSE 0

Segment(k, cmd) ==
    [cmd |-> cmd, sn |-> 0, una |-> k.rcv_nxt, wnd |-> ikcp_wnd_unused(k)]

Push(k, s) ==
    [cmd |-> "push", sn |-> s.sn, una |-> k.rcv_nxt,
     wnd |-> ikcp_wnd_unused(k), data |-> s.data]

\* Segments that leave snd_queue: snd_nxt may not pass snd_una + cwnd.
Room(k) ==
    LET cwnd == Min({snd_wnd, k.rmt_wnd})
        room == k.snd_una + cwnd - k.snd_nxt
    IN  Min({Len(k.snd_queue), IF room > 0 THEN room ELSE 0})

Fresh(k) ==
    {[sn |-> k.snd_nxt + i - 1, data |-> k.snd_queue[i]] : i \in 1 .. Room(k)}

\* MUTANT: a peer that announced no room is never asked again.
AsksNever(k, elapsed) == FALSE

\* A window of zero arms the probe timer; when it runs out, the peer is asked.
Asks(k, elapsed) == k.rmt_wnd = 0 /\ k.probing /\ elapsed

\* MUTANT: a segment is sent only once.
FlushOutOnce(k, due, elapsed) ==
    IF ~k.updated THEN {} ELSE
         {[Segment(k, "ack") EXCEPT !.sn = sn] : sn \in k.acklist}
    \cup (IF Asks(k, elapsed) THEN {Segment(k, "wask")} ELSE {})
    \cup (IF "tell" \in k.probe THEN {Segment(k, "wins")} ELSE {})
    \cup {Push(k, s) : s \in Fresh(k)}

\* What a flush sends.  A new segment is always due.
FlushOut(k, due, elapsed) ==
    IF ~k.updated THEN {} ELSE
         {[Segment(k, "ack") EXCEPT !.sn = sn] : sn \in k.acklist}
    \cup (IF Asks(k, elapsed) THEN {Segment(k, "wask")} ELSE {})
    \cup (IF "tell" \in k.probe THEN {Segment(k, "wins")} ELSE {})
    \cup {Push(k, s) : s \in {t \in k.snd_buf : t.sn \in due} \cup Fresh(k)}

ikcp_flush(k) ==
    IF ~k.updated THEN k ELSE
    [k EXCEPT
       !.acklist = {},
       !.probe = {},
       !.probing = k.rmt_wnd = 0,
       !.snd_queue = SubSeq(@, Room(k) + 1, Len(@)),
       !.snd_buf = @ \cup Fresh(k),
       !.snd_nxt = @ + Room(k)]

\* The first call starts the protocol; the flush that follows is ikcp_flush.
ikcp_update(k) == [k EXCEPT !.updated = TRUE]
==============================================================================
