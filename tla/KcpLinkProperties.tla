-------------------------- MODULE KcpLinkProperties --------------------------
(***************************************************************************)
(* What KCPTransport and Session rely on KCP for.                          *)
(***************************************************************************)
EXTENDS KcpLink

\* Both receive buffers of an endpoint are bounded by its window, whatever a
\* peer that works with an outdated window sends.
WindowBounded ==
    \A e \in Ends :
       /\ Len(kcp[e].rcv_queue) <= rcv_wnd
       /\ Cardinality(kcp[e].rcv_buf) <= rcv_wnd

\* ikcp_parse_ack and ikcp_parse_una delete a segment from snd_buf, the only
\* copy there is, only when the peer holds it or has handed it up already.
\* Lost, repeated and overtaken acknowledgements change nothing in that.
AckedIsHeld ==
    \A e \in Ends : \A sn \in 0 .. kcp[e].snd_nxt - 1 :
       \/ sn \in Sns(kcp[e].snd_buf)
       \/ sn \in Sns(kcp[Peer(e)].rcv_buf)
       \/ sn < kcp[Peer(e)].rcv_nxt

\* The stream from a to b implements ReliableStream: what b hands up are the
\* messages of a, each once, in order.
Stream == INSTANCE ReliableStream WITH
    MaxSend <- MaxSend["a"],
    sent    <- sent["a"],
    read    <- read["b"]

ImplementsStream == Stream!Spec

\* Every message is read in the end: a lost datagram is sent again, and a
\* sender that was told of a full window learns that there is room again, also
\* when that announcement is the datagram that is lost.
AllRead == \A e \in Ends : <>(Len(read[Peer(e)]) = MaxSend[e])

\* Every sender's queues drain: the wait that main.cpp allows 500 ms for.
AllAcked == \A e \in Ends : <>[](ikcp_waitsnd(kcp[e]) = 0)
==============================================================================
