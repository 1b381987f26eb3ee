------------------------------- MODULE KcpLink -------------------------------
(***************************************************************************)
(* One stream between two KCPTransports: a KCP endpoint on each side, UDP  *)
(* between them, which loses, repeats and reorders datagrams, and the      *)
(* threads that drive each endpoint under its kcpMutexes_ entry            *)
(* (src/net/transport.cpp).                                                *)
(*                                                                         *)
(* Each critical section of sendChunk and net_loop is one step.  A KCP     *)
(* segment travels in a datagram of its own: KCP packs several into one,   *)
(* which only makes their fates more alike.  The io thread of an endpoint  *)
(* may take its sections in any order.                                     *)
(***************************************************************************)
EXTENDS Kcp

CONSTANTS
    MaxSend,    \* messages each endpoint sends, a function of the endpoint
    MaxLoss,    \* bound on the datagrams lost
    MaxRepeat,  \* bound on the datagrams delivered once more
    MaxFlight   \* bound on the datagrams on their way to one endpoint

Ends == {"a", "b"}
Peer(e) == IF e = "a" THEN "b" ELSE "a"

ASSUME LinkAssumption ==
    /\ MaxSend \in [Ends -> Nat]
    /\ MaxLoss \in Nat
    /\ MaxRepeat \in Nat
    /\ MaxFlight \in Nat

VARIABLES
    kcp,        \* the endpoints
    net,        \* datagrams on their way to each endpoint
    sent,       \* messages each endpoint has sent; message n is the number n
    read,       \* messages each endpoint has read from its peer, in order
    lost,
    repeated

vars == <<kcp, net, sent, read, lost, repeated>>

\* The end of every critical section: k is flushed, what it sends is on its
\* way to the peer, and rest are the datagrams still on their way to e.
FlushDue(e, k, rest, due, elapsed) ==
    /\ kcp' = [kcp EXCEPT ![e] = ikcp_flush(k)]
    /\ net' = [net EXCEPT ![e] = rest,
                          ![Peer(e)] = @ \cup FlushOut(k, due, elapsed)]
    /\ Cardinality(net'[Peer(e)]) <= MaxFlight

\* Any of the timers may have run out.
Flush(e, k, rest) ==
    \E due \in SUBSET Sns(k.snd_buf), elapsed \in BOOLEAN :
       FlushDue(e, k, rest, due, elapsed)

\* sendChunk
SendChunk(e) ==
    /\ sent[e] < MaxSend[e]
    /\ sent' = [sent EXCEPT ![e] = @ + 1]
    /\ \E k \in {ikcp_send(kcp[e], sent[e] + 1)} : Flush(e, k, net[e])
    /\ UNCHANGED <<read, lost, repeated>>

\* net_loop: a datagram is fed to the endpoint, which answers at once.
Input(e, m) ==
    /\ m \in net[e]
    /\ \E k \in {ikcp_input(kcp[e], m)} : Flush(e, k, net[e] \ {m})
    /\ UNCHANGED <<sent, read, lost, repeated>>

\* The same, and the network delivers the datagram again later.
InputAndRepeat(e, m) ==
    /\ m \in net[e]
    /\ repeated < MaxRepeat
    /\ repeated' = repeated + 1
    /\ \E k \in {ikcp_input(kcp[e], m)} : Flush(e, k, net[e])
    /\ UNCHANGED <<sent, read, lost>>

\* net_loop: the clock moves on.
Update(e) ==
    /\ \E k \in {ikcp_update(kcp[e])} : Flush(e, k, net[e])
    /\ UNCHANGED <<sent, read, lost, repeated>>

\* net_loop: what is in order is handed up.
Recv(e) ==
    /\ kcp[e].rcv_queue # <<>>
    /\ read' = [read EXCEPT ![e] = Append(@, Head(kcp[e].rcv_queue))]
    /\ kcp' = [kcp EXCEPT ![e] = ikcp_recv(@)]
    /\ UNCHANGED <<net, sent, lost, repeated>>

\* The network drops a datagram.
Lose(e, m) ==
    /\ m \in net[e]
    /\ lost < MaxLoss
    /\ lost' = lost + 1
    /\ net' = [net EXCEPT ![e] = @ \ {m}]
    /\ UNCHANGED <<kcp, sent, read, repeated>>

Init ==
    /\ kcp = [e \in Ends |-> ikcp_create]
    /\ net = [e \in Ends |-> {}]
    /\ sent = [e \in Ends |-> 0]
    /\ read = [e \in Ends |-> <<>>]
    /\ lost = 0 /\ repeated = 0

Next ==
    \E e \in Ends :
       \/ SendChunk(e) \/ Update(e) \/ Recv(e)
       \/ \E m \in net[e] : Input(e, m) \/ InputAndRepeat(e, m) \/ Lose(e, m)

Spec == Init /\ [][Next]_vars

\* The datagrams that may be on their way to e.
Datagrams(e) ==
    LET Una == 0 .. MaxSend[e]
        Wnd == 0 .. rcv_wnd
        Sn  == 0 .. MaxSend[Peer(e)] - 1
    IN  [cmd : {"ack"}, sn : 0 .. MaxSend[e] - 1, una : Una, wnd : Wnd]
        \cup [cmd : {"wask", "wins"}, sn : {0}, una : Una, wnd : Wnd]
        \cup UNION {[cmd : {"push"}, sn : {n}, una : Una, wnd : Wnd,
                     data : {n + 1}] : n \in Sn}

\* All timers run out.
Timeout(e) ==
    /\ \E k \in {ikcp_update(kcp[e])} :
          FlushDue(e, k, net[e], Sns(k.snd_buf), TRUE)
    /\ UNCHANGED <<sent, read, lost, repeated>>

\* The io thread keeps running and its timers run out, the user keeps sending,
\* and a datagram that is not lost arrives.
Fairness ==
    \A e \in Ends :
       /\ WF_vars(SendChunk(e)) /\ WF_vars(Recv(e)) /\ WF_vars(Timeout(e))
       /\ \A m \in Datagrams(e) : WF_vars(Input(e, m))

FairSpec == Spec /\ Fairness
==============================================================================
