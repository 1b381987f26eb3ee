----------------------------- MODULE Discovery -----------------------------
(***************************************************************************)
(* The objects of src/net/discovery.cpp: each announces its device on the  *)
(* local network from one thread and listens to the others' announcements  *)
(* in a second one, while its owner starts, stops and destroys it.         *)
(*                                                                         *)
(* A datagram is lost, or waits in the listening socket; its text is the   *)
(* prefix of the announcement and the name of the device.                  *)
(***************************************************************************)
EXTENDS Integers, FiniteSets

CONSTANTS
    Addresses,  \* IP addresses of hosts
    Names,      \* device names
    Hosts,      \* the addresses the processes may have
    Audience,   \* bound: the objects whose sockets datagrams get to
    Backlog     \* bound on the datagrams a listening socket holds

Loopback == "127.0.0.1"
None     == "none"

\* The objects main.cpp creates: the one a sender searches with, the one a
\* receiver drops at once, and the one it keeps while it listens.
Processes == {"sender", "receiver"}
Objects   == {"search", "brief", "announce"}
Owner(d)  == IF d = "search" THEN "sender" ELSE "receiver"

ASSUME DiscoveryAssumption ==
    /\ Loopback \notin Addresses /\ None \notin Addresses \cup Names
    /\ Hosts \subseteq [Processes -> Addresses]
    /\ Audience \subseteq Objects
    /\ Backlog \in Nat \ {0}

VARIABLES
    disc,       \* the members, the threads and the owner's call of each object
    inbox,      \* datagrams in each listening socket
    host,       \* the address of each process's host
    winsock     \* per process, WSAStartup less WSACleanup

discVars == <<disc, inbox, host, winsock>>

NoMessage == [prefix |-> None, name |-> None, from |-> None]
Datagram  == [prefix : {"Sxaint|", "sxaint|"}, name : Names,
              from : Addresses \cup {Loopback}]

\* An object that does not exist.  op is where its owner is in a member
\* function, broadcast and listen where its threads are, msg what the listener
\* has read.
NoObject ==
    [op |-> "none", dying |-> FALSE, running_ |-> FALSE,
     broadcastSocket_ |-> FALSE, listenSocket_ |-> FALSE,
     broadcast |-> "none", listen |-> "none", msg |-> NoMessage,
     deviceName_ |-> None, active_peers_ |-> {}]

Put(d, obj) == disc' = [disc EXCEPT ![d] = obj]

------------------------------------------------------------------------------
(* Called by the owner of object d *)

\* The constructor and start.  When the listening socket cannot be bound there
\* are no threads, but both sockets are open.
Start(d, name, bound) ==
    /\ disc[d].op \in {"none", "gone"}
    /\ Put(d, [NoObject EXCEPT
                 !.op = "ready", !.running_ = TRUE, !.deviceName_ = name,
                 !.broadcastSocket_ = TRUE, !.listenSocket_ = TRUE,
                 !.broadcast = IF bound THEN "test" ELSE "none",
                 !.listen = IF bound THEN "test" ELSE "none"])
    /\ winsock' = [winsock EXCEPT ![Owner(d)] = @ + 1]
    /\ UNCHANGED <<inbox, host>>

\* MUTANT: an object without threads is taken for one that is not running.
StopUnlessIdle(d, dying) ==
    /\ disc[d].op = "ready"
    /\ Put(d, [disc[d] EXCEPT !.running_ = FALSE, !.dying = dying,
                 !.op = IF disc[d].listen # "none" THEN "closeBroadcast"
                        ELSE IF dying THEN "cleanup" ELSE "ready"])
    /\ UNCHANGED <<inbox, host, winsock>>

\* stop, called by the owner or (dying) by the destructor.
Stop(d, dying) ==
    /\ disc[d].op = "ready"
    /\ Put(d, [disc[d] EXCEPT !.running_ = FALSE, !.dying = dying,
                              !.op = "closeBroadcast"])
    /\ UNCHANGED <<inbox, host, winsock>>

CloseBroadcast(d) ==
    /\ disc[d].op = "closeBroadcast"
    /\ Put(d, [disc[d] EXCEPT !.broadcastSocket_ = FALSE, !.op = "closeListen"])
    /\ UNCHANGED <<inbox, host, winsock>>

CloseListen(d) ==
    /\ disc[d].op = "closeListen"
    /\ Put(d, [disc[d] EXCEPT
                 !.listenSocket_ = FALSE,
                 !.op = IF disc[d].dying THEN "cleanup" ELSE "ready"])
    /\ inbox' = [inbox EXCEPT ![d] = {}]
    /\ UNCHANGED <<host, winsock>>

\* The rest of the destructor: WSACleanup, then the members in the reverse of
\* their order, the map of peers before the two threads are joined.
Cleanup(d) ==
    /\ disc[d].op = "cleanup"
    /\ Put(d, [disc[d] EXCEPT !.active_peers_ = {}, !.op = "join"])
    /\ winsock' = [winsock EXCEPT ![Owner(d)] = @ - 1]
    /\ UNCHANGED <<inbox, host>>

\* MUTANT: the listener is detached, not joined.
JoinDetaches(d) ==
    /\ disc[d].op = "join"
    /\ disc[d].broadcast \in {"none", "exited"}
    /\ Put(d, [disc[d] EXCEPT !.op = "gone"])
    /\ UNCHANGED <<inbox, host, winsock>>

\* listen_thread_, then broadcast_thread_.
Join(d) ==
    /\ disc[d].op = "join"
    /\ disc[d].listen \in {"none", "exited"}
    /\ disc[d].broadcast \in {"none", "exited"}
    /\ Put(d, [disc[d] EXCEPT !.op = "gone"])
    /\ UNCHANGED <<inbox, host, winsock>>

Finish(d) == CloseBroadcast(d) \/ CloseListen(d) \/ Cleanup(d) \/ Join(d)

------------------------------------------------------------------------------
(* broadcast_loop of object d *)

\* The test of running_, at once or after the two seconds.
BroadcastTest(d) ==
    /\ disc[d].broadcast = "test"
    /\ Put(d, [disc[d] EXCEPT
                 !.broadcast = IF disc[d].running_ THEN "send" ELSE "exited"])
    /\ UNCHANGED <<inbox, host, winsock>>

Announcement(d, from) ==
    [prefix |-> "Sxaint|", name |-> disc[d].deviceName_, from |-> from]

\* Both sendto calls: a broadcast to every host and a datagram to this one.
\* Each may reach any of the listeners that have room for it.
BroadcastSend(d) ==
    /\ disc[d].broadcast = "send"
    /\ Put(d, [disc[d] EXCEPT !.broadcast = "test"])
    /\ \E reached \in SUBSET {r \in Audience \X {host[Owner(d)], Loopback} :
                                /\ disc[d].broadcastSocket_
                                /\ disc[r[1]].listenSocket_
                                /\ disc[r[1]].listen # "none"
                                /\ r[2] = Loopback =>
                                      host[Owner(r[1])] = host[Owner(d)]} :
          /\ inbox' = [e \in Objects |->
                         inbox[e] \cup {Announcement(d, r[2]) :
                                          r \in {q \in reached : q[1] = e}}]
          /\ \A e \in Objects : Cardinality(inbox'[e]) <= Backlog
    /\ UNCHANGED <<host, winsock>>

Broadcast(d) == BroadcastTest(d) \/ BroadcastSend(d)

------------------------------------------------------------------------------
(* listen_loop of object d *)

ListenTest(d) ==
    /\ disc[d].listen = "test"
    /\ Put(d, [disc[d] EXCEPT
                 !.listen = IF disc[d].running_ THEN "recv" ELSE "exited"])
    /\ UNCHANGED <<inbox, host, winsock>>

\* MUTANT: recvfrom is called again on an error, without a look at running_.
ListenRecvRetries(d) ==
    /\ disc[d].listen = "recv"
    /\ \E m \in inbox[d] :
          /\ Put(d, [disc[d] EXCEPT !.listen = "got", !.msg = m])
          /\ inbox' = [inbox EXCEPT ![d] = @ \ {m}]
    /\ UNCHANGED <<host, winsock>>

\* recvfrom returns a datagram, or an error once the socket is closed.
ListenRecv(d) ==
    /\ disc[d].listen = "recv"
    /\ \/ \E m \in inbox[d] :
             /\ Put(d, [disc[d] EXCEPT !.listen = "got", !.msg = m])
             /\ inbox' = [inbox EXCEPT ![d] = @ \ {m}]
       \/ /\ ~disc[d].listenSocket_
          /\ Put(d, [disc[d] EXCEPT !.listen = "test"])
          /\ UNCHANGED inbox
    /\ UNCHANGED <<host, winsock>>

\* Only announcements of this spelling are taken for a peer.
IsPeer(m) == m.prefix = "sxaint|"

\* A peer at an address that is not in active_peers_ yet.
IsNewPeer(d) == IsPeer(disc[d].msg) /\ disc[d].msg.from \notin disc[d].active_peers_

\* What the listener does with the datagram it read; the owner's callback is
\* for the peers that are new.
ListenHandle(d) ==
    /\ disc[d].listen = "got"
    /\ Put(d, [disc[d] EXCEPT
                 !.listen = "test", !.msg = NoMessage,
                 !.active_peers_ = @ \cup (IF IsNewPeer(d) THEN {disc[d].msg.from}
                                                           ELSE {})])
    /\ UNCHANGED <<inbox, host, winsock>>

------------------------------------------------------------------------------
DiscoveryInit ==
    /\ disc = [d \in Objects |-> NoObject]
    /\ inbox = [d \in Objects |-> {}]
    /\ host \in Hosts
    /\ winsock = [p \in Processes |-> 0]
=============================================================================
