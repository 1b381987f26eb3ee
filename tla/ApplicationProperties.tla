----------------------- MODULE ApplicationProperties -----------------------
(***************************************************************************)
(* What the users of the two processes rely on, from the button to the     *)
(* socket.                                                                 *)
(***************************************************************************)
EXTENDS Application

Quiet(d) ==
    /\ ~disc[d].broadcastSocket_ /\ ~disc[d].listenSocket_
    /\ disc[d].broadcast \in {"none", "exited"}
    /\ disc[d].listen \in {"none", "exited"}

\* When the destructor of a Discovery object has returned, neither of its
\* threads runs and both its sockets are closed, whether or not start could
\* bind: the threads use the object, and the port is wanted again.
GoneMeansQuiet ==
    \A d \in Objects : disc[d].op \in {"none", "gone"} => Quiet(d)

\* While the button can be pressed nothing of an earlier transfer is left: no
\* worker, no open socket, no thread, no WSAStartup without its WSACleanup.
\* The flag is cleared by an event the worker posts, so a second worker never
\* meets the first one's objects.
InactiveMeansReleased ==
    \A p \in Processes : ~is_active[p] =>
        /\ worker[p] = "none"
        /\ sessions[p] = 0 /\ winsock[p] = 0
        /\ \A d \in Objects : Owner(d) = p => disc[d].op \in {"none", "gone"}

\* No socket is open in a process whose last WSACleanup has been called, which
\* would close it: Discovery objects, STUN queries and Sessions come and go
\* in one process, and each calls WSAStartup and WSACleanup for itself.
WinsockOutlivesSockets ==
    \A p \in Processes :
        \/ winsock[p] > 0
        \/ /\ sessions[p] = 0
           /\ \A d \in Objects : Owner(d) = p =>
                 ~disc[d].broadcastSocket_ /\ ~disc[d].listenSocket_

\* When a sender that waits for a receiver has read the announcement of another
\* user's receiver on another computer, it has found one.
AnnouncedReceiverFound ==
    [][/\ worker["sender"] = "waiting"
       /\ disc["search"].listen = "got"
       /\ disc["search"].msg.from \in Addresses \ {host["sender"]}
       /\ disc["search"].msg.name # broadcastName["sender"]
       /\ disc'["search"].listen # "got"
       => found' # None]_vars

\* A search ends, whatever the network does: the listener that is blocked in
\* recvfrom is woken by the closing of its socket, and the destructor joins it.
SearchEnds == worker["sender"] = "waiting" ~> worker["sender"] = "queue"

\* After a Session threw, the worker unwinds and the user gets the button back.
ButtonComesBack ==
    \A p \in Processes : worker[p] \in {"catch", "unwind"} ~> ~is_active[p]

=============================================================================
