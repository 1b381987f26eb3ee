---------------------------- MODULE Application ----------------------------
(***************************************************************************)
(* main.cpp: the event loop and the worker thread of a sending and of a    *)
(* receiving process, with the Discovery objects and the STUN query that   *)
(* the worker uses to bring the two together.  A Session is only its       *)
(* socket and whether it returns or throws: modules Session and Connection *)
(* have the rest.                                                          *)
(***************************************************************************)
EXTENDS Discovery

CONSTANTS
    Users,      \* the device names the processes may have
    NumFiles,   \* files in the sender's queue
    MaxStarts   \* bound on the transfers a process is asked for

ASSUME ApplicationAssumption ==
    /\ Users \subseteq [Processes -> Names]
    /\ NumFiles \in Nat /\ MaxStarts \in Nat

VARIABLES
    useInternet,    \* the GI mode box, ticked by both users or by none
    broadcastName,  \* per process
    is_active,      \* per process, the UI's flag
    posted,         \* per process, the events that will clear it
    starts,         \* per process, transfers asked for
    worker,         \* per process, where its worker thread is
    sessions,       \* per process, sockets of Sessions and STUN queries
    target_ip,      \* where the sender sends
    found,          \* the value of peer_promise, None before it is set
    left            \* files the sender has still to send

userVars == <<useInternet, broadcastName>>
uiVars   == <<is_active, posted, starts>>
sendVars == <<target_ip, found, left>>
appVars  == <<userVars, uiVars, worker, sessions, sendVars>>
vars     == <<discVars, appVars>>

Goto(p, from, to) == worker[p] = from /\ worker' = [worker EXCEPT ![p] = to]

\* A socket of a Session or of a STUN query, with its WSAStartup.
OpenSocket(p) ==
    /\ sessions' = [sessions EXCEPT ![p] = @ + 1]
    /\ winsock' = [winsock EXCEPT ![p] = @ + 1]

CloseSocket(p) ==
    /\ sessions' = [sessions EXCEPT ![p] = @ - 1]
    /\ winsock' = [winsock EXCEPT ![p] = @ - 1]

------------------------------------------------------------------------------
(* The event loop of process p *)

\* on_start_trans, which the button calls when is_active is not set.  Missing
\* paths, a PIN that is not six characters long and a missing address return
\* with is_active as it was; nothing of that is seen from outside.  A PIN of six
\* characters in which std::stoul finds no number is left out: it throws here,
\* with is_active set and outside every try, and the program is at its end.
StartTrans(p) ==
    /\ ~is_active[p]
    /\ starts[p] < MaxStarts
    /\ starts' = [starts EXCEPT ![p] = @ + 1]
    /\ is_active' = [is_active EXCEPT ![p] = TRUE]
    /\ Goto(p, "none", "begin")
    /\ IF p = "sender"
       THEN /\ target_ip' \in (IF useInternet THEN Addresses ELSE {None})
            /\ found' = None /\ left' = NumFiles
       ELSE UNCHANGED sendVars
    /\ UNCHANGED <<discVars, userVars, posted, sessions>>

\* The closure a worker posted last: set_is_active(false).
RunPosted(p) ==
    /\ posted[p] > 0
    /\ posted' = [posted EXCEPT ![p] = @ - 1]
    /\ is_active' = [is_active EXCEPT ![p] = FALSE]
    /\ UNCHANGED <<discVars, userVars, starts, worker, sessions, sendVars>>

\* The last thing a worker does, at its end or in its catch clause.
Post(p) == posted' = [posted EXCEPT ![p] = @ + 1]

------------------------------------------------------------------------------
(* The sender's worker *)

SkipSearch ==
    /\ useInternet
    /\ Goto("sender", "begin", "queue")
    /\ UNCHANGED <<discVars, userVars, uiVars, sessions, sendVars>>

StartSearch ==
    /\ ~useInternet
    /\ Goto("sender", "begin", "waiting")
    /\ \E bound \in BOOLEAN : Start("search", broadcastName["sender"], bound)
    /\ UNCHANGED <<userVars, uiVars, sessions, sendVars>>

\* wait_for returns, with the promise or after three seconds; then stop.
SearchOver ==
    /\ Goto("sender", "waiting", "stopping")
    /\ target_ip' = IF found # None THEN found ELSE Loopback
    /\ Stop("search", FALSE)
    /\ UNCHANGED <<userVars, uiVars, sessions, found, left>>

\* The end of the block: found and peer_promise die before the object does.
LeaveSearch ==
    /\ Goto("sender", "stopping", "leaving")
    /\ Stop("search", TRUE)
    /\ UNCHANGED <<userVars, uiVars, sessions, sendVars>>

SearchLeft ==
    /\ disc["search"].op = "gone"
    /\ Goto("sender", "leaving", "queue")
    /\ UNCHANGED <<discVars, userVars, uiVars, sessions, sendVars>>

\* The next file of the queue: a Session, sendFile to port 9000.
SendFile ==
    /\ left > 0
    /\ Goto("sender", "queue", "session")
    /\ OpenSocket("sender")
    /\ UNCHANGED <<disc, inbox, host, userVars, uiVars, sendVars>>

\* sendFile returns, or throws into the catch clause.
SendFileEnds ==
    /\ \/ Goto("sender", "session", "queue") /\ left' = left - 1
       \/ Goto("sender", "session", "catch") /\ UNCHANGED left
    /\ CloseSocket("sender")
    /\ UNCHANGED <<disc, inbox, host, userVars, uiVars, target_ip, found>>

\* MUTANT: the catch clause only writes to the log.
SendingOverLogs ==
    /\ \/ left = 0 /\ Goto("sender", "queue", "none") /\ Post("sender")
       \/ Goto("sender", "catch", "none") /\ UNCHANGED posted
    /\ UNCHANGED <<discVars, userVars, is_active, starts, sessions, sendVars>>

SendingOver ==
    /\ \/ left = 0 /\ Goto("sender", "queue", "none")
       \/ Goto("sender", "catch", "none")
    /\ Post("sender")
    /\ UNCHANGED <<discVars, userVars, is_active, starts, sessions, sendVars>>

SenderWorker ==
    \/ SkipSearch \/ StartSearch \/ SearchOver \/ LeaveSearch \/ SearchLeft
    \/ SendFile \/ SendingOver

\* The callback, run by the listener for a new peer that is not this device.
PeerFound(d) ==
    /\ ListenHandle(d)
    /\ found' = IF /\ d = "search" /\ IsNewPeer(d) /\ found = None
                   /\ disc[d].msg.name # broadcastName["sender"]
                THEN disc[d].msg.from ELSE found
    /\ UNCHANGED <<userVars, uiVars, worker, sessions, target_ip, left>>

------------------------------------------------------------------------------
(* The receiver's worker *)

\* getPublicEndpoint: WSAStartup, a socket on port 9000, the query.
StunAsk ==
    /\ useInternet
    /\ Goto("receiver", "begin", "stun")
    /\ OpenSocket("receiver")
    /\ UNCHANGED <<disc, inbox, host, userVars, uiVars, sendVars>>

\* Whatever the server answers, or when it does not in two seconds, or when its
\* name is not resolved, the socket is closed and the worker goes on.
StunReturns ==
    /\ Goto("receiver", "stun", "announce")
    /\ CloseSocket("receiver")
    /\ UNCHANGED <<disc, inbox, host, userVars, uiVars, sendVars>>

\* The first of the receiver's objects lives for one block.
StartBrief ==
    /\ ~useInternet
    /\ Goto("receiver", "begin", "brief")
    /\ \E bound \in BOOLEAN : Start("brief", broadcastName["receiver"], bound)
    /\ UNCHANGED <<userVars, uiVars, sessions, sendVars>>

LeaveBrief ==
    /\ Goto("receiver", "brief", "leavingBrief")
    /\ Stop("brief", TRUE)
    /\ UNCHANGED <<userVars, uiVars, sessions, sendVars>>

BriefLeft ==
    /\ disc["brief"].op = "gone"
    /\ Goto("receiver", "leavingBrief", "announce")
    /\ UNCHANGED <<discVars, userVars, uiVars, sessions, sendVars>>

StartAnnounce ==
    /\ Goto("receiver", "announce", "loop")
    /\ \E bound \in BOOLEAN : Start("announce", broadcastName["receiver"], bound)
    /\ UNCHANGED <<userVars, uiVars, sessions, sendVars>>

\* The loop: a Session, recvFile on port 9000 (9002 in GI mode).
RecvFile ==
    /\ Goto("receiver", "loop", "session")
    /\ OpenSocket("receiver")
    /\ UNCHANGED <<disc, inbox, host, userVars, uiVars, sendVars>>

RecvFileReturns ==
    /\ Goto("receiver", "session", "loop")
    /\ CloseSocket("receiver")
    /\ UNCHANGED <<disc, inbox, host, userVars, uiVars, sendVars>>

\* recvFile throws: the Session is destroyed, then the object that announces.
RecvFileThrows ==
    /\ Goto("receiver", "session", "unwind")
    /\ CloseSocket("receiver")
    /\ UNCHANGED <<disc, inbox, host, userVars, uiVars, sendVars>>

UnwindAnnounce ==
    /\ Goto("receiver", "unwind", "leaving")
    /\ Stop("announce", TRUE)
    /\ UNCHANGED <<userVars, uiVars, sessions, sendVars>>

\* MUTANT: the flag is cleared before the block that holds the object is left.
ReceivingOverEarly ==
    /\ Goto("receiver", "leaving", "none")
    /\ Post("receiver")
    /\ UNCHANGED <<discVars, userVars, is_active, starts, sessions, sendVars>>

ReceivingOver ==
    /\ disc["announce"].op = "gone"
    /\ Goto("receiver", "leaving", "none")
    /\ Post("receiver")
    /\ UNCHANGED <<discVars, userVars, is_active, starts, sessions, sendVars>>

ReceiverWorker ==
    \/ StunAsk \/ StunReturns \/ StartBrief \/ LeaveBrief \/ BriefLeft
    \/ StartAnnounce \/ RecvFile \/ UnwindAnnounce \/ ReceivingOver

\* What the Sessions decide, and when.
SessionEnds == SendFileEnds \/ RecvFileReturns \/ RecvFileThrows

------------------------------------------------------------------------------
Init ==
    /\ DiscoveryInit
    /\ useInternet \in BOOLEAN
    /\ broadcastName \in Users
    /\ is_active = [p \in Processes |-> FALSE]
    /\ posted = [p \in Processes |-> 0]
    /\ starts = [p \in Processes |-> 0]
    /\ worker = [p \in Processes |-> "none"]
    /\ sessions = [p \in Processes |-> 0]
    /\ target_ip = None /\ found = None /\ left = 0

\* The steps of an object that do not concern its owner.
Finishing(d)    == Finish(d) /\ UNCHANGED appVars
Broadcasting(d) == Broadcast(d) /\ UNCHANGED appVars
Listening(d)    ==
    \/ (ListenTest(d) \/ ListenRecv(d)) /\ UNCHANGED appVars
    \/ PeerFound(d)

Next ==
    \/ \E p \in Processes : StartTrans(p) \/ RunPosted(p)
    \/ SenderWorker
    \/ ReceiverWorker
    \/ SessionEnds
    \/ \E d \in Objects : Finishing(d) \/ Broadcasting(d) \/ Listening(d)

Spec == Init /\ [][Next]_vars

\* Threads and the event loop run; users need not ask for anything, and a
\* Session may wait for its other end for ever.
FairSpec ==
    /\ Spec
    /\ \A p \in Processes : WF_vars(RunPosted(p))
    /\ WF_vars(SenderWorker \/ Finishing("search"))
    /\ WF_vars(ReceiverWorker \/ Finishing("brief") \/ Finishing("announce"))
    /\ \A d \in Objects : WF_vars(Broadcasting(d)) /\ WF_vars(Listening(d))
=============================================================================
