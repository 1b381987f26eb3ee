------------------------- MODULE ApplicationProofs -------------------------
(***************************************************************************)
(* Proofs about Application, for any hosts, users, files and number of     *)
(* transfers: the inductive invariant and the safety properties it implies.*)
(***************************************************************************)
EXTENDS ApplicationProperties, TLAPS

Places == {"none", "begin", "waiting", "stopping", "leaving", "queue", "session",
           "catch", "stun", "brief", "leavingBrief", "announce", "loop", "unwind"}

Messages ==
    [prefix : {"Sxaint|", "sxaint|", None}, name : Names \cup {None},
     from : Addresses \cup {Loopback, None}]

ObjectType ==
    [op : {"none", "ready", "closeBroadcast", "closeListen", "cleanup", "join",
           "gone"},
     dying : BOOLEAN, running_ : BOOLEAN,
     broadcastSocket_ : BOOLEAN, listenSocket_ : BOOLEAN,
     broadcast : {"none", "test", "send", "exited"},
     listen : {"none", "test", "recv", "got", "exited"},
     msg : Messages, deviceName_ : Names \cup {None},
     active_peers_ : SUBSET (Addresses \cup {Loopback, None})]

TypeOK ==
    /\ disc \in [Objects -> ObjectType]
    /\ inbox \in [Objects -> SUBSET Messages]
    /\ winsock \in [Processes -> Int]
    /\ host \in [Processes -> Addresses]
    /\ broadcastName \in [Processes -> Names]
    /\ is_active \in [Processes -> BOOLEAN]
    /\ posted \in [Processes -> Nat]
    /\ worker \in [Processes -> Places]
    /\ sessions \in [Processes -> Nat]

\* An object's sockets are closed before WSACleanup, and its threads have left
\* their loops when it is gone.
ObjectInv ==
    \A d \in Objects :
       /\ disc[d].broadcastSocket_ => disc[d].op \in {"ready", "closeBroadcast"}
       /\ disc[d].listenSocket_ =>
             disc[d].op \in {"ready", "closeBroadcast", "closeListen"}
       /\ disc[d].op \in {"none", "gone"} => Quiet(d)

\* The object d is being destroyed, or is gone already.
Dying(d) ==
    \/ disc[d].op = "gone"
    \/ disc[d].dying /\ disc[d].op \in {"closeBroadcast", "closeListen",
                                          "cleanup", "join"}

\* Where an object is in its life follows from where the worker is that owns it.
LifeInv ==
    /\ worker["sender"] = "waiting" => disc["search"].op = "ready"
    /\ worker["sender"] = "stopping" =>
          /\ ~disc["search"].dying
          /\ disc["search"].op \in {"closeBroadcast", "closeListen", "ready"}
    /\ worker["sender"] = "leaving" => Dying("search")
    /\ worker["sender"] \notin {"waiting", "stopping", "leaving"} =>
          disc["search"].op \in {"none", "gone"}
    /\ worker["receiver"] = "brief" => disc["brief"].op = "ready"
    /\ worker["receiver"] = "leavingBrief" => Dying("brief")
    /\ worker["receiver"] \notin {"brief", "leavingBrief"} =>
          disc["brief"].op \in {"none", "gone"}
    /\ worker["receiver"] \in {"loop", "session", "unwind"} =>
          disc["announce"].op = "ready"
    /\ worker["receiver"] = "leaving" => Dying("announce")
    /\ worker["receiver"] \notin {"loop", "session", "unwind", "leaving"} =>
          disc["announce"].op \in {"none", "gone"}

\* Has d called WSAStartup and not yet WSACleanup?
Holds(d) == IF disc[d].op \in {"none", "gone", "join"} THEN 0 ELSE 1

\* winsock counts the objects and sockets of its process.
WinsockInv ==
    /\ winsock["sender"] = sessions["sender"] + Holds("search")
    /\ winsock["receiver"] = sessions["receiver"] + Holds("brief") + Holds("announce")
    /\ \A p \in Processes :
          sessions[p] = IF worker[p] \in {"session", "stun"} THEN 1 ELSE 0

\* The flag is set from the button to the event that the worker posts last.
FlagInv ==
    \A p \in Processes :
       IF worker[p] = "none" THEN posted[p] = IF is_active[p] THEN 1 ELSE 0
                             ELSE posted[p] = 0 /\ is_active[p]

IndInv == TypeOK /\ ObjectInv /\ LifeInv /\ WinsockInv /\ FlagInv

------------------------------------------------------------------------------
(* Types *)

\* The owner's calls keep the object's type.
LEMMA CallType ==
    ASSUME TypeOK, NEW d \in Objects,
           \/ \E name \in Names, bound \in BOOLEAN : Start(d, name, bound)
           \/ \E dying \in BOOLEAN : Stop(d, dying)
           \/ Finish(d)
    PROVE  /\ disc' \in [Objects -> ObjectType]
           /\ inbox' \in [Objects -> SUBSET Messages]
           /\ winsock' \in [Processes -> Int]
           /\ host' \in [Processes -> Addresses]
<1>1. NoObject \in ObjectType
  BY DEF NoObject, ObjectType, NoMessage, Messages
<1>2. Owner(d) \in Processes
  BY DEF Owner, Processes
<1>3. disc[d] \in ObjectType
  BY DEF TypeOK
<1>4. ASSUME NEW name \in Names, NEW bound \in BOOLEAN, Start(d, name, bound)
      PROVE  disc' \in [Objects -> ObjectType]
  <2> DEFINE obj == [NoObject EXCEPT
                 !.op = "ready", !.running_ = TRUE, !.deviceName_ = name,
                 !.broadcastSocket_ = TRUE, !.listenSocket_ = TRUE,
                 !.broadcast = IF bound THEN "test" ELSE "none",
                 !.listen = IF bound THEN "test" ELSE "none"]
  <2>1. obj \in ObjectType
    BY <1>1 DEF ObjectType
  <2> QED  BY <1>4, <2>1 DEF Start, Put, TypeOK
<1>5. ASSUME NEW dying \in BOOLEAN, Stop(d, dying)
      PROVE  disc' \in [Objects -> ObjectType]
  <2>1. [disc[d] EXCEPT !.running_ = FALSE, !.dying = dying, !.op = "closeBroadcast"]
          \in ObjectType
    BY <1>3 DEF ObjectType
  <2> QED  BY <1>5, <2>1 DEF Stop, Put, TypeOK
<1>6. ASSUME Finish(d) PROVE disc' \in [Objects -> ObjectType]
  <2>1. CASE CloseBroadcast(d)
    BY <1>3, <2>1 DEF CloseBroadcast, Put, TypeOK, ObjectType
  <2>2. CASE CloseListen(d)
    BY <1>3, <2>2 DEF CloseListen, Put, TypeOK, ObjectType
  <2>3. CASE Cleanup(d)
    <3>1. [disc[d] EXCEPT !.active_peers_ = {}, !.op = "join"] \in ObjectType
      BY <1>3 DEF ObjectType
    <3> QED  BY <2>3, <3>1 DEF Cleanup, Put, TypeOK
  <2>4. CASE Join(d)
    BY <1>3, <2>4 DEF Join, Put, TypeOK, ObjectType
  <2> QED  BY <1>6, <2>1, <2>2, <2>3, <2>4 DEF Finish
<1>7. disc' \in [Objects -> ObjectType]
  BY <1>4, <1>5, <1>6
<1>8. inbox' \in [Objects -> SUBSET Messages] /\ host' \in [Processes -> Addresses]
  <2>1. host' = host /\ (inbox' = inbox \/ inbox' = [inbox EXCEPT ![d] = {}])
    BY DEF Start, Stop, Finish, CloseBroadcast, CloseListen, Cleanup, Join
  <2> QED  BY <2>1 DEF TypeOK
<1>9. winsock' \in [Processes -> Int]
  <2>1. \/ winsock' = winsock
        \/ winsock' = [winsock EXCEPT ![Owner(d)] = @ + 1]
        \/ winsock' = [winsock EXCEPT ![Owner(d)] = @ - 1]
    BY DEF Start, Stop, Finish, CloseBroadcast, CloseListen, Cleanup, Join
  <2> QED  BY <1>2, <2>1 DEF TypeOK
<1> QED  BY <1>7, <1>8, <1>9

\* The object's threads keep its type.
LEMMA ThreadType ==
    ASSUME TypeOK, NEW d \in Objects,
           Broadcast(d) \/ ListenTest(d) \/ ListenRecv(d) \/ ListenHandle(d)
    PROVE  /\ disc' \in [Objects -> ObjectType]
           /\ inbox' \in [Objects -> SUBSET Messages]
           /\ UNCHANGED <<winsock, host>>
<1>1. disc[d] \in ObjectType
  BY DEF TypeOK
<1>2. CASE BroadcastTest(d)
  BY <1>1, <1>2 DEF BroadcastTest, Put, TypeOK, ObjectType
<1>3. CASE BroadcastSend(d)
  <2>1. PICK reached \in SUBSET (Audience \X {host[Owner(d)], Loopback}) :
           inbox' = [e \in Objects |->
                       inbox[e] \cup {Announcement(d, r[2]) :
                                        r \in {q \in reached : q[1] = e}}]
    BY <1>3 DEF BroadcastSend
  <2>2. host[Owner(d)] \in Addresses /\ disc[d].deviceName_ \in Names \cup {None}
    BY <1>1 DEF TypeOK, Owner, Processes, ObjectType
  <2>3. \A r \in reached : Announcement(d, r[2]) \in Messages
    BY <2>2 DEF Announcement, Messages
  <2>4. \A e \in Objects :
           inbox[e] \cup {Announcement(d, r[2]) : r \in {q \in reached : q[1] = e}}
             \in SUBSET Messages
    BY <2>3 DEF TypeOK
  <2>5. inbox' \in [Objects -> SUBSET Messages]
    BY <2>1, <2>4
  <2> QED  BY <1>1, <1>3, <2>5 DEF BroadcastSend, Put, TypeOK, ObjectType
<1>4. CASE ListenTest(d)
  BY <1>1, <1>4 DEF ListenTest, Put, TypeOK, ObjectType
<1>5. CASE ListenRecv(d)
  <2>1. CASE ~disc[d].listenSocket_ /\ Put(d, [disc[d] EXCEPT !.listen = "test"])
             /\ UNCHANGED inbox
    BY <1>1, <1>5, <2>1 DEF ListenRecv, Put, TypeOK, ObjectType
  <2>2. ASSUME NEW m \in inbox[d],
               Put(d, [disc[d] EXCEPT !.listen = "got", !.msg = m]),
               inbox' = [inbox EXCEPT ![d] = @ \ {m}]
        PROVE  /\ disc' \in [Objects -> ObjectType]
               /\ inbox' \in [Objects -> SUBSET Messages]
    <3>1. m \in Messages
      BY DEF TypeOK
    <3>2. [disc[d] EXCEPT !.listen = "got", !.msg = m] \in ObjectType
      BY <1>1, <3>1 DEF ObjectType
    <3> QED  BY <2>2, <3>2 DEF Put, TypeOK
  <2> QED  BY <1>5, <2>1, <2>2 DEF ListenRecv
<1>6. CASE ListenHandle(d)
  <2>1. NoMessage \in Messages
    BY DEF NoMessage, Messages
  <2>2. disc[d].msg.from \in Addresses \cup {Loopback, None}
    BY <1>1 DEF ObjectType, Messages
  <2>3. [disc[d] EXCEPT
           !.listen = "test", !.msg = NoMessage,
           !.active_peers_ = @ \cup (IF IsNewPeer(d) THEN {disc[d].msg.from} ELSE {})]
             \in ObjectType
    BY <1>1, <2>1, <2>2 DEF ObjectType
  <2> QED  BY <1>6, <2>3 DEF ListenHandle, Put, TypeOK
<1> QED  BY <1>2, <1>3, <1>4, <1>5, <1>6 DEF Broadcast

\* The worker's steps that call no member function of a Discovery object.
Plain ==
    \/ SkipSearch \/ SearchLeft \/ SendFile \/ SendFileEnds \/ SendingOver
    \/ StunAsk \/ StunReturns \/ BriefLeft \/ RecvFile \/ RecvFileReturns
    \/ RecvFileThrows \/ ReceivingOver

\* Those that call Start or Stop.
Calling ==
    \/ StartSearch \/ SearchOver \/ LeaveSearch \/ StartBrief \/ LeaveBrief
    \/ StartAnnounce \/ UnwindAnnounce

\* Every step keeps the types.
LEMMA TypeNext == IndInv /\ [Next]_vars => TypeOK'
<1> SUFFICES ASSUME TypeOK, WinsockInv, FlagInv, [Next]_vars PROVE TypeOK'
  BY DEF IndInv
<1>0. "sender" \in Processes /\ "receiver" \in Processes
  BY DEF Processes
<1>1. ASSUME NEW p \in Processes, StartTrans(p) PROVE TypeOK'
  BY <1>1 DEF StartTrans, Goto, Places, discVars, userVars, TypeOK
<1>2. ASSUME NEW p \in Processes, RunPosted(p) PROVE TypeOK'
  BY <1>2 DEF RunPosted, discVars, userVars, TypeOK
<1>3. CASE Plain
  <2>1. UNCHANGED <<disc, inbox, host, broadcastName, is_active>>
    BY <1>3 DEF Plain, SkipSearch, SearchLeft, SendFile, SendFileEnds, SendingOver,
         StunAsk, StunReturns, BriefLeft, RecvFile, RecvFileReturns, RecvFileThrows,
         ReceivingOver, discVars, userVars, uiVars
  <2>2. worker' \in [Processes -> Places]
    BY <1>0, <1>3 DEF Plain, SkipSearch, SearchLeft, SendFile, SendFileEnds,
         SendingOver, StunAsk, StunReturns, BriefLeft, RecvFile, RecvFileReturns,
         RecvFileThrows, ReceivingOver, Goto, Places, TypeOK
  <2>3. posted' \in [Processes -> Nat]
    BY <1>0, <1>3 DEF Plain, SkipSearch, SearchLeft, SendFile, SendFileEnds,
         SendingOver, StunAsk, StunReturns, BriefLeft, RecvFile, RecvFileReturns,
         RecvFileThrows, ReceivingOver, uiVars, Post, TypeOK
  <2>4. winsock' \in [Processes -> Int] /\ sessions' \in [Processes -> Nat]
    <3>1. CASE UNCHANGED <<winsock, sessions>>
      BY <3>1 DEF TypeOK
    <3>2. CASE SendFile \/ StunAsk \/ RecvFile
      BY <1>0, <3>2 DEF SendFile, StunAsk, RecvFile, OpenSocket, TypeOK
    <3>3. CASE SendFileEnds
      BY <1>0, <3>3 DEF SendFileEnds, Goto, CloseSocket, WinsockInv, TypeOK
    <3>4. CASE StunReturns \/ RecvFileReturns \/ RecvFileThrows
      BY <1>0, <3>4 DEF StunReturns, RecvFileReturns, RecvFileThrows, Goto,
           CloseSocket, WinsockInv, TypeOK
    <3> QED  BY <1>3, <3>1, <3>2, <3>3, <3>4 DEF Plain, SkipSearch, SearchLeft,
               SendingOver, BriefLeft, ReceivingOver, discVars
  <2> QED  BY <2>1, <2>2, <2>3, <2>4 DEF TypeOK
<1>4. CASE Calling
  <2>1. UNCHANGED <<broadcastName, is_active, posted, sessions>>
    BY <1>4 DEF Calling, StartSearch, SearchOver, LeaveSearch, StartBrief, LeaveBrief,
         StartAnnounce, UnwindAnnounce, userVars, uiVars
  <2>2. worker' \in [Processes -> Places]
    BY <1>0, <1>4 DEF Calling, StartSearch, SearchOver, LeaveSearch, StartBrief,
         LeaveBrief, StartAnnounce, UnwindAnnounce, Goto, Places, TypeOK
  <2>3. \E d \in Objects :
           \/ \E name \in Names, bound \in BOOLEAN : Start(d, name, bound)
           \/ \E dying \in BOOLEAN : Stop(d, dying)
    BY <1>0, <1>4 DEF Calling, StartSearch, SearchOver, LeaveSearch, StartBrief,
         LeaveBrief, StartAnnounce, UnwindAnnounce, Objects, TypeOK
  <2> QED  BY <2>1, <2>2, <2>3, CallType DEF TypeOK
<1>5. ASSUME NEW d \in Objects, Finishing(d) PROVE TypeOK'
  BY <1>5, CallType DEF Finishing, appVars, userVars, uiVars, TypeOK
<1>6. ASSUME NEW d \in Objects, Broadcasting(d) PROVE TypeOK'
  BY <1>6, ThreadType DEF Broadcasting, appVars, userVars, uiVars, TypeOK
<1>7. ASSUME NEW d \in Objects, Listening(d) PROVE TypeOK'
  BY <1>7, ThreadType DEF Listening, PeerFound, appVars, userVars, uiVars, TypeOK
<1>8. CASE UNCHANGED vars
  BY <1>8 DEF vars, discVars, appVars, userVars, uiVars, TypeOK
<1> QED
  BY <1>1, <1>2, <1>3, <1>4, <1>5, <1>6, <1>7, <1>8
     DEF Next, SenderWorker, ReceiverWorker, SessionEnds, Plain, Calling

------------------------------------------------------------------------------
(* The objects *)

\* An object's threads leave its sockets and its owner's place alone, and a
\* thread that has left its loop does not come back.
LEMMA ThreadFrame ==
    ASSUME TypeOK, NEW d \in Objects,
           Broadcast(d) \/ ListenTest(d) \/ ListenRecv(d) \/ ListenHandle(d)
    PROVE  \A e \in Objects :
              /\ disc'[e].op = disc[e].op
              /\ disc'[e].dying = disc[e].dying
              /\ disc'[e].broadcastSocket_ = disc[e].broadcastSocket_
              /\ disc'[e].listenSocket_ = disc[e].listenSocket_
              /\ disc[e].broadcast \in {"none", "exited"} =>
                    disc'[e].broadcast = disc[e].broadcast
              /\ disc[e].listen \in {"none", "exited"} =>
                    disc'[e].listen = disc[e].listen
<1>1. disc[d] \in ObjectType
  BY DEF TypeOK
<1>2. CASE BroadcastTest(d)
  BY <1>1, <1>2 DEF BroadcastTest, Put, TypeOK, ObjectType
<1>3. CASE BroadcastSend(d)
  BY <1>1, <1>3 DEF BroadcastSend, Put, TypeOK, ObjectType
<1>4. CASE ListenTest(d)
  BY <1>1, <1>4 DEF ListenTest, Put, TypeOK, ObjectType
<1>5. CASE ListenRecv(d)
  <2>1. disc[d].listen = "recv"
    BY <1>5 DEF ListenRecv
  <2>2. ASSUME NEW m, disc' = [disc EXCEPT ![d] = [@ EXCEPT !.listen = "got", !.msg = m]]
        PROVE  /\ \A e \in Objects : e # d => disc'[e] = disc[e]
               /\ disc'[d].op = disc[d].op
               /\ disc'[d].dying = disc[d].dying
               /\ disc'[d].broadcastSocket_ = disc[d].broadcastSocket_
               /\ disc'[d].listenSocket_ = disc[d].listenSocket_
               /\ disc'[d].broadcast = disc[d].broadcast
    BY <1>1, <2>2 DEF TypeOK, ObjectType
  <2>3. CASE \E m : disc' = [disc EXCEPT ![d] = [@ EXCEPT !.listen = "got", !.msg = m]]
    BY <2>1, <2>2, <2>3
  <2>4. CASE disc' = [disc EXCEPT ![d] = [@ EXCEPT !.listen = "test"]]
    BY <1>1, <2>1, <2>4 DEF TypeOK, ObjectType
  <2> QED  BY <1>5, <2>3, <2>4 DEF ListenRecv, Put
<1>6. CASE ListenHandle(d)
  BY <1>1, <1>6 DEF ListenHandle, Put, TypeOK, ObjectType
<1> QED  BY <1>2, <1>3, <1>4, <1>5, <1>6 DEF Broadcast

\* What a call of Start does to an object.
LEMMA StartFrame ==
    ASSUME TypeOK, NEW d \in Objects, NEW name, NEW bound, Start(d, name, bound)
    PROVE  /\ disc[d].op \in {"none", "gone"}
           /\ disc'[d].op = "ready"
           /\ \A e \in Objects : e # d => disc'[e] = disc[e]
           /\ winsock' = [winsock EXCEPT ![Owner(d)] = @ + 1]
<1> DEFINE obj == [NoObject EXCEPT
                 !.op = "ready", !.running_ = TRUE, !.deviceName_ = name,
                 !.broadcastSocket_ = TRUE, !.listenSocket_ = TRUE,
                 !.broadcast = IF bound THEN "test" ELSE "none",
                 !.listen = IF bound THEN "test" ELSE "none"]
<1>1. obj.op = "ready"
  BY DEF NoObject
<1>2. /\ disc[d].op \in {"none", "gone"} /\ disc' = [disc EXCEPT ![d] = obj]
      /\ winsock' = [winsock EXCEPT ![Owner(d)] = @ + 1]
  BY DEF Start, Put
<1> HIDE DEF obj
<1> QED  BY <1>1, <1>2 DEF TypeOK

\* What a call of Stop does to an object.
Stopped(d, dying) ==
    /\ disc[d].op = "ready"
    /\ disc'[d].op = "closeBroadcast"
    /\ disc'[d].dying = dying
    /\ disc'[d].broadcastSocket_ = disc[d].broadcastSocket_
    /\ disc'[d].listenSocket_ = disc[d].listenSocket_
    /\ \A e \in Objects : e # d => disc'[e] = disc[e]
    /\ winsock' = winsock

\* stop, and the destructor that calls it, begin: what they leave alone.
LEMMA StopFrame ==
    ASSUME TypeOK, NEW d \in Objects, NEW dying \in BOOLEAN, Stop(d, dying)
    PROVE  Stopped(d, dying)
  BY DEF Stop, Put, TypeOK, ObjectType, Stopped

\* What the rest of stop and of the destructor does to an object.
LEMMA FinishFrame ==
    ASSUME TypeOK, ObjectInv, NEW d \in Objects, Finish(d)
    PROVE  /\ \A e \in Objects : e # d => disc'[e] = disc[e]
           /\ disc'[d].dying = disc[d].dying
           /\ \/ /\ disc[d].op = "closeBroadcast" /\ disc'[d].op = "closeListen"
                 /\ ~disc'[d].broadcastSocket_ /\ winsock' = winsock
              \/ /\ disc[d].op = "closeListen" /\ winsock' = winsock
                 /\ disc'[d].op = IF disc[d].dying THEN "cleanup" ELSE "ready"
                 /\ ~disc'[d].broadcastSocket_ /\ ~disc'[d].listenSocket_
              \/ /\ disc[d].op = "cleanup" /\ disc'[d].op = "join"
                 /\ ~disc'[d].broadcastSocket_ /\ ~disc'[d].listenSocket_
                 /\ winsock' = [winsock EXCEPT ![Owner(d)] = @ - 1]
              \/ /\ disc[d].op = "join" /\ disc'[d].op = "gone" /\ winsock' = winsock
                 /\ ~disc'[d].broadcastSocket_ /\ ~disc'[d].listenSocket_
                 /\ disc'[d].listen \in {"none", "exited"}
                 /\ disc'[d].broadcast \in {"none", "exited"}
<1>1. disc[d] \in ObjectType
  BY DEF TypeOK
<1>2. CASE CloseBroadcast(d)
  BY <1>1, <1>2 DEF CloseBroadcast, Put, TypeOK, ObjectType
<1>3. CASE CloseListen(d)
  BY <1>1, <1>3 DEF CloseListen, Put, TypeOK, ObjectType, ObjectInv
<1>4. CASE Cleanup(d)
  BY <1>1, <1>4 DEF Cleanup, Put, TypeOK, ObjectType, ObjectInv
<1>5. CASE Join(d)
  BY <1>1, <1>5 DEF Join, Put, TypeOK, ObjectType, ObjectInv
<1> QED  BY <1>2, <1>3, <1>4, <1>5 DEF Finish

\* A step touches objects by one of these three, or not at all.
LEMMA ObjectSteps ==
    ASSUME [Next]_vars
    PROVE  \/ \E d \in Objects :
                 \/ \E name, bound : Start(d, name, bound)
                 \/ \E dying \in BOOLEAN : Stop(d, dying)
                 \/ Finish(d)
                 \/ Broadcast(d) \/ ListenTest(d) \/ ListenRecv(d) \/ ListenHandle(d)
           \/ UNCHANGED disc
<1> USE DEF Objects, discVars
<1>1. CASE \E p \in Processes : StartTrans(p) \/ RunPosted(p)
  BY <1>1 DEF StartTrans, RunPosted
<1>2. CASE SenderWorker
  BY <1>2 DEF SenderWorker, SkipSearch, StartSearch, SearchOver, LeaveSearch,
              SearchLeft, SendFile, SendingOver
<1>3. CASE ReceiverWorker
  BY <1>3 DEF ReceiverWorker, StunAsk, StunReturns, StartBrief, LeaveBrief, BriefLeft,
              StartAnnounce, RecvFile, UnwindAnnounce, ReceivingOver
<1>4. CASE SessionEnds
  BY <1>4 DEF SessionEnds, SendFileEnds, RecvFileReturns, RecvFileThrows
<1>5. CASE \E d \in Objects : Finishing(d) \/ Broadcasting(d) \/ Listening(d)
  BY <1>5 DEF Finishing, Broadcasting, Listening, PeerFound
<1>6. CASE UNCHANGED vars
  BY <1>6 DEF vars
<1> QED  BY <1>1, <1>2, <1>3, <1>4, <1>5, <1>6 DEF Next

\* Sockets are closed and threads joined before an object is gone.
LEMMA ObjectNext == IndInv /\ [Next]_vars => ObjectInv'
<1> SUFFICES ASSUME TypeOK, ObjectInv, [Next]_vars PROVE ObjectInv'
  BY DEF IndInv
<1>1. CASE UNCHANGED disc
  BY <1>1 DEF ObjectInv, Quiet
<1>2. ASSUME NEW d \in Objects, NEW name, NEW bound, Start(d, name, bound)
      PROVE  ObjectInv'
  BY <1>2, StartFrame DEF ObjectInv, Quiet
<1>3. ASSUME NEW d \in Objects, NEW dying \in BOOLEAN, Stop(d, dying) PROVE ObjectInv'
  BY <1>3, StopFrame DEF Stopped, ObjectInv, Quiet
<1>4. ASSUME NEW d \in Objects, Finish(d) PROVE ObjectInv'
  BY <1>4, FinishFrame DEF ObjectInv, Quiet
<1>5. ASSUME NEW d \in Objects,
             Broadcast(d) \/ ListenTest(d) \/ ListenRecv(d) \/ ListenHandle(d)
      PROVE  ObjectInv'
  BY <1>5, ThreadFrame DEF ObjectInv, Quiet
<1> QED  BY <1>1, <1>2, <1>3, <1>4, <1>5, ObjectSteps

------------------------------------------------------------------------------
(* The workers *)

\* What a step of main.cpp's threads does to the places of the workers, to the
\* sockets of Sessions and to the flag.
LEMMA LifeNext == IndInv /\ [Next]_vars => LifeInv'
<1> SUFFICES ASSUME TypeOK, ObjectInv, LifeInv, FlagInv, [Next]_vars PROVE LifeInv'
  BY DEF IndInv
<1>0. "sender" \in Processes /\ "receiver" \in Processes /\ "search" \in Objects
      /\ "brief" \in Objects /\ "announce" \in Objects
  BY DEF Processes, Objects
<1>1. ASSUME NEW p \in Processes, StartTrans(p) PROVE LifeInv'
  BY <1>0, <1>1 DEF StartTrans, Goto, discVars, LifeInv, Dying, Processes, TypeOK
<1>2. ASSUME NEW p \in Processes, RunPosted(p) PROVE LifeInv'
  BY <1>2 DEF RunPosted, discVars, LifeInv, Dying
<1>3. CASE Plain
  <2>1. UNCHANGED disc
    BY <1>3 DEF Plain, SkipSearch, SearchLeft, SendFile, SendFileEnds, SendingOver,
         StunAsk, StunReturns, BriefLeft, RecvFile, RecvFileReturns, RecvFileThrows,
         ReceivingOver, discVars
  <2>2. CASE SkipSearch \/ SearchLeft \/ SendFile \/ SendFileEnds \/ SendingOver
    BY <1>0, <2>1, <2>2 DEF SkipSearch, SearchLeft, SendFile, SendFileEnds,
         SendingOver, Goto, LifeInv, Dying, TypeOK
  <2>3. CASE StunAsk \/ StunReturns \/ BriefLeft \/ RecvFile
    BY <1>0, <2>1, <2>3 DEF StunAsk, StunReturns, BriefLeft, RecvFile, Goto, LifeInv,
         Dying, TypeOK
  <2>4. CASE RecvFileReturns \/ RecvFileThrows \/ ReceivingOver
    BY <1>0, <2>1, <2>4 DEF RecvFileReturns, RecvFileThrows, ReceivingOver, Goto,
         LifeInv, Dying, TypeOK
  <2> QED  BY <1>3, <2>2, <2>3, <2>4 DEF Plain
<1>4. CASE Calling
  <2>1. CASE StartSearch
    BY <1>0, <2>1, StartFrame DEF StartSearch, Goto, LifeInv, Dying, TypeOK
  <2>2. CASE SearchOver
    <3>1. Stop("search", FALSE)
      BY <2>2 DEF SearchOver
    <3>2. Stopped("search", FALSE)
      BY <1>0, <3>1, StopFrame, Zenon
    <3> QED  BY <1>0, <2>2, <3>2 DEF Stopped, SearchOver, Goto, LifeInv, Dying, TypeOK
  <2>3. CASE LeaveSearch
    <3>1. Stop("search", TRUE)
      BY <2>3 DEF LeaveSearch
    <3>2. Stopped("search", TRUE)
      BY <1>0, <3>1, StopFrame, Zenon
    <3> QED  BY <1>0, <2>3, <3>2 DEF Stopped, LeaveSearch, Goto, LifeInv, Dying, TypeOK
  <2>4. CASE StartBrief
    BY <1>0, <2>4, StartFrame DEF StartBrief, Goto, LifeInv, Dying, TypeOK
  <2>5. CASE LeaveBrief
    <3>1. Stop("brief", TRUE)
      BY <2>5 DEF LeaveBrief
    <3>2. Stopped("brief", TRUE)
      BY <1>0, <3>1, StopFrame, Zenon
    <3> QED  BY <1>0, <2>5, <3>2 DEF Stopped, LeaveBrief, Goto, LifeInv, Dying, TypeOK
  <2>6. CASE StartAnnounce
    BY <1>0, <2>6, StartFrame DEF StartAnnounce, Goto, LifeInv, Dying, TypeOK
  <2>7. CASE UnwindAnnounce
    <3>1. Stop("announce", TRUE)
      BY <2>7 DEF UnwindAnnounce
    <3>2. Stopped("announce", TRUE)
      BY <1>0, <3>1, StopFrame, Zenon
    <3> QED  BY <1>0, <2>7, <3>2 DEF Stopped, UnwindAnnounce, Goto, LifeInv, Dying, TypeOK
  <2> QED  BY <1>4, <2>1, <2>2, <2>3, <2>4, <2>5, <2>6, <2>7 DEF Calling
<1>5. ASSUME NEW d \in Objects, Finishing(d) PROVE LifeInv'
  <2>1. Finish(d) /\ UNCHANGED worker
    BY <1>5 DEF Finishing, appVars
  <2> QED  BY <1>0, <2>1, FinishFrame DEF LifeInv, Dying, Objects
<1>6. ASSUME NEW d \in Objects, Broadcasting(d) \/ Listening(d) PROVE LifeInv'
  <2>1. /\ Broadcast(d) \/ ListenTest(d) \/ ListenRecv(d) \/ ListenHandle(d)
        /\ UNCHANGED worker
    BY <1>6 DEF Broadcasting, Listening, PeerFound, appVars
  <2> QED  BY <1>0, <2>1, ThreadFrame DEF LifeInv, Dying
<1>7. CASE UNCHANGED vars
  BY <1>7 DEF vars, discVars, appVars, LifeInv, Dying
<1> QED
  BY <1>1, <1>2, <1>3, <1>4, <1>5, <1>6, <1>7
     DEF Next, SenderWorker, ReceiverWorker, SessionEnds, Plain, Calling

\* The counting of WSAStartup and WSACleanup.
LEMMA WinsockNext == IndInv /\ [Next]_vars => WinsockInv'
<1> SUFFICES ASSUME TypeOK, ObjectInv, WinsockInv, [Next]_vars PROVE WinsockInv'
  BY DEF IndInv
<1>0. "sender" \in Processes /\ "receiver" \in Processes /\ "search" \in Objects
      /\ "brief" \in Objects /\ "announce" \in Objects
  BY DEF Processes, Objects
<1>a. Owner("search") = "sender" /\ Owner("brief") = "receiver"
      /\ Owner("announce") = "receiver"
  BY DEF Owner
<1>1. ASSUME NEW p \in Processes, StartTrans(p) PROVE WinsockInv'
  BY <1>1 DEF StartTrans, Goto, discVars, WinsockInv, Holds, TypeOK
<1>2. ASSUME NEW p \in Processes, RunPosted(p) PROVE WinsockInv'
  BY <1>2 DEF RunPosted, discVars, WinsockInv, Holds
<1>3. CASE Plain
  <2>1. UNCHANGED disc
    BY <1>3 DEF Plain, SkipSearch, SearchLeft, SendFile, SendFileEnds, SendingOver,
         StunAsk, StunReturns, BriefLeft, RecvFile, RecvFileReturns, RecvFileThrows,
         ReceivingOver, discVars
  <2>2. CASE SkipSearch \/ SearchLeft \/ SendingOver \/ BriefLeft \/ ReceivingOver
    BY <1>0, <2>1, <2>2 DEF SkipSearch, SearchLeft, SendingOver, BriefLeft,
         ReceivingOver, discVars, Goto, WinsockInv, Holds, Processes, TypeOK
  <2>3. CASE SendFile \/ StunAsk \/ RecvFile
    BY <1>0, <2>1, <2>3 DEF SendFile, StunAsk, RecvFile, OpenSocket, Goto, WinsockInv,
         Holds, Processes, TypeOK
  <2>4. CASE SendFileEnds \/ StunReturns \/ RecvFileReturns \/ RecvFileThrows
    <3>1. CASE SendFileEnds
      <4>1. /\ worker["sender"] = "session"
            /\ \E q \in {"queue", "catch"} : worker' = [worker EXCEPT !["sender"] = q]
            /\ CloseSocket("sender")
        BY <3>1 DEF SendFileEnds, Goto
      <4> QED  BY <1>0, <2>1, <4>1 DEF CloseSocket, WinsockInv, Holds, Processes, TypeOK
    <3>2. CASE StunReturns
      BY <1>0, <2>1, <3>2 DEF StunReturns, CloseSocket, Goto, WinsockInv, Holds, Processes, TypeOK
    <3>3. CASE RecvFileReturns
      BY <1>0, <2>1, <3>3 DEF RecvFileReturns, CloseSocket, Goto, WinsockInv, Holds, Processes, TypeOK
    <3>4. CASE RecvFileThrows
      BY <1>0, <2>1, <3>4 DEF RecvFileThrows, CloseSocket, Goto, WinsockInv, Holds, Processes, TypeOK
    <3> QED  BY <2>4, <3>1, <3>2, <3>3, <3>4
  <2> QED  BY <1>3, <2>2, <2>3, <2>4 DEF Plain
<1>4. CASE Calling
  <2>1. CASE StartSearch
    BY <1>0, <1>a, <2>1, StartFrame
       DEF StartSearch, Goto, WinsockInv, Holds, Processes, TypeOK
  <2>2. CASE SearchOver
    <3>1. Stop("search", FALSE)
      BY <2>2 DEF SearchOver
    <3>2. Stopped("search", FALSE)
      BY <1>0, <3>1, StopFrame, Zenon
    <3> QED  BY <1>0, <2>2, <3>2 DEF Stopped, SearchOver, Goto, WinsockInv, Holds, Processes, TypeOK
  <2>3. CASE LeaveSearch
    <3>1. Stop("search", TRUE)
      BY <2>3 DEF LeaveSearch
    <3>2. Stopped("search", TRUE)
      BY <1>0, <3>1, StopFrame, Zenon
    <3> QED  BY <1>0, <2>3, <3>2 DEF Stopped, LeaveSearch, Goto, WinsockInv, Holds, Processes, TypeOK
  <2>4. CASE StartBrief
    BY <1>0, <1>a, <2>4, StartFrame
       DEF StartBrief, Goto, WinsockInv, Holds, Processes, TypeOK
  <2>5. CASE LeaveBrief
    <3>1. Stop("brief", TRUE)
      BY <2>5 DEF LeaveBrief
    <3>2. Stopped("brief", TRUE)
      BY <1>0, <3>1, StopFrame, Zenon
    <3> QED  BY <1>0, <2>5, <3>2 DEF Stopped, LeaveBrief, Goto, WinsockInv, Holds, Processes, TypeOK
  <2>6. CASE StartAnnounce
    BY <1>0, <1>a, <2>6, StartFrame
       DEF StartAnnounce, Goto, WinsockInv, Holds, Processes, TypeOK
  <2>7. CASE UnwindAnnounce
    <3>1. Stop("announce", TRUE)
      BY <2>7 DEF UnwindAnnounce
    <3>2. Stopped("announce", TRUE)
      BY <1>0, <3>1, StopFrame, Zenon
    <3> QED  BY <1>0, <2>7, <3>2 DEF Stopped, UnwindAnnounce, Goto, WinsockInv, Holds, Processes, TypeOK
  <2> QED  BY <1>4, <2>1, <2>2, <2>3, <2>4, <2>5, <2>6, <2>7 DEF Calling
<1>5. ASSUME NEW d \in Objects, Finishing(d) PROVE WinsockInv'
  <2>1. Finish(d) /\ UNCHANGED <<worker, sessions>>
    BY <1>5 DEF Finishing, appVars
  <2> QED  BY <1>0, <1>a, <2>1, FinishFrame DEF WinsockInv, Holds, Objects, TypeOK
<1>6. ASSUME NEW d \in Objects, Broadcasting(d) \/ Listening(d) PROVE WinsockInv'
  <2>1. /\ Broadcast(d) \/ ListenTest(d) \/ ListenRecv(d) \/ ListenHandle(d)
        /\ UNCHANGED <<worker, sessions>>
    BY <1>6 DEF Broadcasting, Listening, PeerFound, appVars
  <2> QED  BY <1>0, <2>1, ThreadFrame, ThreadType DEF WinsockInv, Holds
<1>7. CASE UNCHANGED vars
  BY <1>7 DEF vars, discVars, appVars, WinsockInv, Holds
<1> QED
  BY <1>1, <1>2, <1>3, <1>4, <1>5, <1>6, <1>7
     DEF Next, SenderWorker, ReceiverWorker, SessionEnds, Plain, Calling

\* The flag and the event that clears it.
LEMMA FlagNext == IndInv /\ [Next]_vars => FlagInv'
<1> SUFFICES ASSUME TypeOK, FlagInv, [Next]_vars PROVE FlagInv'
  BY DEF IndInv
<1>0. "sender" \in Processes /\ "receiver" \in Processes
  BY DEF Processes
<1>1. ASSUME NEW p \in Processes, StartTrans(p) PROVE FlagInv'
  BY <1>1 DEF StartTrans, Goto, FlagInv, TypeOK
<1>2. ASSUME NEW p \in Processes, RunPosted(p) PROVE FlagInv'
  BY <1>2 DEF RunPosted, FlagInv, TypeOK
<1>3. CASE SendingOver \/ ReceivingOver
  BY <1>0, <1>3 DEF SendingOver, ReceivingOver, Goto, Post, FlagInv, TypeOK
<1>4. CASE \/ SkipSearch \/ SearchLeft \/ SendFile \/ SendFileEnds \/ StunAsk
           \/ StunReturns \/ BriefLeft \/ RecvFile \/ RecvFileReturns \/ RecvFileThrows
  BY <1>0, <1>4 DEF SkipSearch, SearchLeft, SendFile, SendFileEnds, StunAsk,
       StunReturns, BriefLeft, RecvFile, RecvFileReturns, RecvFileThrows, Goto, uiVars,
       FlagInv, TypeOK
<1>5. CASE Calling
  <2>1. CASE StartSearch
    BY <1>0, <2>1 DEF StartSearch, Goto, uiVars, FlagInv, TypeOK
  <2>2. CASE SearchOver
    BY <1>0, <2>2 DEF SearchOver, Goto, uiVars, FlagInv, TypeOK
  <2>3. CASE LeaveSearch
    BY <1>0, <2>3 DEF LeaveSearch, Goto, uiVars, FlagInv, TypeOK
  <2>4. CASE StartBrief
    BY <1>0, <2>4 DEF StartBrief, Goto, uiVars, FlagInv, TypeOK
  <2>5. CASE LeaveBrief
    BY <1>0, <2>5 DEF LeaveBrief, Goto, uiVars, FlagInv, TypeOK
  <2>6. CASE StartAnnounce
    BY <1>0, <2>6 DEF StartAnnounce, Goto, uiVars, FlagInv, TypeOK
  <2>7. CASE UnwindAnnounce
    BY <1>0, <2>7 DEF UnwindAnnounce, Goto, uiVars, FlagInv, TypeOK
  <2> QED  BY <1>5, <2>1, <2>2, <2>3, <2>4, <2>5, <2>6, <2>7 DEF Calling
<1>6. CASE \E d \in Objects : Finishing(d) \/ Broadcasting(d) \/ Listening(d)
  BY <1>6 DEF Finishing, Broadcasting, Listening, PeerFound, appVars, uiVars, FlagInv
<1>7. CASE UNCHANGED vars
  BY <1>7 DEF vars, appVars, uiVars, FlagInv
<1> QED
  BY <1>1, <1>2, <1>3, <1>4, <1>5, <1>6, <1>7
     DEF Next, SenderWorker, ReceiverWorker, SessionEnds, Calling

\* Two processes that were just started satisfy the invariant.
LEMMA Initial == Init => IndInv
<1> SUFFICES ASSUME Init PROVE IndInv
  OBVIOUS
<1>1. NoObject \in ObjectType
  BY DEF NoObject, ObjectType, NoMessage, Messages
<1>2. TypeOK
  BY <1>1, DiscoveryAssumption, ApplicationAssumption
     DEF Init, DiscoveryInit, TypeOK, Places
<1>3. /\ NoObject.op = "none" /\ ~NoObject.broadcastSocket_ /\ ~NoObject.listenSocket_
      /\ NoObject.broadcast = "none" /\ NoObject.listen = "none"
  BY DEF NoObject
<1>4. \A d \in Objects : disc[d] = NoObject
  BY DEF Init, DiscoveryInit
<1>5. ObjectInv
  BY <1>3, <1>4 DEF ObjectInv, Quiet
<1>6. LifeInv /\ WinsockInv /\ FlagInv
  BY <1>3, <1>4 DEF Init, DiscoveryInit, LifeInv, WinsockInv, Holds, FlagInv,
                    Processes, Objects
<1> QED  BY <1>2, <1>5, <1>6 DEF IndInv

------------------------------------------------------------------------------
(* The theorems *)

\* The inductive invariant holds in every behaviour of the two programs.
THEOREM ApplicationInvariance == Spec => []IndInv
<1>1. IndInv /\ [Next]_vars => IndInv'
  BY TypeNext, ObjectNext, LifeNext, WinsockNext, FlagNext DEF IndInv
<1> QED  BY <1>1, Initial, PTL DEF Spec

\* When the destructor of a Discovery object has returned, its threads have left
\* their loops and its sockets are closed, also when start could not bind.
THEOREM DestroyedIsQuiet == Spec => []GoneMeansQuiet
<1>1. IndInv => GoneMeansQuiet
  BY DEF IndInv, ObjectInv, GoneMeansQuiet
<1> QED  BY <1>1, ApplicationInvariance, PTL

\* No WSACleanup is the last of its process while one of its sockets is open.
THEOREM SocketsHaveWinsock == Spec => []WinsockOutlivesSockets
<1>1. IndInv => WinsockOutlivesSockets
  BY DEF IndInv, TypeOK, ObjectInv, WinsockInv, Holds, WinsockOutlivesSockets,
         Processes, Objects, Owner
<1> QED  BY <1>1, ApplicationInvariance, PTL

\* While the button can be pressed, nothing of an earlier transfer is left.
THEOREM ButtonMeansReleased == Spec => []InactiveMeansReleased
<1>1. IndInv => InactiveMeansReleased
  BY DEF IndInv, TypeOK, LifeInv, WinsockInv, Holds, FlagInv, InactiveMeansReleased,
         Processes, Objects, Owner
<1> QED  BY <1>1, ApplicationInvariance, PTL
=============================================================================
