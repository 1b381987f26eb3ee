------------------------ MODULE ThreadPoolProperties ------------------------
(***************************************************************************)
(* What the users of ThreadPool rely on.                                   *)
(***************************************************************************)
EXTENDS ThreadPool

WorkerPcs == {"loop", "acquire", "check", "pop", "run", "exited"}

\* The type invariant.
TypeOK ==
    /\ tasks_ \in Seq(Nat \ {0})
    /\ taskSemaphore_ \in Nat
    /\ shutdown_ \in BOOLEAN
    /\ submitted \in 0 .. NumTasks
    /\ submitPc \in {"idle", "release", "threw"}
    /\ workerPc \in [Workers -> WorkerPcs]
    /\ task \in [Workers -> Nat]
    /\ stop \in [Workers -> BOOLEAN]
    /\ closePc \in {"open", "release", "join", "joining", "closed"}
    /\ joining \in 1 .. NumWorkers + 1
    /\ started \in Seq(Nat \ {0})
    /\ finished \in SUBSET (Nat \ {0})
    /\ wasIdle \in BOOLEAN

\* Workers that took a permit and have not yet taken a task for it.
Woken == {w \in Workers : workerPc[w] \in {"check", "pop"}}

\* Queue and semaphore are not updated together: submit queues a task and only
\* then releases a permit, a worker takes the permit and only then the task.
\* Until the pool is shut down they still agree, so no task is left in the
\* queue while all workers sleep, and none is woken for nothing.
PermitsMatchTasks ==
    ~shutdown_ =>
        Len(tasks_) = taskSemaphore_ + Cardinality(Woken)
                        + (IF submitPc = "release" THEN 1 ELSE 0)

\* Workers take the tasks in the order of submission, each exactly once, even
\* while the pool is being shut down with tasks in its queue.
TakenOnceInOrder ==
    started \o tasks_ = [k \in 1 .. submitted |-> k]

\* When the destructor returns no worker is in its loop or in a task: the
\* members of the Session that owns the pool may be destroyed.
ClosedMeansQuiet ==
    closePc = "closed" => \A w \in Workers : workerPc[w] = "exited"

\* Workers that have still to take a permit before they can leave.
Staying == {w \in Workers : workerPc[w] \in {"loop", "acquire", "run"}}

\* Once shutdown has released its permits, every worker still in the loop has
\* one: none can block in acquire for ever while the destructor joins it.
\* The pool must have been idle then, which sendFile (it collects every future) and
\* recvFile (it waits for the last chunk) see to.
NoWorkerStarves ==
    wasIdle /\ closePc \in {"join", "joining"} =>
        taskSemaphore_ >= Cardinality(Staying)

------------------------------------------------------------------------------
(* Why these hold. *)

\* The task of a running worker was taken, has not finished, and is nobody
\* else's; only tasks that were taken finish.
RunInv ==
    /\ finished \subseteq 1 .. Len(started)
    /\ \A w \in Workers : workerPc[w] = "run" =>
          task[w] \in (1 .. Len(started)) \ finished
    /\ \A v, w \in Workers :
          workerPc[v] = "run" /\ workerPc[w] = "run" /\ task[v] = task[w] => v = w

\* How far shutdown has got; the workers before the one it joins have left.
CloseInv ==
    /\ shutdown_ <=> closePc # "open"
    /\ \A w \in Workers : w < joining => workerPc[w] = "exited"
    /\ closePc = "joining" => joining <= NumWorkers
    /\ closePc = "closed" => joining = NumWorkers + 1

\* In a pool that was idle when shut down nothing is queued or run any more.
IdleInv ==
    wasIdle =>
        /\ shutdown_ /\ tasks_ = <<>> /\ submitPc # "release"
        /\ \A w \in Workers : workerPc[w] \notin {"pop", "run"}

\* The inductive invariant: each of submit, the workers and shutdown leaves
\* queue, semaphore and threads in step, whichever of them comes first.
IndInv ==
    /\ TypeOK
    /\ TakenOnceInOrder
    /\ PermitsMatchTasks
    /\ RunInv
    /\ CloseInv
    /\ IdleInv
    /\ NoWorkerStarves

------------------------------------------------------------------------------
(* Liveness. *)

\* Every task that is queued in a pool nobody destroys is run to its end.
EveryTaskRuns ==
    \A t \in 1 .. NumTasks : t <= submitted ~> (t \in finished \/ shutdown_)

\* The destructor of an idle pool returns.
ShutdownReturns == wasIdle ~> closePc = "closed"
=============================================================================
