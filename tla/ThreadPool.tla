----------------------------- MODULE ThreadPool -----------------------------
(***************************************************************************)
(* The ThreadPool of src/core/thread_pool.cpp: a queue under a mutex, a    *)
(* counting semaphore, worker jthreads and a destructor that stops them.   *)
(*                                                                         *)
(* One thread submits tasks (the thread in sendFile, or the receiver's io  *)
(* thread) and one destroys the pool.  Each semaphore operation, atomic    *)
(* access and critical section is one step.                                *)
(***************************************************************************)
EXTENDS Integers, Sequences, FiniteSets

CONSTANTS
    NumWorkers,     \* threads of the pool
    NumTasks        \* bound on the tasks submitted

ASSUME ThreadPoolAssumption ==
    /\ NumWorkers \in Nat \ {0}
    /\ NumTasks \in Nat

Workers == 1 .. NumWorkers

VARIABLES
    tasks_,         \* the queue; tasks are numbered as they are submitted
    taskSemaphore_,
    shutdown_,
    submitted,      \* tasks queued so far
    submitPc,       \* the submitting thread, inside submit
    workerPc,       \* where each worker is in its loop
    task,           \* the task each worker holds, 0 for none
    stop,           \* stoken.stop_requested()
    closePc,        \* the destroying thread, inside shutdown
    joining,        \* the worker whose jthread workers_.clear() destroys
    started,        \* history: tasks in the order the workers took them
    finished,       \* history: tasks that ran to their end
    wasIdle         \* history: had the pool nothing to do when shut down?

submitVars == <<submitPc, submitted>>
closeVars  == <<shutdown_, stop, closePc, joining, wasIdle>>
workVars   == <<workerPc, task, started, finished>>
vars       == <<tasks_, taskSemaphore_, submitVars, closeVars, workVars>>

------------------------------------------------------------------------------
(* submit *)

\* The critical section: a stopped pool throws, else the task is queued.
Enqueue ==
    /\ submitPc = "idle"
    /\ submitted < NumTasks
    /\ IF shutdown_
       THEN submitPc' = "threw" /\ UNCHANGED <<tasks_, submitted>>
       ELSE /\ submitPc' = "release"
            /\ submitted' = submitted + 1
            /\ tasks_' = Append(tasks_, submitted + 1)
    /\ UNCHANGED <<taskSemaphore_, closeVars, workVars>>

\* MUTANT: the semaphore is not released when the queue was not empty.
ReleaseIfFirst ==
    /\ submitPc = "release"
    /\ submitPc' = "idle"
    /\ taskSemaphore_' = taskSemaphore_ + (IF Len(tasks_) > 1 THEN 0 ELSE 1)
    /\ UNCHANGED <<tasks_, submitted, closeVars, workVars>>

\* After the lock is given up, one permit.
Release ==
    /\ submitPc = "release"
    /\ submitPc' = "idle"
    /\ taskSemaphore_' = taskSemaphore_ + 1
    /\ UNCHANGED <<tasks_, submitted, closeVars, workVars>>

------------------------------------------------------------------------------
(* The loop of worker w *)

Goto(w, from, to) ==
    /\ workerPc[w] = from
    /\ workerPc' = [workerPc EXCEPT ![w] = to]

CheckStop(w) ==
    /\ Goto(w, "loop", IF stop[w] THEN "exited" ELSE "acquire")
    /\ UNCHANGED <<tasks_, taskSemaphore_, submitVars, closeVars, task,
                   started, finished>>

\* MUTANT: a worker does not wait for a permit.
AcquireSpins(w) ==
    /\ Goto(w, "acquire", "check")
    /\ taskSemaphore_' =
          (IF taskSemaphore_ > 0 THEN taskSemaphore_ - 1 ELSE taskSemaphore_)
    /\ UNCHANGED <<tasks_, submitVars, closeVars, task, started, finished>>

\* MUTANT: the permit is tested and taken in two steps, and lost in between.
AcquireUnguarded(w) ==
    /\ tasks_ # <<>> \/ shutdown_
    /\ Goto(w, "acquire", "check")
    /\ taskSemaphore_' = taskSemaphore_ - 1
    /\ UNCHANGED <<tasks_, submitVars, closeVars, task, started, finished>>

Acquire(w) ==
    /\ taskSemaphore_ > 0
    /\ Goto(w, "acquire", "check")
    /\ taskSemaphore_' = taskSemaphore_ - 1
    /\ UNCHANGED <<tasks_, submitVars, closeVars, task, started, finished>>

\* Reads the queue without the lock.
CheckShutdown(w) ==
    /\ Goto(w, "check",
            IF shutdown_ /\ tasks_ = <<>> THEN "exited" ELSE "pop")
    /\ UNCHANGED <<tasks_, taskSemaphore_, submitVars, closeVars, task,
                   started, finished>>

\* MUTANT: the front of the queue is read but not removed.
PopKeeps(w) ==
    /\ tasks_ # <<>>
    /\ Goto(w, "pop", "run")
    /\ task' = [task EXCEPT ![w] = Head(tasks_)]
    /\ started' = Append(started, Head(tasks_))
    /\ UNCHANGED <<tasks_, taskSemaphore_, submitVars, closeVars, finished>>

\* The critical section: an empty queue sends the worker round again.
Pop(w) ==
    /\ IF tasks_ = <<>>
       THEN /\ Goto(w, "pop", "loop")
            /\ UNCHANGED <<tasks_, task, started>>
       ELSE /\ Goto(w, "pop", "run")
            /\ task' = [task EXCEPT ![w] = Head(tasks_)]
            /\ started' = Append(started, Head(tasks_))
            /\ tasks_' = Tail(tasks_)
    /\ UNCHANGED <<taskSemaphore_, submitVars, closeVars, finished>>

\* The task runs, or throws into its future; either way the worker goes on.
Run(w) ==
    /\ Goto(w, "run", "loop")
    /\ finished' = finished \cup {task[w]}
    /\ task' = [task EXCEPT ![w] = 0]
    /\ UNCHANGED <<tasks_, taskSemaphore_, submitVars, closeVars, started>>

------------------------------------------------------------------------------
(* shutdown, called by the destructor *)

Shutdown ==
    /\ closePc = "open"
    /\ shutdown_' = TRUE
    /\ wasIdle' = (submitPc # "release" /\ finished = 1 .. submitted)
    /\ closePc' = "release"
    /\ UNCHANGED <<tasks_, taskSemaphore_, submitVars, stop, joining, workVars>>

\* MUTANT: one worker too few is woken.
ReleaseAllButOne ==
    /\ closePc = "release"
    /\ taskSemaphore_' = taskSemaphore_ + NumWorkers - 1
    /\ closePc' = "join"
    /\ UNCHANGED <<tasks_, submitVars, shutdown_, wasIdle, stop, joining,
                   workVars>>

ReleaseAll ==
    /\ closePc = "release"
    /\ taskSemaphore_' = taskSemaphore_ + NumWorkers
    /\ closePc' = "join"
    /\ UNCHANGED <<tasks_, submitVars, shutdown_, wasIdle, stop, joining,
                   workVars>>

\* workers_.clear() destroys one jthread after the other: request_stop, join.
RequestStop ==
    /\ closePc = "join"
    /\ joining <= NumWorkers
    /\ stop' = [stop EXCEPT ![joining] = TRUE]
    /\ closePc' = "joining"
    /\ UNCHANGED <<tasks_, taskSemaphore_, submitVars, shutdown_, wasIdle,
                   joining, workVars>>

\* MUTANT: the thread is detached, not joined.
JoinDetaches ==
    /\ closePc = "joining"
    /\ joining' = joining + 1
    /\ closePc' = IF joining = NumWorkers THEN "closed" ELSE "join"
    /\ UNCHANGED <<tasks_, taskSemaphore_, submitVars, shutdown_, wasIdle, stop,
                   workVars>>

Join ==
    /\ closePc = "joining"
    /\ workerPc[joining] = "exited"
    /\ joining' = joining + 1
    /\ closePc' = IF joining = NumWorkers THEN "closed" ELSE "join"
    /\ UNCHANGED <<tasks_, taskSemaphore_, submitVars, shutdown_, wasIdle, stop,
                   workVars>>

------------------------------------------------------------------------------
Init ==
    /\ tasks_ = <<>> /\ taskSemaphore_ = 0 /\ shutdown_ = FALSE
    /\ submitted = 0 /\ submitPc = "idle"
    /\ workerPc = [w \in Workers |-> "loop"]
    /\ task = [w \in Workers |-> 0]
    /\ stop = [w \in Workers |-> FALSE]
    /\ closePc = "open" /\ joining = 1
    /\ started = <<>> /\ finished = {} /\ wasIdle = FALSE

Submit == Enqueue \/ Release

Work(w) ==
    CheckStop(w) \/ Acquire(w) \/ CheckShutdown(w) \/ Pop(w) \/ Run(w)

Close == ReleaseAll \/ RequestStop \/ Join

Next ==
    \/ Submit
    \/ \E w \in Workers : Work(w)
    \/ Shutdown
    \/ Close

Spec == Init /\ [][Next]_vars

\* Threads that can run do; nothing obliges anyone to destroy the pool.
FairSpec ==
    /\ Spec
    /\ WF_vars(Submit)
    /\ \A w \in Workers : WF_vars(Work(w))
    /\ WF_vars(Close)
=============================================================================
